------------------------------ MODULE Adapters ------------------------------
(***************************************************************************)
(* The exchange adapters (src/classifier/adapters): what each makes of its *)
(* venue's answers.  A venue keeps events, each with markets; an adapter   *)
(* lists a market's open sides as contracts (fetch), names the contracts   *)
(* that are over (fetch_resolved), and says what the venue now holds of    *)
(* contracts it is asked about (fetch_market_states).  The three see the   *)
(* same market through different endpoints, and all the rest of the system *)
(* relies on their naming it alike.                                        *)
(*                                                                         *)
(* A snapshot gives each market's status and its YES price: final once the *)
(* venue pays it out, only proposed while the market is merely shut.       *)
(* Titles, prices' decimals, specs, volumes and proposition sources are    *)
(* left out.                                                               *)
(***************************************************************************)
EXTENDS Integers, FiniteSets

CONSTANTS
    Market,      \* the venue's markets, numbered as it orders them
    EventOf,     \* the event each market is listed under
    Scale,       \* PRICE_SCALE: what the two sides of a market pay together
    MaxLookups   \* MAX_SETTLEMENT_LOOKUPS: Hyperliquid outcomes asked about at once

ASSUME AdaptersAssumption ==
    /\ Market \subseteq Nat \ {0} /\ IsFiniteSet(Market)
    /\ EventOf \in [Market -> Nat \ {0}]
    /\ Scale \in Nat \ {0} /\ MaxLookups \in Nat \ {0}

Venues == {"KALSHI", "POLYMARKET_INTL", "POLYMARKET_US", "HYPERLIQUID"}
Event  == {EventOf[m] : m \in Market}
Sides  == {"yes", "no"}
\* An exchange_security_id: a market's ticker, condition, slug or outcome, with its side where it has two listings.
Key == [market : Market, leg : Sides \cup {"whole"}]
Id(m, leg) == [market |-> m, leg |-> leg]
BothSides(M) == {Id(m, leg) : m \in M, leg \in Sides}

None == -1

MarketsOf(e)  == {m \in Market : EventOf[m] = e}
OpenIn(now, M) == {m \in M : now[m].status = "open"}
OverIn(now, M) == {m \in M : now[m].status \in {"shut", "final"}}

\* Of a finite set of numbers, the n smallest.
Least(S, n) == {x \in S : Cardinality({y \in S : y < x}) < n}

-----------------------------------------------------------------------------
(* fetch: the contracts of an event's open markets, and the event and type  *)
(* each belongs to.                                                         *)

Contract(key, native, type) == [key |-> key, native |-> native, type |-> type]
OfEvent(e)  == [kind |-> "event", id |-> e]
OfMarket(m) == [kind |-> "market", id |-> m]

IsMultiOutcome(flag) == flag

KalshiMapEventByCount(now, flag, e) ==
    LET open == OpenIn(now, MarketsOf(e)) IN
    IF flag /\ Cardinality(open) > 1
    THEN {Contract(Id(m, "whole"), OfEvent(e), "multi") : m \in open}
    ELSE {Contract(k, OfMarket(k.market), "binary") : k \in BothSides(open)}
KalshiMapEvent(now, flag, e) ==
    LET open == OpenIn(now, MarketsOf(e)) IN
    IF IsMultiOutcome(flag)
    THEN {Contract(Id(m, "whole"), OfEvent(e), "multi") : m \in open}
    ELSE {Contract(k, OfMarket(k.market), "binary") : k \in BothSides(open)}

\* An event without the flag has markets that all say the same, as the flag would.
IsNegRisk(flag) == flag

MapNegRiskGroup(e, open)  == {Contract(Id(m, "yes"), OfEvent(e), "multi") : m \in open}
MapBinaryMarket(m)        == {Contract(k, OfMarket(m), "binary") : k \in BothSides({m})}

IntlMapEvent(now, flag, e) ==
    LET open == OpenIn(now, MarketsOf(e)) IN
    IF IsNegRisk(flag) THEN MapNegRiskGroup(e, open) ELSE UNION {MapBinaryMarket(m) : m \in open}

UsMapEvent(now, e) ==
    {Contract(k, OfMarket(k.market), "binary") : k \in BothSides(OpenIn(now, MarketsOf(e)))}

\* A question keeps its outcomes multi-outcome to the last; an outcome under no question is its own event.
MapQuestion(e, active) == {Contract(Id(m, "yes"), OfEvent(e), "multi") : m \in active}
MapBinary(m)           == {Contract(k, OfMarket(m), "binary") : k \in BothSides({m})}

MapAll(now, questioned) ==
    IF questioned THEN UNION {MapQuestion(e, OpenIn(now, MarketsOf(e))) : e \in Event}
    ELSE UNION {MapBinary(m) : m \in OpenIn(now, Market)}

-----------------------------------------------------------------------------
(* fetch_resolved: the ids of the markets that are over.                    *)

\* Kalshi lists an event as settled while some of its markets still trade.
KalshiSettledEvents(now) == {e \in Event : \E m \in MarketsOf(e) : now[m].status = "final"}
KalshiActiveEvents(now)  == {e \in Event : OpenIn(now, MarketsOf(e)) # {}}

KalshiResolvedByEvent(now, flag) ==
    UNION {LET over == IF e \in KalshiSettledEvents(now) THEN MarketsOf(e)
                       ELSE MarketsOf(e) \ OpenIn(now, MarketsOf(e)) IN
           IF IsMultiOutcome(flag) THEN {Id(m, "whole") : m \in over} ELSE BothSides(over)
           : e \in KalshiSettledEvents(now) \cup KalshiActiveEvents(now)}
\* A market that has not opened yet has no "active" status either, and is named too.
KalshiResolved(now, flag) ==
    UNION {LET over == MarketsOf(e) \ OpenIn(now, MarketsOf(e)) IN
           IF IsMultiOutcome(flag) THEN {Id(m, "whole") : m \in over} ELSE BothSides(over)
           : e \in KalshiSettledEvents(now) \cup KalshiActiveEvents(now)}

IntlClosedEvents(now) == {e \in Event : OverIn(now, MarketsOf(e)) # {} /\ OpenIn(now, MarketsOf(e)) = {}}
IntlActiveEvents(now) == {e \in Event : OpenIn(now, MarketsOf(e)) # {}}

\* Of a closed event every market, whatever the market itself says.
IntlResolved(now) ==
    BothSides((UNION {MarketsOf(e) : e \in IntlClosedEvents(now)})
              \cup (UNION {OverIn(now, MarketsOf(e)) : e \in IntlActiveEvents(now)}))

\* The closed markets, and those not open in the events as the adapter has them, which may be a few minutes old.
UsResolved(now, had) ==
    BothSides(OverIn(now, Market)
              \cup (UNION {MarketsOf(e) \ OpenIn(had[e], MarketsOf(e)) : e \in DOMAIN had}))

HyperliquidResolved(now, questioned) ==
    IF questioned THEN BothSides({m \in Market : now[m].status = "final"}) ELSE {}

-----------------------------------------------------------------------------
(* fetch_market_states: what the venue holds of the ids asked about.  An id *)
(* it does not answer for is left out.                                      *)

OPEN   == [open |-> TRUE,  value |-> None]
CLOSED == [open |-> FALSE, value |-> None]
Settled(price) == [open |-> FALSE, value |-> price]

\* A market it has in none of its lists is left out; an open one has no value, nor has a closed one not yet final.
Answers(now, ids, pays) ==
    [k \in {k \in ids : now[k.market].status # "unlisted"} |->
        CASE now[k.market].status = "open"  -> OPEN
          [] now[k.market].status = "shut"  -> CLOSED
          [] now[k.market].status = "final" -> Settled(pays[k])]

\* The venue's own price of a market's side: a token's, a side's.
SidePays(now, k) == IF k.leg = "no" THEN Scale - now[k.market].yes ELSE now[k.market].yes

KalshiStatesOnceDetermined(now, ids) ==
    [k \in {k \in ids : now[k.market].status # "unlisted"} |->
        IF now[k.market].status = "open" THEN OPEN
        ELSE Settled(IF k.leg = "no" THEN Scale - now[k.market].yes ELSE now[k.market].yes)]
\* Kalshi gives the YES value alone: the NO listing pays what is left.
KalshiStates(now, ids) ==
    Answers(now, ids, [k \in ids |-> IF k.leg = "no" THEN Scale - now[k.market].yes ELSE now[k.market].yes])

\* Gamma's list of a market's prices has one for each token; the CLOB's tokens, and Polymarket US's sides, have theirs.
GammaStates(now, ids) == Answers(now, ids, [k \in ids |-> SidePays(now, k)])
ClobStates(now, ids)  == Answers(now, ids, [k \in ids |-> SidePays(now, k)])
UsStates(now, ids)    == Answers(now, ids, [k \in ids |-> SidePays(now, k)])

\* Only settled outcomes, and only the first few asked about.
HyperliquidStates(now, ids) ==
    LET asked == Least({k.market : k \in ids}, MaxLookups) IN
    [k \in {k \in ids : k.market \in asked /\ now[k.market].status = "final"} |-> Settled(SidePays(now, k))]
=============================================================================
