------------------------------- MODULE Venues -------------------------------
(***************************************************************************)
(* One venue, its adapter and the fetch worker's loop as far as it is about *)
(* that venue (src/classifier/workers/fetch.py).  An iteration is a paged  *)
(* fetch, the closure check on what left the feed, the pass over what      *)
(* closed lately, the reactivation of what is listed again, and then,      *)
(* whichever are due, the resolve cycle, the stale cycle and the           *)
(* settlement sweep.  The venue opens, shuts, reprices, finalises and      *)
(* reopens its markets between any two requests.  Lifecycle has what those *)
(* stages do to the registry, with crashes and the queue between; here     *)
(* each writes at once, every event is above its volume threshold, and the *)
(* module is about what the adapters' endpoints, pages, caches and lookup  *)
(* budget let the loop see.                                                *)
(*                                                                         *)
(* The adapter is chosen at the start.  Polymarket US pages by offset and  *)
(* keeps full events for a while; Polymarket International asks the CLOB   *)
(* about markets Gamma has forgotten, so many an hour; Hyperliquid is      *)
(* asked about few outcomes at once, and about those still on.             *)
(*                                                                         *)
(* Every iteration fetches; the resolve cycle may be due in any of them,   *)
(* and reads the venue in one answer; the stale cycle and the sweep have   *)
(* one interval and are due once an hour.  StaleTracker has the stale      *)
(* cycle on a fetch made earlier, its message cap and its failures.        *)
(***************************************************************************)
EXTENDS Adapters

CONSTANTS
    Has,         \* bound: the markets each venue has
    Listed,      \* bound: those of them open at the start
    PageSize,    \* settle_max_candidates: contracts a sweep looks at in one cycle
    MaxLeft,     \* closure_check_max_lookups
    Budget,      \* CLOB_LOOKUPS_PER_HOUR
    Threshold,   \* stale_miss_threshold
    MaxFaults,   \* bound: requests that fail
    MaxChanges   \* bound: by adapter, and whether its events' flags are set: changes the venue makes, besides forgetting

ASSUME VenuesAssumption ==
    /\ {Has, Listed} \subseteq [Venues -> SUBSET Market]
    /\ {PageSize, MaxLeft, Budget, Threshold} \subseteq Nat \ {0}
    /\ MaxFaults \in Nat /\ MaxChanges \in [Venues \X BOOLEAN -> Nat]

VARIABLES
    venue,      \* which adapter
    grouped,    \* its events' flag: mutually exclusive, negative risk, a question
    now,        \* the venue's markets
    forgotten,  \* the markets Gamma no longer answers for
    changes, faults,
    full,       \* _full_events: the events kept whole, and whether they are past FULL_EVENT_TTL_SECONDS
    spent,      \* _clob_lookups
    window,     \* hours since _clob_window_start, at most 2
    pc,         \* where the loop is
    at,         \* how far the fetch has read: the last event's number, or the offset
    read,       \* the contracts it has yielded
    met,        \* the events it has met
    known,      \* known_contracts: the ids of the last fetch, and those a failed one read besides
    left,       \* left_feed
    sent,       \* sent_resolved
    on, off,    \* the ids whose listing is active, and was deactivated
    recent,     \* of those off, the ones deactivated in the last settle_recent_hours
    value,      \* settlement_price of each id
    cursor,     \* _settle_cursors: the last contract the sweep looked at
    active,     \* _active_events: the native events of the last fetch, none if it failed
    misses,     \* tracker: the misses of each native event
    counted,    \* feed_counts: the events of the last feed that misses were counted against
    due,        \* the stale cycle and the sweep are due
    was         \* history: see Init

loopVars  == <<pc, at, read, met, known, left>>
listVars  == <<on, off, recent, value>>
clobVars  == <<spent, window>>
staleVars == <<misses, counted>>
venueVars == <<now, forgotten, changes>>
vars == <<venue, grouped, venueVars, faults, full, clobVars, loopVars, sent, listVars, cursor, active, staleVars, due, was>>

\* event_contract_id grows with the market and its side.
ContractId(k) == 2 * k.market + IF k.leg = "no" THEN 1 ELSE 0
FirstKeys(K, n) == {k \in K : Cardinality({x \in K : ContractId(x) < ContractId(k)}) < n}

\* The native event a contract is listed under.
NativeOf(k) == IF grouped /\ venue # "POLYMARKET_US" THEN OfEvent(EventOf[k.market]) ELSE OfMarket(k.market)

Active(e) == OpenIn(now, MarketsOf(e)) # {}
\* The US event list carries an event's primary market alone: more than one, and the event itself is read.
Trimmed(e) == venue = "POLYMARKET_US" /\ Cardinality(MarketsOf(e)) > 1

HourStart ==
    IF venue = "POLYMARKET_US" THEN [open |-> OpenIn(now, Market), shut |-> Market \ OpenIn(now, Market)]
    ELSE [open |-> {}, shut |-> {}]

Init ==
    /\ venue \in Venues
    /\ grouped \in BOOLEAN /\ (venue = "POLYMARKET_US" => ~grouped)
    /\ now = [m \in Market |-> [status |-> IF m \in Has[venue] \cap Listed[venue] THEN "open" ELSE "unlisted", yes |-> 0]]
    /\ forgotten = {} /\ changes = 0 /\ faults = 0
    /\ full = [e \in {} |-> 0]
    /\ spent = 0 /\ window = 2
    /\ pc = "fetch" /\ at = 0 /\ read = {} /\ met = {}
    /\ known = {} /\ left = {} /\ sent = {}
    /\ on = {} /\ off = {} /\ recent = {}
    /\ value = [k \in Key |-> None]
    /\ cursor = 0 /\ due = TRUE
    /\ active = {} /\ misses = [n \in {} |-> 0] /\ counted = 0
    \* The contracts ever listed, and the markets that were not open at some moment since this iteration's fetch began;
    \* for Polymarket US, whose event lists may be out of date, the markets that were open, and that were not, at some
    \* moment of this hour, and whether an event left the venue's list during this fetch.
    /\ was = [listed |-> {}, open |-> HourStart.open, shut |-> HourStart.shut, slipped |-> FALSE]

-----------------------------------------------------------------------------
(* The venue.                                                               *)

VenueMoves(m, status, yes) ==
    /\ changes < MaxChanges[venue, grouped] /\ changes' = changes + 1
    /\ now' = [now EXCEPT ![m] = [status |-> status, yes |-> yes]]
    /\ LET us == venue = "POLYMARKET_US"
           slips == us /\ pc = "reading" /\ OpenIn(now, MarketsOf(EventOf[m])) = {m} IN
       was' = IF status = "open" THEN (IF us THEN [was EXCEPT !.open = @ \cup {m}] ELSE was)
              ELSE IF us \/ pc # "fetch" THEN [was EXCEPT !.shut = @ \cup {m}, !.slipped = @ \/ slips] ELSE was
    /\ UNCHANGED <<venue, grouped, forgotten, faults, full, clobVars, loopVars, sent, listVars, cursor, active, staleVars,
                   due>>

Lists(m) == now[m].status = "unlisted" /\ VenueMoves(m, "open", 0)
\* A market shuts with a value only proposed (YES, here), which may be disputed; Hyperliquid's settle at once.
Shuts(m) ==
    /\ now[m].status = "open" /\ venue # "HYPERLIQUID"
    /\ VenueMoves(m, "shut", Scale)
Amends(m)  == now[m].status = "shut" /\ VenueMoves(m, "shut", Scale - now[m].yes)
Reopens(m) == now[m].status = "shut" /\ VenueMoves(m, "open", 0)
Finalises(m) ==
    \/ now[m].status = "shut" /\ VenueMoves(m, "final", now[m].yes)
    \/ /\ now[m].status = "open" /\ venue = "HYPERLIQUID"
       /\ \E yes \in {0, Scale} : VenueMoves(m, "final", yes)
\* Gamma stops answering for a market some time after it closes.
Forgets(m) ==
    /\ venue = "POLYMARKET_INTL" /\ m \notin forgotten /\ now[m].status \in {"shut", "final"}
    /\ forgotten' = forgotten \cup {m}
    /\ UNCHANGED <<venue, grouped, now, changes, faults, full, clobVars, loopVars, sent, listVars, cursor, active,
                   staleVars, due, was>>

Moves == \E m \in Has[venue] : Lists(m) \/ Shuts(m) \/ Amends(m) \/ Reopens(m) \/ Finalises(m) \/ Forgets(m)

-----------------------------------------------------------------------------
(* The fetch.                                                               *)

Goto(label) == pc' = label

\* Between two iterations nothing is recorded of what is not open but for Polymarket US's hour.
NextIteration ==
    /\ Goto("fetch")
    /\ was' = [was EXCEPT !.shut = IF venue = "POLYMARKET_US" THEN @ ELSE {}]

StartFetch ==
    /\ pc = "fetch" /\ Goto("reading")
    /\ at' = 0 /\ read' = {} /\ met' = {}
    /\ was' = [was EXCEPT !.slipped = FALSE,
                          !.shut = IF venue = "POLYMARKET_US" THEN @ ELSE Market \ OpenIn(now, Market)]
    /\ UNCHANGED <<venue, grouped, venueVars, faults, full, clobVars, known, left, sent, listVars, cursor, active,
                   staleVars, due>>

\* The page after `at`, of one event: the offset counts the events there are now, a cursor those already read.
\* Hyperliquid gives all in one answer.
NextPage ==
    LET listed == {e \in Event : Active(e)} IN
    CASE venue = "POLYMARKET_US" -> {e \in listed : Cardinality({x \in listed : x < e}) = at}
      [] venue = "HYPERLIQUID"   -> IF at = 0 THEN listed ELSE {}
      [] OTHER                   -> Least({e \in listed : e > at}, 1)

\* The event whole: the one kept if it is fresh, else the venue's, kept from now.
FullEventEver(e) == IF e \in DOMAIN full THEN full[e].markets ELSE now
FullEvent(e) == IF e \in DOMAIN full /\ ~full[e].old THEN full[e].markets ELSE now
KeepFull(e)  ==
    IF e \in DOMAIN full /\ ~full[e].old THEN full
    ELSE [x \in DOMAIN full \cup {e} |-> IF x = e THEN [old |-> FALSE, markets |-> now] ELSE full[x]]

MapPage(page) ==
    CASE venue = "KALSHI"          -> UNION {KalshiMapEvent(now, grouped, e) : e \in page}
      [] venue = "POLYMARKET_INTL" -> UNION {IntlMapEvent(now, grouped, e) : e \in page}
      [] venue = "POLYMARKET_US"   -> UNION {UsMapEvent(IF Trimmed(e) THEN FullEvent(e) ELSE now, e) : e \in page}
      [] venue = "HYPERLIQUID"     -> MapAll(now, grouped)

\* Each page is sent as it is read: what it lists for the first time gets a listing (the normalize worker's part).
ReadPage ==
    /\ pc = "reading" /\ NextPage # {}
    /\ read' = read \cup MapPage(NextPage)
    /\ on' = on \cup ({c.key : c \in MapPage(NextPage)} \ off)
    /\ met' = met \cup NextPage
    /\ at' = IF venue = "POLYMARKET_US" THEN at + 1 ELSE CHOOSE e \in NextPage : \A x \in NextPage : x <= e
    /\ LET trimmed == {e \in NextPage : Trimmed(e)} IN
       full' = IF trimmed = {} THEN full ELSE KeepFull(CHOOSE e \in trimmed : TRUE)
    /\ was' = [was EXCEPT !.listed = @ \cup MapPage(NextPage)]
    /\ UNCHANGED <<venue, grouped, venueVars, faults, clobVars, pc, known, left, sent, off, recent, value, cursor, active,
                   staleVars, due>>

\* The contracts read become the known ones, their native events the active ones, and the full events not met are
\* dropped.
FinishFetch ==
    /\ pc = "reading" /\ NextPage = {} /\ Goto("closures")
    /\ LET ids == {c.key : c \in read} IN known' = ids /\ left' = known \ ids
    /\ active' = {c.native : c \in read}
    /\ full' = [e \in DOMAIN full \cap met |-> full[e]]
    /\ UNCHANGED <<venue, grouped, venueVars, faults, clobVars, at, read, met, sent, listVars, cursor, staleVars, due, was>>

\* A request that fails ends the fetch: what was sent stays known, no event counts as missing, nothing left the feed.
FetchFailsCounted ==
    /\ pc = "reading" /\ faults < MaxFaults /\ faults' = faults + 1
    /\ Goto("resolve")
    /\ known' = known \cup {c.key : c \in read} /\ active' = {c.native : c \in read}
    /\ read' = {} /\ met' = {} /\ at' = 0
    /\ UNCHANGED <<venue, grouped, venueVars, full, clobVars, left, sent, listVars, cursor, staleVars, due, was>>
FetchFails ==
    /\ pc = "reading" /\ faults < MaxFaults /\ faults' = faults + 1
    /\ Goto("resolve")
    /\ known' = known \cup {c.key : c \in read} /\ active' = {}
    /\ read' = {} /\ met' = {} /\ at' = 0
    /\ UNCHANGED <<venue, grouped, venueVars, full, clobVars, left, sent, listVars, cursor, staleVars, due, was>>

-----------------------------------------------------------------------------
(* Lookups.                                                                 *)

\* apply_market_states.
Apply(states) ==
    /\ value' = [k \in Key |-> IF k \in DOMAIN states /\ value[k] = None THEN states[k].value ELSE value[k]]
    /\ LET closed == {k \in on : k \in DOMAIN states /\ ~states[k].open} IN
       on' = on \ closed /\ off' = off \cup closed /\ recent' = recent \cup closed

\* states.update.
Update(states, more) ==
    [k \in DOMAIN states \cup DOMAIN more |-> IF k \in DOMAIN more THEN more[k] ELSE states[k]]

\* The markets the CLOB is asked about: as many of the first ones as the hour has lookups left.
TakeClobLookups(markets, reset) == Least(markets, Budget - IF reset THEN 0 ELSE spent)

Resets == IF window = 0 THEN {FALSE} ELSE IF window = 1 THEN BOOLEAN ELSE {TRUE}
Spend(n, reset) ==
    /\ spent' = (IF reset THEN 0 ELSE spent) + n
    /\ window' = IF reset THEN 0 ELSE window

IntlLookUp(ids) ==
    LET gone == {k \in ids : k.market \in forgotten} IN
    IF gone = {} THEN Apply(GammaStates(now, ids)) /\ UNCHANGED clobVars
    ELSE \E reset \in Resets :
         LET asked == TakeClobLookups({k.market : k \in gone}, reset) IN
         /\ Apply(Update(GammaStates(now, ids \ gone), ClobStates(now, {k \in gone : k.market \in asked})))
         /\ Spend(Cardinality(asked), reset)

\* A look-up is counted before the CLOB is asked, so those made before one fails are spent.
SpentInVain(ids) ==
    LET gone == IF venue = "POLYMARKET_INTL" THEN {k.market : k \in {k \in ids : k.market \in forgotten}} ELSE {} IN
    \/ UNCHANGED clobVars
    \/ gone # {} /\ \E reset \in Resets : \E n \in 1..Cardinality(TakeClobLookups(gone, reset)) : Spend(n, reset)

LookUp(ids) ==
    IF venue = "POLYMARKET_INTL" THEN IntlLookUp(ids)
    ELSE /\ UNCHANGED clobVars
         /\ Apply(CASE venue = "KALSHI"        -> KalshiStates(now, ids)
                    [] venue = "POLYMARKET_US" -> UsStates(now, ids)
                    [] venue = "HYPERLIQUID"   -> HyperliquidStates(now, ids))

\* _look_up: a venue that cannot be asked changes no listing.
LookUpOrFail(ids) ==
    \/ ids # {} /\ LookUp(ids) /\ UNCHANGED faults
    \/ ids # {} /\ faults < MaxFaults /\ faults' = faults + 1 /\ SpentInVain(ids) /\ UNCHANGED listVars
    \/ ids = {} /\ UNCHANGED <<listVars, clobVars, faults>>

\* So many leaving at once is a feed fault.
CheckClosures ==
    /\ pc = "closures" /\ Goto("recent")
    /\ LookUpOrFail(IF Cardinality(left) > MaxLeft THEN {} ELSE left)
    /\ left' = {} /\ read' = {} /\ met' = {} /\ at' = 0
    /\ UNCHANGED <<venue, grouped, venueVars, full, known, sent, cursor, active, staleVars, due, was>>

\* get_unsettled_contracts: in id order from a cursor, at most so many.
Candidates(K, after, limit) ==
    FirstKeys({k \in K : value[k] = None /\ ContractId(k) > after}, limit)

SettlePageSize == IF venue = "HYPERLIQUID" /\ MaxLookups < PageSize THEN MaxLookups ELSE PageSize

\* A short page means the end was reached, and the next sweep starts from the beginning.
NextCursorStays(page) ==
    IF page = {} THEN cursor ELSE ContractId(CHOOSE k \in page : \A x \in page : ContractId(x) <= ContractId(k))
NextCursor(page) ==
    IF Cardinality(page) = SettlePageSize
    THEN ContractId(CHOOSE k \in page : \A x \in page : ContractId(x) <= ContractId(k)) ELSE 0

SettleRecent ==
    /\ pc = "recent" /\ Goto("reopen")
    /\ LookUpOrFail(Candidates(recent, 0, SettlePageSize))
    /\ UNCHANGED <<venue, grouped, venueVars, full, at, read, met, known, left, sent, cursor, active, staleVars, due, was>>

\* What the feed lists comes back on, unless it has been paid out.
Reactivate ==
    /\ pc = "reopen" /\ Goto("resolve")
    /\ LET back == {k \in known \cap off : value[k] = None} IN
       on' = on \cup back /\ off' = off \ back /\ recent' = recent \ back
    /\ UNCHANGED <<venue, grouped, venueVars, faults, full, clobVars, at, read, met, known, left, sent, value, cursor,
                   active, staleVars, due, was>>

-----------------------------------------------------------------------------
(* The cycles after the fetch.                                              *)

TurnOff(K) ==
    on' = on \ K /\ off' = off \cup (on \cap K) /\ recent' = recent \cup (on \cap K)

ActiveFull == {e \in Event : Active(e) /\ Trimmed(e)}
ReadFull == [e \in ActiveFull |-> KeepFull(e)[e]]

Resolved ==
    CASE venue = "KALSHI"          -> KalshiResolved(now, grouped)
      [] venue = "POLYMARKET_INTL" -> IntlResolved(now)
      [] venue = "POLYMARKET_US"   -> UsResolved(now, [e \in {e \in Event : Active(e)} |->
                                                         IF Trimmed(e) THEN FullEvent(e) ELSE now])
      [] venue = "HYPERLIQUID"     -> HyperliquidResolved(now, grouped)

\* The resolve cycle's interval is shorter than an hour and longer than an iteration: it may be due, or not.
Resolving ==
    /\ pc = "resolve" /\ IF due THEN Goto("stale") /\ UNCHANGED was ELSE NextIteration
    /\ UNCHANGED <<venue, grouped, venueVars, clobVars, at, read, met, known, left, value, cursor, active, staleVars, due>>

SkipResolve == Resolving /\ UNCHANGED <<faults, full, sent, listVars>>

\* Each id is told of once while it stays closed; the normalize worker turns it off.
ResolveCycle ==
    /\ Resolving
    /\ TurnOff(Resolved \ sent)
    /\ sent' = Resolved
    /\ full' = IF venue = "POLYMARKET_US" THEN ReadFull ELSE full
    /\ UNCHANGED faults

\* A venue that cannot be asked has no id that is closed, and what it told of is told again.
ResolveFails ==
    /\ Resolving
    /\ faults < MaxFaults /\ faults' = faults + 1
    /\ sent' = {}
    /\ UNCHANGED <<full, listVars>>

\* A feed that has nothing, or under half of what it had, counts no misses (stale_min_feed_ratio).
FeedGap == active = {} \/ 2 * Cardinality(active) < counted
MissedTooOften == {n \in DOMAIN misses \ active : misses[n] + 1 >= Threshold}

\* A native event missing from so many feeds is taken for over: its listings go off, whatever the venue says of them.
StaleCycle ==
    /\ pc = "stale" /\ Goto("settle")
    /\ \/ FeedGap /\ UNCHANGED <<staleVars, listVars>>
       \/ /\ ~FeedGap
          /\ counted' = Cardinality(active)
          /\ misses' = [n \in (DOMAIN misses \cup active) \ MissedTooOften |-> IF n \in active THEN 0 ELSE misses[n] + 1]
          /\ TurnOff({k \in on : NativeOf(k) \in MissedTooOften})
          /\ UNCHANGED value
    /\ UNCHANGED <<venue, grouped, venueVars, faults, full, clobVars, at, read, met, known, left, sent, cursor, active, due,
                   was>>

\* The cursor moves on before the venue is asked, whatever it answers.
SettleSweep ==
    /\ pc = "settle" /\ NextIteration /\ due' = FALSE
    /\ LET page == Candidates(off \cup (IF venue = "HYPERLIQUID" THEN on ELSE {}), cursor, SettlePageSize) IN
       /\ cursor' = NextCursor(page)
       /\ LookUpOrFail(page)
    /\ UNCHANGED <<venue, grouped, venueVars, full, at, read, met, known, left, sent, active, staleVars>>

\* An hour on: the stale cycle and the sweep are due, what closed lately is no longer recent, and the full events kept
\* are too old.
HourPasses ==
    /\ pc = "fetch" /\ ~due
    /\ due' = TRUE
    /\ window' = IF window < 2 THEN window + 1 ELSE 2
    /\ recent' = {}
    /\ full' = [e \in DOMAIN full |-> [full[e] EXCEPT !.old = TRUE]]
    /\ was' = [was EXCEPT !.open = HourStart.open, !.shut = HourStart.shut]
    /\ UNCHANGED <<venue, grouped, venueVars, faults, spent, loopVars, sent, on, off, value, cursor, active, staleVars>>

\* A restart loses what the process keeps: the cursors, the full events, the active ones, and the count of lookups.
Restart ==
    /\ faults < MaxFaults /\ faults' = faults + 1
    /\ NextIteration
    /\ at' = 0 /\ read' = {} /\ met' = {} /\ left' = {} /\ active' = {}
    /\ full' = [e \in {} |-> 0] /\ spent' = 0 /\ window' = 2 /\ cursor' = 0 /\ due' = TRUE
    /\ UNCHANGED <<venue, grouped, venueVars, known, sent, listVars, staleVars>>

FetchCycle == StartFetch \/ ReadPage \/ FinishFetch \/ CheckClosures \/ SettleRecent \/ Reactivate
Loop == FetchCycle \/ ResolveCycle \/ SkipResolve \/ StaleCycle \/ SettleSweep

Next == Moves \/ Loop \/ FetchFails \/ ResolveFails \/ HourPasses \/ Restart
Spec == Init /\ [][Next]_vars
\* The loop goes round, the resolve cycle falls due again and again, and hours pass.
FairSpec == Spec /\ WF_vars(Loop) /\ SF_vars(ResolveCycle) /\ SF_vars(HourPasses)

-----------------------------------------------------------------------------
(* Properties.                                                              *)

\* A market is always listed under one event and as one type, whatever siblings come and go: Kalshi's, Polymarket
\* International's and Hyperliquid's mapping goes by the event's own flag.
OneIdentity ==
    \A a, b \in was.listed : a.key.market = b.key.market => a.native = b.native /\ a.type = b.type

\* A Polymarket US fetch, made of offset pages and of full events up to a TTL old, lists no market that has been closed
\* for as long as that, and misses none that was open all along unless an event left the list while it was paged.
FeedIsFaithful ==
    venue = "POLYMARKET_US" /\ pc = "closures" =>
        /\ \A c \in read : c.key.market \in was.open
        /\ was.slipped \/ \A m \in Market \ was.shut : \E c \in read : c.key.market = m

\* A recorded settlement is the value the venue made final, to each side its own: never one it could still amend, and
\* the two sides of a market together pay PRICE_SCALE.
RecordedIsFinal ==
    \A k \in Key : value[k] # None =>
        /\ now[k.market].status = "final"
        /\ value[k] = IF k.leg = "no" THEN Scale - now[k.market].yes ELSE now[k.market].yes

\* No cycle turns off the listing of a market that was open all through the iteration: the stale cycle, which asks no
\* venue, goes by a fetch that read every such market, and by none that failed.  Polymarket US's full events may be
\* up to the TTL old, and an event that left its list while it was paged may have hidden another.
OpenStaysOn ==
    [][\A k \in on \ on' : now[k.market].status # "open" \/ k.market \in was.shut \/ was.slipped]_vars

\* Every listed contract's final value is recorded in the end, though requests fail, the sweep takes a page an hour,
\* the worker restarts, and the CLOB lookups run out within the hour: as long as an hour has enough of them for every
\* market Gamma has forgotten (see the README).  But for a contract that came on, or back on, after the resolve cycle
\* had told of it, and was over again by the next one: that cycle never revisits what it has reported (settle.py), and
\* where the closure check failed and a sibling is still listed nothing else looks.
FinalGetsRecorded ==
    []<>(\A k \in on \cup off : now[k.market].status = "final" => value[k] # None \/ k \in on \cap sent)
=============================================================================
