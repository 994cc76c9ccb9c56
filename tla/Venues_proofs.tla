---------------------------- MODULE Venues_proofs ----------------------------
(***************************************************************************)
(* Proofs about Venues, for every adapter, any markets and events, look-up *)
(* budget and page size, and whatever the venue does between two requests: *)
(* a market has one identity, a fetch by offsets and kept events is        *)
(* faithful, a recorded value is final, and what is open stays on.         *)
(***************************************************************************)
EXTENDS Venues, FiniteSetTheorems, WellFoundedInduction, TLAPS

-----------------------------------------------------------------------------
(* Finite sets of numbers, and the sets the pages are cut from.            *)

\* A set that is not empty has a least element by any measure.
LEMMA LeastBy ==
    ASSUME NEW S, S # {}, NEW measure \in [S -> Nat]
    PROVE  \E m \in S : \A s \in S : measure[m] <= measure[s]
<1> DEFINE below == {ss \in Nat \X Nat : ss[1] < ss[2]}
           values == {measure[s] : s \in S}
<1>1. IsWellFoundedOn(below, Nat)
    BY NatLessThanWellFounded DEF OpToRel
<1>2. values \subseteq Nat /\ values # {}
    OBVIOUS
<1>3. PICK least \in values : \A n \in values : <<n, least>> \notin below
    <2> HIDE DEF below, values
    <2> QED BY <1>1, <1>2, WFMin
<1>4. PICK m \in S : least = measure[m]
    BY <1>3
<1>5. ASSUME NEW s \in S PROVE measure[m] <= measure[s]
    <2>1. measure[s] \in values /\ measure[s] \in Nat /\ measure[m] \in Nat
        OBVIOUS
    <2>2. <<measure[s], measure[m]>> \notin below
        <3> HIDE DEF values
        <3> QED BY <1>3, <1>4, <2>1
    <2>3. ~(measure[s] < measure[m])
        BY <2>1, <2>2
    <2> QED BY <2>1, <2>3
<1> QED BY <1>5

\* A finite one has a greatest.
LEMMA GreatestBy ==
    ASSUME NEW S, IsFiniteSet(S), S # {}, NEW size \in [S -> Nat]
    PROVE  \E m \in S : \A s \in S : size[s] <= size[m]
<1> DEFINE above(s) == {t \in S : size[t] > size[s]}
           measure == [s \in S |-> Cardinality(above(s))]
<1>1. \A s \in S : IsFiniteSet(above(s)) /\ Cardinality(above(s)) \in Nat
    BY FS_Subset, FS_CardinalityType
<1>2. PICK m \in S : \A s \in S : Cardinality(above(m)) <= Cardinality(above(s))
    <2>1. measure \in [S -> Nat]
        BY <1>1
    <2>2. PICK m \in S : \A s \in S : measure[m] <= measure[s]
        <3> HIDE DEF measure
        <3> QED BY <2>1, LeastBy
    <2> QED BY <2>2
<1>3. ASSUME NEW s \in S PROVE size[s] <= size[m]
    <2>0. size[s] \in Nat /\ size[m] \in Nat
        OBVIOUS
    <2> SUFFICES ASSUME size[s] > size[m] PROVE FALSE
        BY <2>0
    <2>1. \A t \in S : size[t] > size[s] => size[t] > size[m]
        BY <2>0
    <2>2. above(s) \subseteq above(m) /\ s \in above(m) /\ s \notin above(s)
        BY <2>0, <2>1
    <2>3. Cardinality(above(s)) <= Cardinality(above(m)) /\ Cardinality(above(s)) # Cardinality(above(m))
        <3> HIDE DEF above
        <3> QED BY <1>1, <2>2, FS_Subset
    <2>4. Cardinality(above(m)) <= Cardinality(above(s)) /\ {Cardinality(above(s)), Cardinality(above(m))} \subseteq Nat
        BY <1>1, <1>2
    <2> HIDE DEF above
    <2> QED BY <2>3, <2>4
<1> QED BY <1>3

\* A finite set of numbers that is not empty has a greatest.
LEMMA GreatestOf ==
    ASSUME NEW S \in SUBSET Nat, IsFiniteSet(S), S # {}
    PROVE  \E m \in S : \A s \in S : s <= m
<1> DEFINE size == [s \in S |-> s]
<1>1. size \in [S -> Nat]
    OBVIOUS
<1>2. PICK m \in S : \A s \in S : size[s] <= size[m]
    <2> HIDE DEF size
    <2> QED BY <1>1, GreatestBy
<1> QED BY <1>2

Below(S, x) == {y \in S : y < x}

\* The elements of a finite set of numbers are counted without a gap: before one with n or more below it comes one
\* with exactly n.
LEMMA RanksFill ==
    ASSUME NEW S \in SUBSET Nat, IsFiniteSet(S), NEW e \in S, NEW n \in Nat, n <= Cardinality(Below(S, e))
    PROVE  \E x \in S : Cardinality(Below(S, x)) = n
<1> DEFINE late == {x \in S : n <= Cardinality(Below(S, x))}
           same == [x \in late |-> x]
<1>1. \A x \in S : Below(S, x) \subseteq S /\ IsFiniteSet(Below(S, x)) /\ Cardinality(Below(S, x)) \in Nat
    BY FS_Subset, FS_CardinalityType DEF Below
<1>2. same \in [late -> Nat] /\ late # {}
    OBVIOUS
<1>3. PICK x \in late : \A y \in late : x <= y
    <2>1. PICK x \in late : \A y \in late : same[x] <= same[y]
        <3> HIDE DEF late, same
        <3> QED BY <1>2, LeastBy
    <2> QED BY <2>1
<1>4. x \in S /\ n <= Cardinality(Below(S, x)) /\ x \in Nat
    OBVIOUS
<1>5. \A y \in Below(S, x) : y \in S /\ y < x /\ y \in Nat
    BY DEF Below
<1>6. \A y \in Below(S, x) : Cardinality(Below(S, y)) < n
    <2> SUFFICES ASSUME NEW y \in Below(S, x), ~(Cardinality(Below(S, y)) < n) PROVE FALSE
        OBVIOUS
    <2>1. y \in late
        BY <1>1, <1>5
    <2> HIDE DEF late
    <2> QED BY <1>3, <1>4, <1>5, <2>1
<1>7. CASE Below(S, x) = {}
    BY <1>1, <1>4, <1>7, FS_EmptySet
<1>8. CASE Below(S, x) # {}
    <2>1. PICK g \in Below(S, x) : \A y \in Below(S, x) : y <= g
        BY <1>1, <1>4, <1>5, <1>8, GreatestOf
    <2>2. Below(S, x) = Below(S, g) \cup {g} /\ g \notin Below(S, g)
        <3>1. g \in S /\ g \in Nat /\ g < x /\ ~(g < g)
            BY <1>5
        <3>2. \A y \in S : y < x <=> y < g \/ y = g
            <4> SUFFICES ASSUME NEW y \in S PROVE y < x <=> y < g \/ y = g
                OBVIOUS
            <4>1. y \in Nat
                OBVIOUS
            <4>2. y < x => y <= g
                BY <2>1 DEF Below
            <4> QED BY <1>4, <3>1, <4>1, <4>2
        <3> QED BY <3>1, <3>2 DEF Below
    <2>3. Cardinality(Below(S, x)) = Cardinality(Below(S, g)) + 1
        BY <1>1, <1>5, <2>2, FS_AddElement
    <2> QED BY <1>1, <1>4, <1>5, <1>6, <2>1, <2>3
<1> QED BY <1>7, <1>8

\* Of the least n there are at most n.
LEMMA LeastCount ==
    ASSUME NEW S \in SUBSET Nat, IsFiniteSet(S), NEW n \in Nat
    PROVE  /\ Least(S, n) \subseteq S /\ IsFiniteSet(Least(S, n))
           /\ Cardinality(Least(S, n)) \in Nat /\ Cardinality(Least(S, n)) <= n
<1>1. Least(S, n) \subseteq S /\ IsFiniteSet(Least(S, n)) /\ Cardinality(Least(S, n)) \in Nat
    BY FS_Subset, FS_CardinalityType DEF Least
<1>2. CASE Least(S, n) = {}
    BY <1>1, <1>2, FS_EmptySet
<1>3. CASE Least(S, n) # {}
    <2>1. PICK g \in Least(S, n) : \A x \in Least(S, n) : x <= g
        BY <1>1, <1>3, GreatestOf
    <2>2. Least(S, n) \subseteq Below(S, g) \cup {g} /\ g \notin Below(S, g) /\ g \in S
        <3>0. g \in S /\ g \in Nat
            BY <1>1
        <3>1. g \in S /\ g \in Nat /\ ~(g < g)
            BY <3>0
        <3>2. \A x \in Least(S, n) : x \in S /\ x \in Nat /\ (x < g \/ x = g)
            BY <1>1, <2>1, <3>1
        <3> QED BY <3>1, <3>2 DEF Below
    <2>3. Cardinality(Below(S, g)) < n
        BY <2>1 DEF Least, Below
    <2>4. IsFiniteSet(Below(S, g)) /\ Cardinality(Below(S, g)) \in Nat
        BY FS_Subset, FS_CardinalityType DEF Below
    <2>5. /\ IsFiniteSet(Below(S, g) \cup {g})
          /\ Cardinality(Below(S, g) \cup {g}) = Cardinality(Below(S, g)) + 1
        BY <2>2, <2>4, FS_AddElement
    <2>6. Cardinality(Least(S, n)) <= Cardinality(Below(S, g) \cup {g})
        BY <2>2, <2>5, FS_Subset
    <2> QED BY <1>1, <2>3, <2>4, <2>5, <2>6
<1> QED BY <1>1, <1>2, <1>3

\* There are finitely many events and ids.
LEMMA FiniteKeys == IsFiniteSet(Event) /\ Event \subseteq Nat \ {0} /\ IsFiniteSet(Key)
<1> DEFINE legs == Sides \cup {"whole"}
           id == [p \in Market \X legs |-> [market |-> p[1], leg |-> p[2]]]
<1>1. IsFiniteSet(Market) /\ EventOf \in Surjection(Market, Event)
    BY AdaptersAssumption DEF Event, Surjection
<1>2. IsFiniteSet(Event)
    BY <1>1, FS_Surjection
<1>3. legs = {"yes", "no", "whole"}
    BY DEF Sides
<1>4. IsFiniteSet(legs)
    <2>1. IsFiniteSet({} \cup {"yes"})
        BY FS_EmptySet, FS_AddElement
    <2>2. IsFiniteSet(({} \cup {"yes"}) \cup {"no"})
        BY <2>1, FS_AddElement
    <2>3. IsFiniteSet((({} \cup {"yes"}) \cup {"no"}) \cup {"whole"})
        BY <2>2, FS_AddElement
    <2>4. (({} \cup {"yes"}) \cup {"no"}) \cup {"whole"} = legs
        BY <1>3
    <2> QED BY <2>3, <2>4
<1>5. IsFiniteSet(Market \X legs)
    BY <1>1, <1>4, FS_Product
<1>6. id \in Surjection(Market \X legs, Key)
    <2>1. \A k \in Key : \E p \in Market \X legs : id[p] = k
        <3> SUFFICES ASSUME NEW k \in Key PROVE \E p \in Market \X legs : id[p] = k
            OBVIOUS
        <3>1. <<k.market, k.leg>> \in Market \X legs /\ k = [market |-> k.market, leg |-> k.leg]
            BY DEF Key
        <3>2. id[<<k.market, k.leg>>] = k
            BY <3>1
        <3> QED BY <3>1, <3>2
    <2>2. id \in [Market \X legs -> Key]
        BY DEF Key
    <2> HIDE DEF id, legs
    <2> QED BY <2>1, <2>2 DEF Surjection
<1>7. IsFiniteSet(Key)
    <2> HIDE DEF id, legs
    <2> QED BY <1>5, <1>6, FS_Surjection
<1> QED BY <1>2, <1>7, AdaptersAssumption DEF Event

-----------------------------------------------------------------------------
(* What the adapters make of the venue's answers.                          *)

Legs      == Sides \cup {"whole"}
Statuses  == {"unlisted", "open", "shut", "final"}
Snapshots == [Market -> [status : Statuses, yes : 0..Scale]]
Natives   == {OfEvent(e) : e \in Event} \cup {OfMarket(m) : m \in Market}
Contracts == [key : Key, native : Natives, type : {"multi", "binary"}]

\* Whether the venue's markets are listed under their event, and not one by one.
ByEvent == grouped /\ venue # "POLYMARKET_US"

\* A contract as its venue's adapter always lists it.
OneWay(c) ==
    /\ c.native = IF ByEvent THEN OfEvent(EventOf[c.key.market]) ELSE OfMarket(c.key.market)
    /\ c.type = IF ByEvent THEN "multi" ELSE "binary"

\* A contract's market, in the two ways an adapter lists it.
LEMMA ContractTypes ==
    ASSUME NEW m \in Market, NEW leg \in Legs
    PROVE  /\ Id(m, leg) \in Key /\ Id(m, leg).market = m
           /\ Contract(Id(m, leg), OfEvent(EventOf[m]), "multi") \in Contracts
           /\ Contract(Id(m, leg), OfMarket(m), "binary") \in Contracts
<1>2. Id(m, leg) \in Key /\ Id(m, leg).market = m
    BY DEF Id, Key, Legs
<1>3. OfEvent(EventOf[m]) \in Natives /\ OfMarket(m) \in Natives
    BY DEF Natives, Event
<1> QED BY <1>2, <1>3 DEF Contract, Contracts

\* Both sides of some markets are ids of theirs.
LEMMA BothSidesOf ==
    ASSUME NEW M \in SUBSET Market, NEW k \in BothSides(M)
    PROVE  k \in Key /\ k.market \in M /\ k = Id(k.market, k.leg) /\ k.leg \in Legs
<1>1. PICK m \in M, leg \in Sides : k = Id(m, leg)
    BY DEF BothSides
<1> QED BY <1>1 DEF Id, Key, Legs

\* A contract of both sides, by market.
LEMMA Binaries ==
    ASSUME NEW M \in SUBSET Market, NEW c \in {Contract(k, OfMarket(k.market), "binary") : k \in BothSides(M)}
    PROVE  /\ c \in Contracts /\ c.key.market \in M
           /\ c.native = OfMarket(c.key.market) /\ c.type = "binary"
<1>1. PICK k \in BothSides(M) : c = Contract(k, OfMarket(k.market), "binary")
    OBVIOUS
<1>2. k \in Key /\ k.market \in M /\ k = Id(k.market, k.leg) /\ k.leg \in Legs
    BY BothSidesOf
<1>3. c \in Contracts
    BY <1>1, <1>2, ContractTypes
<1> QED BY <1>1, <1>2, <1>3 DEF Contract

\* A contract of an event.
LEMMA Multis ==
    ASSUME NEW e, NEW m \in MarketsOf(e), NEW leg \in Legs,
           NEW c, c = Contract(Id(m, leg), OfEvent(e), "multi")
    PROVE  /\ c \in Contracts /\ c.key.market = m
           /\ c.native = OfEvent(EventOf[c.key.market]) /\ c.type = "multi"
<1>1. m \in Market /\ EventOf[m] = e
    BY DEF MarketsOf
<1>2. c \in Contracts /\ Id(m, leg).market = m
    BY <1>1, ContractTypes
<1> QED BY <1>1, <1>2 DEF Contract

\* Where the venue's answer about an event comes from.
Source(e) == IF venue = "POLYMARKET_US" /\ Trimmed(e) THEN FullEvent(e) ELSE now

\* A page lists open markets of the events on it, each in the one way of its venue.
LEMMA MapPageOf ==
    ASSUME venue \in Venues, grouped \in BOOLEAN,
           NEW page \in SUBSET Event, page # {}, NEW c \in MapPage(page)
    PROVE  /\ c \in Contracts /\ OneWay(c)
           /\ venue = "POLYMARKET_US" =>
                  \E e \in page : c.key.market \in OpenIn(Source(e), MarketsOf(e))
<1>0. \A e, snapshot : OpenIn(snapshot, MarketsOf(e)) \in SUBSET MarketsOf(e) /\ MarketsOf(e) \in SUBSET Market
    BY DEF OpenIn, MarketsOf
<1>00. "whole" \in Legs /\ "yes" \in Legs
    BY DEF Legs, Sides
<1>1. CASE venue = "KALSHI"
    <2>1. PICK e \in page : c \in KalshiMapEvent(now, grouped, e)
        BY <1>1 DEF MapPage
    <2>2. CASE grouped
        <3>1. PICK m \in OpenIn(now, MarketsOf(e)) : c = Contract(Id(m, "whole"), OfEvent(e), "multi")
            BY <2>1, <2>2 DEF KalshiMapEvent, IsMultiOutcome
        <3>2. m \in MarketsOf(e) /\ "whole" \in Legs
            BY <1>0, <1>00
        <3>3. /\ c \in Contracts /\ c.native = OfEvent(EventOf[c.key.market]) /\ c.type = "multi"
            BY <3>1, <3>2, Multis
        <3> QED BY <1>1, <2>2, <3>3 DEF OneWay, ByEvent
    <2>3. CASE ~grouped
        <3>1. c \in {Contract(k, OfMarket(k.market), "binary") : k \in BothSides(OpenIn(now, MarketsOf(e)))}
            BY <2>1, <2>3 DEF KalshiMapEvent, IsMultiOutcome
        <3> QED BY <1>0, <1>1, <2>3, <3>1, Binaries DEF OneWay, ByEvent
    <2> QED BY <2>2, <2>3
<1>2. CASE venue = "POLYMARKET_INTL"
    <2>1. PICK e \in page : c \in IntlMapEvent(now, grouped, e)
        BY <1>2 DEF MapPage
    <2>2. CASE grouped
        <3>1. PICK m \in OpenIn(now, MarketsOf(e)) : c = Contract(Id(m, "yes"), OfEvent(e), "multi")
            BY <2>1, <2>2 DEF IntlMapEvent, IsNegRisk, MapNegRiskGroup
        <3>2. m \in MarketsOf(e) /\ "yes" \in Legs
            BY <1>0, <1>00
        <3>3. /\ c \in Contracts /\ c.native = OfEvent(EventOf[c.key.market]) /\ c.type = "multi"
            BY <3>1, <3>2, Multis
        <3> QED BY <1>2, <2>2, <3>3 DEF OneWay, ByEvent
    <2>3. CASE ~grouped
        <3>1. PICK m \in OpenIn(now, MarketsOf(e)) : c \in MapBinaryMarket(m)
            BY <2>1, <2>3 DEF IntlMapEvent, IsNegRisk
        <3>2. c \in {Contract(k, OfMarket(k.market), "binary") : k \in BothSides({m})}
            <4>1. PICK k \in BothSides({m}) : c = Contract(k, OfMarket(m), "binary")
                BY <3>1 DEF MapBinaryMarket
            <4>2. m \in Market /\ {m} \in SUBSET Market
                BY <1>0
            <4>3. k.market = m
                BY <4>1, <4>2, BothSidesOf
            <4> QED BY <4>1, <4>3
        <3>3. {m} \in SUBSET Market
            BY <1>0
        <3> QED BY <1>2, <2>3, <3>2, <3>3, Binaries DEF OneWay, ByEvent
    <2> QED BY <2>2, <2>3
<1>3. CASE venue = "POLYMARKET_US"
    <2>1. PICK e \in page : c \in UsMapEvent(IF Trimmed(e) THEN FullEvent(e) ELSE now, e)
        BY <1>3 DEF MapPage
    <2>2. c \in {Contract(k, OfMarket(k.market), "binary") : k \in BothSides(OpenIn(Source(e), MarketsOf(e)))}
        BY <1>3, <2>1 DEF UsMapEvent, Source
    <2>3. OpenIn(Source(e), MarketsOf(e)) \in SUBSET Market
        BY <1>0
    <2> QED BY <1>3, <2>2, <2>3, Binaries DEF OneWay, ByEvent
<1>4. CASE venue = "HYPERLIQUID"
    <2>1. c \in MapAll(now, grouped)
        BY <1>4 DEF MapPage
    <2>2. CASE grouped
        <3>1. PICK e \in Event : c \in MapQuestion(e, OpenIn(now, MarketsOf(e)))
            BY <2>1, <2>2 DEF MapAll
        <3>2. PICK m \in OpenIn(now, MarketsOf(e)) : c = Contract(Id(m, "yes"), OfEvent(e), "multi")
            BY <3>1 DEF MapQuestion
        <3>3. m \in MarketsOf(e) /\ "yes" \in Legs
            BY <1>0, <1>00
        <3>4. /\ c \in Contracts /\ c.native = OfEvent(EventOf[c.key.market]) /\ c.type = "multi"
            BY <3>2, <3>3, Multis
        <3> QED BY <1>4, <2>2, <3>4 DEF OneWay, ByEvent
    <2>3. CASE ~grouped
        <3>1. PICK m \in OpenIn(now, Market) : c \in MapBinary(m)
            BY <2>1, <2>3 DEF MapAll
        <3>2. m \in Market /\ {m} \in SUBSET Market
            BY DEF OpenIn
        <3>3. c \in {Contract(k, OfMarket(k.market), "binary") : k \in BothSides({m})}
            <4>1. PICK k \in BothSides({m}) : c = Contract(k, OfMarket(m), "binary")
                BY <3>1 DEF MapBinary
            <4>2. k.market = m
                BY <3>2, <4>1, BothSidesOf
            <4> QED BY <4>1, <4>2
        <3> QED BY <1>4, <2>3, <3>2, <3>3, Binaries DEF OneWay, ByEvent
    <2> QED BY <2>2, <2>3
<1> QED BY <1>1, <1>2, <1>3, <1>4 DEF Venues

\* What a look-up answers: values that are final, each side's own, and closed only what is not open.
Honest(states) ==
    \A k \in Key \cap DOMAIN states :
        /\ states[k].value # None =>
               now[k.market].status = "final" /\ states[k].value = SidePays(now, k)
        /\ ~states[k].open => now[k.market].status # "open"

\* The answers built on a market's status and its own price.
LEMMA AnswersHonest ==
    ASSUME now \in Snapshots, NEW ids \in SUBSET Key, NEW pays, \A k \in ids : pays[k] = SidePays(now, k)
    PROVE  Honest(Answers(now, ids, pays))
<1> DEFINE answered == {k \in ids : now[k.market].status # "unlisted"}
           states == Answers(now, ids, pays)
<1>1. DOMAIN states = answered
    BY DEF Answers
<1> SUFFICES ASSUME NEW k \in answered
             PROVE  /\ states[k].value # None =>
                           now[k.market].status = "final" /\ states[k].value = SidePays(now, k)
                    /\ ~states[k].open => now[k.market].status # "open"
    BY <1>1 DEF Honest
<1>2. now[k.market].status \in {"open", "shut", "final"}
    BY DEF Snapshots, Statuses, Key
<1>3. states[k] = CASE now[k.market].status = "open"  -> OPEN
                    [] now[k.market].status = "shut"  -> CLOSED
                    [] now[k.market].status = "final" -> Settled(pays[k])
    BY DEF Answers
<1>4. CASE now[k.market].status = "open"
    BY <1>3, <1>4 DEF OPEN
<1>5. CASE now[k.market].status = "shut"
    BY <1>3, <1>5 DEF CLOSED
<1>6. CASE now[k.market].status = "final"
    BY <1>3, <1>6 DEF Settled
<1> QED BY <1>2, <1>4, <1>5, <1>6

-----------------------------------------------------------------------------
(* Type correctness.  The CLOB is asked Budget times in a window at most.  *)

Labels == {"fetch", "reading", "closures", "recent", "reopen", "resolve", "stale", "settle"}

VenueTyped ==
    /\ venue \in Venues /\ grouped \in BOOLEAN
    /\ now \in Snapshots /\ forgotten \subseteq Market
    /\ changes \in Nat /\ faults \in 0..MaxFaults

ProcessTyped ==
    /\ full \in [DOMAIN full -> [old : BOOLEAN, markets : Snapshots]] /\ DOMAIN full \subseteq Event
    /\ spent \in 0..Budget /\ window \in 0..2
    /\ cursor \in Nat /\ due \in BOOLEAN /\ active \subseteq Natives

LoopTyped ==
    /\ pc \in Labels /\ at \in Nat
    /\ read \subseteq Contracts /\ met \subseteq Event
    /\ known \subseteq Key /\ left \subseteq Key /\ sent \subseteq Key

RegistryTyped ==
    /\ on \subseteq Key /\ off \subseteq Key /\ recent \subseteq Key
    /\ value \in [Key -> (0..Scale) \cup {None}]

StaleTyped ==
    /\ DOMAIN misses \subseteq Natives /\ misses \in [DOMAIN misses -> 0..(Threshold - 1)]
    /\ counted \in Nat

HistoryTyped == was \in [listed : SUBSET Contracts, open : SUBSET Market, shut : SUBSET Market, slipped : BOOLEAN]

TypeOK == VenueTyped /\ ProcessTyped /\ LoopTyped /\ RegistryTyped /\ StaleTyped /\ HistoryTyped

\* What a final market pays each side is a price.
LEMMA PaysPrice ==
    ASSUME now \in Snapshots, NEW k \in Key
    PROVE  SidePays(now, k) \in 0..Scale /\ SidePays(now, k) # None
<1>1. now[k.market].yes \in 0..Scale /\ Scale \in Nat
    BY AdaptersAssumption DEF Snapshots, Key
<1> QED BY <1>1 DEF SidePays, None

\* Kalshi's price of the side it does not give is the venue's own.
LEMMA KalshiHonest ==
    ASSUME now \in Snapshots, NEW ids \in SUBSET Key
    PROVE  Honest(KalshiStates(now, ids))
BY AnswersHonest DEF KalshiStates, SidePays

\* So are those of Polymarket's three sources.
LEMMA PolymarketHonest ==
    ASSUME now \in Snapshots, NEW ids \in SUBSET Key
    PROVE  Honest(GammaStates(now, ids)) /\ Honest(ClobStates(now, ids)) /\ Honest(UsStates(now, ids))
BY AnswersHonest DEF GammaStates, ClobStates, UsStates

\* Hyperliquid only answers for what is settled.
LEMMA HyperliquidHonest ==
    ASSUME NEW ids \in SUBSET Key
    PROVE  Honest(HyperliquidStates(now, ids))
<1> DEFINE answered == {k \in ids : k.market \in Least({x.market : x \in ids}, MaxLookups) /\ now[k.market].status = "final"}
           states == HyperliquidStates(now, ids)
<1>1. states = [k \in answered |-> Settled(SidePays(now, k))]
    BY DEF HyperliquidStates
<1>2. \A k \in answered :
          ~states[k].open /\ states[k].value = SidePays(now, k) /\ now[k.market].status = "final"
    BY <1>1 DEF Settled
<1>3. DOMAIN states = answered
    BY <1>1
<1> HIDE DEF states, answered
<1> QED BY <1>2, <1>3 DEF Honest, states

\* Two answers put together.
LEMMA BothHonest ==
    ASSUME NEW f, NEW g, Honest(f), Honest(g)
    PROVE  Honest(Update(f, g))
<1>1. /\ DOMAIN Update(f, g) = DOMAIN f \cup DOMAIN g
      /\ \A k \in DOMAIN f \cup DOMAIN g : Update(f, g)[k] = IF k \in DOMAIN g THEN g[k] ELSE f[k]
    BY DEF Update
<1> QED BY <1>1 DEF Honest

\* What writing an answer does.
Written ==
    /\ RegistryTyped'
    /\ \A k \in Key : \/ value'[k] = value[k]
                      \/ now[k.market].status = "final" /\ value'[k] = SidePays(now, k)
    /\ \A k \in on \ on' : now[k.market].status # "open"

\* Writing honest answers does that.
LEMMA ApplyWrites ==
    ASSUME now \in Snapshots, RegistryTyped, NEW states, Honest(states), Apply(states)
    PROVE  Written
<1>1. ASSUME NEW k \in Key
      PROVE  /\ value'[k] \in (0..Scale) \cup {None}
             /\ \/ value'[k] = value[k]
                \/ now[k.market].status = "final" /\ value'[k] = SidePays(now, k)
    <2>1. value'[k] = IF k \in DOMAIN states /\ value[k] = None THEN states[k].value ELSE value[k]
        BY DEF Apply
    <2>2. value[k] \in (0..Scale) \cup {None}
        BY DEF RegistryTyped
    <2>3. CASE k \in DOMAIN states /\ value[k] = None
        <3>1. CASE states[k].value = None
            BY <2>1, <2>3, <3>1
        <3>2. CASE states[k].value # None
            BY <2>1, <2>3, <3>2, PaysPrice DEF Honest
        <3> QED BY <3>1, <3>2
    <2> QED BY <2>1, <2>2, <2>3
<1>2. value' = [k \in Key |-> value'[k]]
    BY DEF Apply
<1> DEFINE closed == {k \in on : k \in DOMAIN states /\ ~states[k].open}
<1>3. on' = on \ closed /\ off' = off \cup closed /\ recent' = recent \cup closed
    BY DEF Apply
<1>4. \A k \in closed : k \in Key /\ now[k.market].status # "open"
    BY DEF Honest, RegistryTyped
<1>5. RegistryTyped'
    <2> HIDE DEF closed
    <2> QED BY <1>1, <1>2, <1>3, <1>4 DEF RegistryTyped
<1> QED BY <1>1, <1>3, <1>4, <1>5 DEF Written

\* The CLOB is asked about no more markets than the hour has look-ups left.
LEMMA WithinBudget ==
    ASSUME ProcessTyped, NEW markets \in SUBSET Market, NEW reset \in BOOLEAN
    PROVE  /\ Cardinality(TakeClobLookups(markets, reset)) \in Nat
           /\ (IF reset THEN 0 ELSE spent) + Cardinality(TakeClobLookups(markets, reset)) <= Budget
<1> DEFINE had == IF reset THEN 0 ELSE spent
<1>1. had \in 0..Budget /\ Budget \in Nat /\ Budget - had \in Nat
    BY VenuesAssumption DEF ProcessTyped
<1>2. markets \in SUBSET Nat /\ IsFiniteSet(markets)
    BY AdaptersAssumption, FS_Subset
<1>3. TakeClobLookups(markets, reset) = Least(markets, Budget - had)
    BY DEF TakeClobLookups
<1>4. Cardinality(Least(markets, Budget - had)) \in Nat /\ Cardinality(Least(markets, Budget - had)) <= Budget - had
    <2> HIDE DEF had
    <2> QED BY <1>1, <1>2, LeastCount
<1> HIDE DEF had
<1>5. had + Cardinality(TakeClobLookups(markets, reset)) <= Budget
    BY <1>1, <1>3, <1>4
<1> QED BY <1>3, <1>4, <1>5 DEF had

\* So spending no more than that keeps within the budget.
LEMMA SpendTyped ==
    ASSUME ProcessTyped, NEW n \in Nat, NEW reset \in BOOLEAN, (IF reset THEN 0 ELSE spent) + n <= Budget, Spend(n, reset)
    PROVE  spent' \in 0..Budget /\ window' \in 0..2
<1>1. Budget \in Nat /\ spent \in 0..Budget /\ window \in 0..2
    BY VenuesAssumption DEF ProcessTyped
<1> QED BY <1>1 DEF Spend

\* Nor does one that fails spend more.
LEMMA SpentInVainTyped ==
    ASSUME ProcessTyped, NEW ids \in SUBSET Key, SpentInVain(ids)
    PROVE  spent' \in 0..Budget /\ window' \in 0..2
<1> DEFINE gone == IF venue = "POLYMARKET_INTL" THEN {k.market : k \in {k \in ids : k.market \in forgotten}} ELSE {}
<1>1. gone \in SUBSET Market
    BY DEF Key
<1>2. CASE UNCHANGED clobVars
    BY <1>2 DEF ProcessTyped, clobVars
<1>3. CASE \E reset \in Resets : \E n \in 1..Cardinality(TakeClobLookups(gone, reset)) : Spend(n, reset)
    <2> HIDE DEF gone
    <2>1. PICK reset \in Resets : \E n \in 1..Cardinality(TakeClobLookups(gone, reset)) : Spend(n, reset)
        BY <1>3
    <2>2. reset \in BOOLEAN
        BY DEF Resets
    <2> DEFINE most == Cardinality(TakeClobLookups(gone, reset))
    <2>3. most \in Nat /\ (IF reset THEN 0 ELSE spent) + most <= Budget
        BY <1>1, <2>2, WithinBudget
    <2>4. PICK n \in 1..most : Spend(n, reset)
        BY <2>1
    <2>5. n \in Nat /\ (IF reset THEN 0 ELSE spent) + n <= Budget
        <3>1. spent \in 0..Budget /\ Budget \in Nat
            BY VenuesAssumption DEF ProcessTyped
        <3> HIDE DEF most
        <3> QED BY <2>3, <3>1
    <2> QED BY <2>2, <2>4, <2>5, SpendTyped
<1> QED BY <1>2, <1>3 DEF SpentInVain

\* A look-up writes only what it was answered, and asks the CLOB within the budget.
LEMMA LookUpWrites ==
    ASSUME VenueTyped, ProcessTyped, RegistryTyped, NEW ids \in SUBSET Key, LookUp(ids)
    PROVE  Written /\ spent' \in 0..Budget /\ window' \in 0..2
<1> USE DEF VenueTyped
<1>1. CASE venue # "POLYMARKET_INTL"
    <2>1. UNCHANGED clobVars
        BY <1>1 DEF LookUp
    <2>2. CASE venue = "KALSHI"
        <3>1. Apply(KalshiStates(now, ids))
            BY <1>1, <2>2 DEF LookUp
        <3> QED BY <2>1, <3>1, KalshiHonest, ApplyWrites DEF clobVars, ProcessTyped
    <2>3. CASE venue = "POLYMARKET_US"
        <3>1. Apply(UsStates(now, ids))
            BY <1>1, <2>3 DEF LookUp
        <3> QED BY <2>1, <3>1, PolymarketHonest, ApplyWrites DEF clobVars, ProcessTyped
    <2>4. CASE venue = "HYPERLIQUID"
        <3>1. Apply(HyperliquidStates(now, ids))
            BY <1>1, <2>4 DEF LookUp
        <3> QED BY <2>1, <3>1, HyperliquidHonest, ApplyWrites DEF clobVars, ProcessTyped
    <2> QED BY <1>1, <2>2, <2>3, <2>4 DEF Venues
<1>2. CASE venue = "POLYMARKET_INTL"
    <2> DEFINE gone == {k \in ids : k.market \in forgotten}
               asked(reset) == TakeClobLookups({k.market : k \in gone}, reset)
    <2>1. CASE gone = {}
        <3>1. Apply(GammaStates(now, ids)) /\ UNCHANGED clobVars
            BY <1>2, <2>1 DEF LookUp, IntlLookUp
        <3> QED BY <3>1, PolymarketHonest, ApplyWrites DEF clobVars, ProcessTyped
    <2>2. CASE gone # {}
        <3>1. PICK reset \in Resets :
                  /\ Apply(Update(GammaStates(now, ids \ gone), ClobStates(now, {k \in gone : k.market \in asked(reset)})))
                  /\ Spend(Cardinality(asked(reset)), reset)
            BY <1>2, <2>2 DEF LookUp, IntlLookUp
        <3>2. Written
            <4>1. ids \ gone \in SUBSET Key /\ {k \in gone : k.market \in asked(reset)} \in SUBSET Key
                OBVIOUS
            <4>2. Honest(GammaStates(now, ids \ gone)) /\ Honest(ClobStates(now, {k \in gone : k.market \in asked(reset)}))
                BY <4>1, PolymarketHonest
            <4> HIDE DEF gone, asked
            <4> QED BY <3>1, <4>2, BothHonest, ApplyWrites
        <3>3. {k.market : k \in gone} \in SUBSET Market
            BY DEF Key
        <3>4. reset \in BOOLEAN
            BY <3>1 DEF Resets
        <3>6. spent' \in 0..Budget /\ window' \in 0..2
            <4> DEFINE most == Cardinality(TakeClobLookups({k.market : k \in gone}, reset))
            <4>1. most \in Nat /\ (IF reset THEN 0 ELSE spent) + most <= Budget
                <5> HIDE DEF gone
                <5> QED BY <3>3, <3>4, WithinBudget
            <4>2. Spend(most, reset)
                BY <3>1
            <4> HIDE DEF most, gone
            <4> QED BY <3>4, <4>1, <4>2, SpendTyped
        <3> QED BY <3>2, <3>6
    <2> QED BY <2>1, <2>2
<1> QED BY <1>1, <1>2

\* A look-up that fails, or asks nothing, writes nothing.
LEMMA LookUpOrFailWrites ==
    ASSUME VenueTyped, ProcessTyped, RegistryTyped, NEW ids \in SUBSET Key, LookUpOrFail(ids)
    PROVE  Written /\ spent' \in 0..Budget /\ window' \in 0..2 /\ faults' \in 0..MaxFaults
<1>0. CASE SpentInVain(ids) /\ UNCHANGED listVars /\ faults < MaxFaults /\ faults' = faults + 1
    <2>1. spent' \in 0..Budget /\ window' \in 0..2
        BY <1>0, SpentInVainTyped
    <2>2. faults' \in 0..MaxFaults
        BY <1>0, VenuesAssumption DEF VenueTyped
    <2>3. Written
        BY <1>0 DEF Written, RegistryTyped, listVars
    <2> QED BY <2>1, <2>2, <2>3
<1>1. CASE UNCHANGED <<listVars, clobVars>> /\ faults' \in 0..MaxFaults
    BY <1>1 DEF Written, RegistryTyped, ProcessTyped, listVars, clobVars
<1>2. CASE LookUp(ids) /\ UNCHANGED faults
    BY <1>2, LookUpWrites DEF VenueTyped
<1> QED BY <1>0, <1>1, <1>2 DEF LookUpOrFail, VenueTyped

\* A move of the venue changes one market, and none that is final.
LEMMA MovesFrame ==
    ASSUME VenueTyped, Moves
    PROVE  /\ UNCHANGED <<venue, grouped, faults, full, clobVars, loopVars, sent, listVars, cursor, active, staleVars, due>>
           /\ changes' \in Nat /\ forgotten' \subseteq Market
           /\ \/ UNCHANGED <<now, was>>
              \/ \E m \in Market, status \in Statuses, yes \in 0..Scale :
                    now[m].status # "final" /\ VenueMoves(m, status, yes)
<1> USE DEF VenueTyped, Statuses
<1>1. PICK m \in Has[venue] : Lists(m) \/ Shuts(m) \/ Amends(m) \/ Reopens(m) \/ Finalises(m) \/ Forgets(m)
    BY DEF Moves
<1>2. m \in Market /\ Scale \in Nat
    BY VenuesAssumption, AdaptersAssumption
<1>3. now[m].yes \in 0..Scale /\ 0 \in 0..Scale /\ Scale \in 0..Scale /\ Scale - now[m].yes \in 0..Scale
    BY <1>2 DEF Snapshots
<1>4. ASSUME NEW status \in Statuses, NEW yes \in 0..Scale, VenueMoves(m, status, yes), now[m].status # "final"
      PROVE  /\ UNCHANGED <<venue, grouped, faults, full, clobVars, loopVars, sent, listVars, cursor, active, staleVars, due>>
             /\ changes' \in Nat /\ forgotten' \subseteq Market
             /\ \E n \in Market, st \in Statuses, y \in 0..Scale : now[n].status # "final" /\ VenueMoves(n, st, y)
    <2>1. changes' = changes + 1
        BY <1>4 DEF VenueMoves
    <2>2. /\ UNCHANGED <<venue, grouped, faults, full, clobVars, loopVars, sent, listVars, cursor, active, staleVars, due>>
          /\ forgotten' \subseteq Market
        BY <1>4 DEF VenueMoves
    <2> QED BY <1>2, <1>4, <2>1, <2>2
<1>5. CASE Lists(m) \/ Shuts(m) \/ Amends(m) \/ Reopens(m)
    BY <1>3, <1>4, <1>5 DEF Lists, Shuts, Amends, Reopens
<1>6. CASE Finalises(m)
    BY <1>3, <1>4, <1>6 DEF Finalises
<1>7. CASE Forgets(m)
    BY <1>2, <1>7 DEF Forgets
<1> QED BY <1>1, <1>5, <1>6, <1>7

ActiveEvents == {e \in Event : Active(e)}

\* The page is of events that are active.
LEMMA PageOf ==
    /\ NextPage \subseteq ActiveEvents /\ NextPage \subseteq Event /\ IsFiniteSet(NextPage) /\ NextPage \subseteq Nat
    /\ ActiveEvents \subseteq Event /\ IsFiniteSet(ActiveEvents) /\ ActiveEvents \subseteq Nat
    /\ IsFiniteSet(Event)
<1>1. ActiveEvents \subseteq Event /\ IsFiniteSet(ActiveEvents) /\ ActiveEvents \subseteq Nat /\ IsFiniteSet(Event)
    BY FiniteKeys, FS_Subset DEF ActiveEvents
<1>2. NextPage \subseteq ActiveEvents
    BY DEF NextPage, ActiveEvents, Least
<1> QED BY <1>1, <1>2, FS_Subset

\* A full event that is kept is a snapshot, or the venue's answer.
LEMMA FullTyped ==
    ASSUME VenueTyped, ProcessTyped, NEW e \in Event
    PROVE  /\ FullEvent(e) \in Snapshots
           /\ KeepFull(e) \in [DOMAIN KeepFull(e) -> [old : BOOLEAN, markets : Snapshots]]
           /\ DOMAIN KeepFull(e) \subseteq Event /\ e \in DOMAIN KeepFull(e)
           /\ \A x \in DOMAIN KeepFull(e) :
                  \/ x \in DOMAIN full /\ KeepFull(e)[x] = full[x]
                  \/ KeepFull(e)[x] = [old |-> FALSE, markets |-> now]
<1> USE DEF VenueTyped, ProcessTyped
<1>1. CASE e \in DOMAIN full /\ ~full[e].old
    BY <1>1 DEF FullEvent, KeepFull
<1>2. CASE ~(e \in DOMAIN full /\ ~full[e].old)
    <2>1. FullEvent(e) = now
        BY <1>2 DEF FullEvent
    <2>2. KeepFull(e) = [x \in DOMAIN full \cup {e} |-> IF x = e THEN [old |-> FALSE, markets |-> now] ELSE full[x]]
        BY <1>2 DEF KeepFull
    <2> QED BY <2>1, <2>2
<1> QED BY <1>1, <1>2

\* What reading a page keeps of full events.
LEMMA ReadPageKeeps ==
    ASSUME VenueTyped, ProcessTyped, ReadPage
    PROVE  \/ full' = full
           \/ \E e \in NextPage : Trimmed(e) /\ full' = KeepFull(e)
<1> DEFINE trimmed == {e \in NextPage : Trimmed(e)}
<1>1. full' = IF trimmed = {} THEN full ELSE KeepFull(CHOOSE e \in trimmed : TRUE)
    BY DEF ReadPage
<1>2. CASE trimmed # {}
    <2>1. (CHOOSE e \in trimmed : TRUE) \in trimmed
        BY <1>2
    <2> QED BY <1>1, <1>2, <2>1
<1> QED BY <1>1, <1>2

\* Where a sweep goes on is a number.
LEMMA CursorOf ==
    ASSUME NEW page \in SUBSET Key
    PROVE  NextCursor(page) \in Nat
<1> DEFINE size == [k \in page |-> ContractId(k)]
<1>1. IsFiniteSet(page)
    BY FiniteKeys, FS_Subset
<1>2. ASSUME NEW k \in page PROVE ContractId(k) \in Nat
    <2>1. k.market \in Nat
        BY AdaptersAssumption DEF Key
    <2> QED BY <2>1 DEF ContractId
<1>3. CASE page = {}
    <2>1. Cardinality(page) = 0
        BY <1>3, FS_EmptySet
    <2>2. SettlePageSize # 0
        BY VenuesAssumption, AdaptersAssumption DEF SettlePageSize
    <2> QED BY <2>1, <2>2 DEF NextCursor
<1>4. CASE page # {}
    <2>1. size \in [page -> Nat]
        BY <1>2
    <2>2. PICK m \in page : \A x \in page : size[x] <= size[m]
        <3> HIDE DEF size
        <3> QED BY <1>1, <1>4, <2>1, GreatestBy
    <2>3. \E k \in page : \A x \in page : ContractId(x) <= ContractId(k)
        BY <2>2
    <2>4. (CHOOSE k \in page : \A x \in page : ContractId(x) <= ContractId(k)) \in page
        BY <2>3
    <2> QED BY <1>2, <2>4 DEF NextCursor
<1> QED BY <1>3, <1>4

\* A sweep asks about ids.
LEMMA CandidatesOf ==
    ASSUME NEW K \in SUBSET Key, NEW after, NEW limit
    PROVE  Candidates(K, after, limit) \in SUBSET Key
BY DEF Candidates, FirstKeys

\* A resolve cycle names ids of markets that are not open, or, on Polymarket US, that are not in an event it had kept.
LEMMA ResolvedOf ==
    ASSUME VenueTyped, NEW k \in Resolved
    PROVE  /\ k \in Key
           /\ \/ now[k.market].status # "open"
              \/ venue = "POLYMARKET_US" /\ \E e \in ActiveEvents : k.market \in MarketsOf(e) \ OpenIn(Source(e), MarketsOf(e))
<1> USE DEF VenueTyped
<1>1. \A e : MarketsOf(e) \in SUBSET Market
    BY DEF MarketsOf
<1>2. CASE venue = "KALSHI"
    <2>1. k \in KalshiResolved(now, grouped)
        BY <1>2 DEF Resolved
    <2>2. PICK e \in KalshiSettledEvents(now) \cup KalshiActiveEvents(now) :
              k \in (IF grouped THEN {Id(m, "whole") : m \in MarketsOf(e) \ OpenIn(now, MarketsOf(e))}
                     ELSE BothSides(MarketsOf(e) \ OpenIn(now, MarketsOf(e))))
        BY <2>1 DEF KalshiResolved, IsMultiOutcome
    <2>3. MarketsOf(e) \ OpenIn(now, MarketsOf(e)) \in SUBSET Market
        BY <1>1
    <2>4. k \in Key /\ k.market \in MarketsOf(e) \ OpenIn(now, MarketsOf(e))
        <3>1. CASE grouped
            <4>1. PICK m \in MarketsOf(e) \ OpenIn(now, MarketsOf(e)) : k = Id(m, "whole")
                BY <2>2, <3>1
            <4> QED BY <2>3, <4>1, ContractTypes DEF Legs
        <3>2. CASE ~grouped
            BY <2>2, <2>3, <3>2, BothSidesOf
        <3> QED BY <3>1, <3>2
    <2> QED BY <2>4 DEF OpenIn
<1>3. CASE venue = "POLYMARKET_INTL"
    <2> DEFINE over == (UNION {MarketsOf(e) : e \in IntlClosedEvents(now)})
                       \cup (UNION {OverIn(now, MarketsOf(e)) : e \in IntlActiveEvents(now)})
    <2>1. over \in SUBSET Market
        BY <1>1 DEF OverIn
    <2>2. k \in BothSides(over)
        BY <1>3 DEF Resolved, IntlResolved
    <2>3. k \in Key /\ k.market \in over
        <3> HIDE DEF over
        <3> QED BY <2>1, <2>2, BothSidesOf
    <2>4. \A m \in over : now[m].status # "open"
        BY DEF IntlClosedEvents, OverIn, OpenIn
    <2> QED BY <2>3, <2>4
<1>4. CASE venue = "POLYMARKET_US"
    <2> DEFINE had == [e \in {e \in Event : Active(e)} |-> IF Trimmed(e) THEN FullEvent(e) ELSE now]
               over == OverIn(now, Market) \cup (UNION {MarketsOf(e) \ OpenIn(had[e], MarketsOf(e)) : e \in DOMAIN had})
    <2>1. over \in SUBSET Market
        BY <1>1 DEF OverIn
    <2>2. k \in BothSides(over)
        BY <1>4 DEF Resolved, UsResolved
    <2>3. k \in Key /\ k.market \in over
        <3> HIDE DEF over
        <3> QED BY <2>1, <2>2, BothSidesOf
    <2>4. CASE k.market \in OverIn(now, Market)
        BY <2>3, <2>4 DEF OverIn
    <2>5. CASE \E e \in DOMAIN had : k.market \in MarketsOf(e) \ OpenIn(had[e], MarketsOf(e))
        <3>1. PICK e \in ActiveEvents : k.market \in MarketsOf(e) \ OpenIn(had[e], MarketsOf(e)) /\ had[e] = Source(e)
            BY <1>4, <2>5 DEF ActiveEvents, Source
        <3> QED BY <1>4, <2>3, <3>1
    <2> QED BY <2>3, <2>4, <2>5
<1>5. CASE venue = "HYPERLIQUID"
    <2>1. k \in BothSides({m \in Market : now[m].status = "final"})
        BY <1>5 DEF Resolved, HyperliquidResolved
    <2>2. {m \in Market : now[m].status = "final"} \in SUBSET Market
        OBVIOUS
    <2>3. k \in Key /\ k.market \in {m \in Market : now[m].status = "final"}
        BY <2>1, <2>2, BothSidesOf
    <2> QED BY <2>3
<1> QED BY <1>2, <1>3, <1>4, <1>5 DEF Venues

\* What it reads of full events is kept whole.
LEMMA ReadFullTyped ==
    ASSUME VenueTyped, ProcessTyped
    PROVE  /\ ReadFull \in [ActiveFull -> [old : BOOLEAN, markets : Snapshots]]
           /\ DOMAIN ReadFull = ActiveFull /\ ActiveFull \subseteq Event
           /\ \A e \in ActiveFull : \/ e \in DOMAIN full /\ ReadFull[e] = full[e]
                                    \/ ReadFull[e] = [old |-> FALSE, markets |-> now]
<1>1. ActiveFull \subseteq Event
    BY DEF ActiveFull
<1>2. ReadFull = [e \in ActiveFull |-> KeepFull(e)[e]]
    BY DEF ReadFull
<1>3. ASSUME NEW e \in ActiveFull
      PROVE  /\ KeepFull(e)[e] \in [old : BOOLEAN, markets : Snapshots]
             /\ \/ e \in DOMAIN full /\ KeepFull(e)[e] = full[e]
                \/ KeepFull(e)[e] = [old |-> FALSE, markets |-> now]
    BY <1>1, FullTyped
<1> QED BY <1>1, <1>2, <1>3

\* No full event kept is one way to keep them.
LEMMA NoneKept ==
    /\ [e \in {} |-> 0] \in [DOMAIN [e \in {} |-> 0] -> [old : BOOLEAN, markets : Snapshots]]
    /\ DOMAIN [e \in {} |-> 0] = {}
OBVIOUS

\* It holds at the start.
LEMMA InitTypeOK == Init => TypeOK
<1> SUFFICES ASSUME Init PROVE TypeOK
    OBVIOUS
<1> USE DEF Init
<1>1. VenueTyped
    <2>1. Scale \in Nat /\ 0 \in 0..Scale /\ MaxFaults \in Nat /\ 0 \in 0..MaxFaults
        BY AdaptersAssumption, VenuesAssumption
    <2>2. now = [m \in Market |-> [status |-> IF m \in Has[venue] \cap Listed[venue] THEN "open" ELSE "unlisted", yes |-> 0]]
        OBVIOUS
    <2>3. \A m \in Market : now[m] \in [status : Statuses, yes : 0..Scale]
        BY <2>1, <2>2 DEF Statuses
    <2>4. now \in Snapshots
        BY <2>2, <2>3 DEF Snapshots
    <2> QED BY <2>1, <2>4 DEF VenueTyped
<1>2. ProcessTyped
    <2>1. full = [e \in {} |-> 0] /\ DOMAIN full = {}
        OBVIOUS
    <2>2. Budget \in Nat /\ 0 \in 0..Budget
        BY VenuesAssumption
    <2>3. full \in [DOMAIN full -> [old : BOOLEAN, markets : Snapshots]]
        BY <2>1, NoneKept
    <2>4. spent = 0 /\ window = 2 /\ cursor = 0 /\ DOMAIN full \subseteq Event
        BY <2>1
    <2>5. due \in BOOLEAN /\ active \subseteq Natives
        OBVIOUS
    <2>6. spent \in 0..Budget /\ window \in 0..2 /\ cursor \in Nat
        <3> HIDE DEF Init
        <3> QED BY <2>2, <2>4
    <2> QED BY <2>3, <2>4, <2>5, <2>6 DEF ProcessTyped
<1>3. LoopTyped
    BY DEF LoopTyped, Labels
<1>4. RegistryTyped
    BY DEF RegistryTyped
<1>6. StaleTyped
    <2>1. DOMAIN misses = {} /\ counted = 0 /\ misses = [n \in {} |-> 0]
        OBVIOUS
    <2>2. [n \in {} |-> 0] \in [{} -> 0..(Threshold - 1)]
        OBVIOUS
    <2> QED BY <2>1, <2>2 DEF StaleTyped
<1>5. HistoryTyped
    <2>1. HourStart \in [open : SUBSET Market, shut : SUBSET Market]
        BY DEF HourStart, OpenIn
    <2>2. was = [listed |-> {}, open |-> HourStart.open, shut |-> HourStart.shut, slipped |-> FALSE]
        OBVIOUS
    <2> QED BY <2>1, <2>2 DEF HistoryTyped
<1> QED BY <1>1, <1>2, <1>3, <1>4, <1>5, <1>6 DEF TypeOK

\* What a move adds to the history.
LEMMA MoveHistory ==
    ASSUME HistoryTyped, NEW m \in Market, NEW status \in Statuses, NEW yes \in 0..Scale, VenueMoves(m, status, yes)
    PROVE  /\ HistoryTyped'
           /\ was'.listed = was.listed /\ was.open \subseteq was'.open /\ was.shut \subseteq was'.shut
           /\ was.slipped => was'.slipped
           /\ venue = "POLYMARKET_US" \/ pc # "fetch" => status = "open" \/ m \in was'.shut
           /\ venue = "POLYMARKET_US" /\ status = "open" => m \in was'.open
           /\ /\ venue = "POLYMARKET_US" /\ status # "open" /\ pc = "reading"
              /\ OpenIn(now, MarketsOf(EventOf[m])) = {m}
              => was'.slipped
<1> DEFINE us == venue = "POLYMARKET_US"
           slips == us /\ pc = "reading" /\ OpenIn(now, MarketsOf(EventOf[m])) = {m}
<1>1. was' = IF status = "open" THEN (IF us THEN [was EXCEPT !.open = @ \cup {m}] ELSE was)
             ELSE IF us \/ pc # "fetch" THEN [was EXCEPT !.shut = @ \cup {m}, !.slipped = @ \/ slips] ELSE was
    BY DEF VenueMoves
<1>2. slips \in BOOLEAN /\ (slips => us /\ pc = "reading")
    OBVIOUS
<1> HIDE DEF slips
<1>3. CASE status = "open" /\ us
    <2>1. was' = [was EXCEPT !.open = @ \cup {m}]
        BY <1>1, <1>3
    <2>2. HistoryTyped' /\ was'.listed = was.listed /\ was'.open = was.open \cup {m} /\ was'.shut = was.shut
        BY <2>1 DEF HistoryTyped
    <2>3. was'.slipped = was.slipped
        BY <2>1 DEF HistoryTyped
    <2> QED BY <1>3, <2>2, <2>3
<1>4. CASE status # "open" /\ (us \/ pc # "fetch")
    <2>1. was' = [was EXCEPT !.shut = @ \cup {m}, !.slipped = @ \/ slips]
        BY <1>1, <1>4
    <2>2. /\ HistoryTyped' /\ was'.listed = was.listed /\ was'.open = was.open
          /\ was'.shut = was.shut \cup {m}
        BY <1>2, <2>1 DEF HistoryTyped
    <2>3. was'.slipped = (was.slipped \/ slips)
        BY <2>1 DEF HistoryTyped
    <2> QED BY <1>2, <1>4, <2>2, <2>3 DEF slips
<1>5. CASE ~(status = "open" /\ us) /\ ~(status # "open" /\ (us \/ pc # "fetch"))
    <2>1. was' = was
        BY <1>1, <1>5
    <2> QED BY <1>5, <2>1 DEF HistoryTyped
<1> QED BY <1>3, <1>4, <1>5

\* What an iteration's end leaves of it.
LEMMA NextIterationHistory ==
    ASSUME HistoryTyped, NextIteration
    PROVE  /\ HistoryTyped' /\ pc' = "fetch"
           /\ was'.listed = was.listed /\ was'.open = was.open /\ was'.slipped = was.slipped
           /\ venue = "POLYMARKET_US" => was'.shut = was.shut
<1> DEFINE kept == IF venue = "POLYMARKET_US" THEN was.shut ELSE {}
<1>1. was' = [was EXCEPT !.shut = kept] /\ pc' = "fetch"
    BY DEF NextIteration, Goto
<1>2. kept \in SUBSET Market
    BY DEF HistoryTyped
<1> HIDE DEF kept
<1>3. HistoryTyped' /\ was'.listed = was.listed /\ was'.open = was.open /\ was'.shut = kept
    BY <1>1, <1>2 DEF HistoryTyped
<1>4. was'.slipped = was.slipped
    BY <1>1 DEF HistoryTyped
<1> QED BY <1>1, <1>3, <1>4 DEF kept

\* And what its start does.
LEMMA StartFetchHistory ==
    ASSUME HistoryTyped, StartFetch
    PROVE  /\ HistoryTyped' /\ was'.listed = was.listed /\ was'.open = was.open
           /\ was'.shut = IF venue = "POLYMARKET_US" THEN was.shut ELSE Market \ OpenIn(now, Market)
<1> DEFINE kept == IF venue = "POLYMARKET_US" THEN was.shut ELSE Market \ OpenIn(now, Market)
<1>1. was' = [was EXCEPT !.slipped = FALSE, !.shut = kept]
    BY DEF StartFetch
<1>2. kept \in SUBSET Market
    BY DEF HistoryTyped
<1> HIDE DEF kept
<1>3. HistoryTyped' /\ was'.listed = was.listed /\ was'.open = was.open /\ was'.shut = kept
    BY <1>1, <1>2 DEF HistoryTyped
<1> QED BY <1>3 DEF kept

\* After the resolve cycle the loop goes on to the stale cycle, or round.
LEMMA ResolvingFrame ==
    ASSUME HistoryTyped, Resolving
    PROVE  /\ UNCHANGED <<venue, grouped, venueVars, clobVars, at, read, met, known, left, value, cursor, active, staleVars, due>>
           /\ HistoryTyped' /\ pc = "resolve" /\ pc' \in {"fetch", "stale"}
           /\ was'.listed = was.listed /\ was'.open = was.open
           /\ pc' = "stale" => was' = was
           /\ venue = "POLYMARKET_US" => was'.shut = was.shut
<1>1. CASE due
    BY <1>1 DEF Resolving, Goto, HistoryTyped
<1>2. CASE ~due
    <2>1. NextIteration
        BY <1>2 DEF Resolving
    <2> QED BY <2>1, NextIterationHistory DEF Resolving
<1> QED BY <1>1, <1>2

\* There are finitely many native events.
LEMMA FiniteNatives == IsFiniteSet(Natives)
<1> DEFINE fromEvent == [e \in Event |-> OfEvent(e)]
           fromMarket == [m \in Market |-> OfMarket(m)]
<1>1. IsFiniteSet(Event) /\ IsFiniteSet(Market)
    BY FiniteKeys, AdaptersAssumption
<1>2. fromEvent \in Surjection(Event, {OfEvent(e) : e \in Event})
    BY DEF Surjection
<1>3. fromMarket \in Surjection(Market, {OfMarket(m) : m \in Market})
    BY DEF Surjection
<1>4. IsFiniteSet({OfEvent(e) : e \in Event}) /\ IsFiniteSet({OfMarket(m) : m \in Market})
    <2> HIDE DEF fromEvent, fromMarket
    <2> QED BY <1>1, <1>2, <1>3, FS_Surjection
<1> QED BY <1>4, FS_Union DEF Natives

\* The stale cycle counts the misses below the threshold, and turns listings off.
LEMMA StaleTypeOK == TypeOK /\ StaleCycle => TypeOK'
<1> SUFFICES ASSUME TypeOK, StaleCycle PROVE TypeOK'
    OBVIOUS
<1> USE DEF TypeOK
<1>1. VenueTyped' /\ ProcessTyped' /\ LoopTyped' /\ HistoryTyped'
    <2>1. /\ pc' = "settle"
          /\ UNCHANGED <<venue, grouped, venueVars, faults, full, clobVars, at, read, met, known, left, sent, cursor, active,
                         due, was>>
        BY DEF StaleCycle, Goto
    <2> QED BY <2>1 DEF VenueTyped, ProcessTyped, LoopTyped, HistoryTyped, Labels, venueVars, clobVars
<1>2. CASE FeedGap /\ UNCHANGED <<staleVars, listVars>>
    BY <1>1, <1>2 DEF StaleTyped, RegistryTyped, staleVars, listVars
<1>3. CASE ~FeedGap
    <2> DEFINE kept == (DOMAIN misses \cup active) \ MissedTooOften
    <2>1. /\ counted' = Cardinality(active)
          /\ misses' = [n \in kept |-> IF n \in active THEN 0 ELSE misses[n] + 1]
          /\ TurnOff({k \in on : NativeOf(k) \in MissedTooOften}) /\ UNCHANGED value
        BY <1>3 DEF StaleCycle
    <2>2. active \subseteq Natives /\ IsFiniteSet(active) /\ Cardinality(active) \in Nat
        BY FiniteNatives, FS_Subset, FS_CardinalityType DEF ProcessTyped
    <2>3. ASSUME NEW n \in kept PROVE (IF n \in active THEN 0 ELSE misses[n] + 1) \in 0..(Threshold - 1)
        <3>1. Threshold \in Nat \ {0}
            BY VenuesAssumption
        <3>2. CASE n \in active
            BY <3>1, <3>2
        <3>3. CASE n \notin active
            <4>1. n \in DOMAIN misses /\ ~(misses[n] + 1 >= Threshold)
                BY <3>3 DEF MissedTooOften
            <4>2. misses[n] \in 0..(Threshold - 1)
                BY <4>1 DEF StaleTyped
            <4> QED BY <3>1, <3>3, <4>1, <4>2
        <3> QED BY <3>2, <3>3
    <2>4. kept \subseteq Natives
        BY <2>2 DEF StaleTyped
    <2> HIDE DEF kept
    <2>5. misses' \in [kept -> 0..(Threshold - 1)] /\ DOMAIN misses' = kept
        BY <2>1, <2>3
    <2>6. StaleTyped'
        BY <2>1, <2>2, <2>4, <2>5 DEF StaleTyped
    <2>7. RegistryTyped'
        BY <2>1 DEF RegistryTyped, TurnOff
    <2> QED BY <1>1, <2>6, <2>7
<1> QED BY <1>2, <1>3 DEF StaleCycle

\* So do the ways the resolve cycle goes, or does not.
LEMMA ResolvingTypeOK == TypeOK /\ (ResolveCycle \/ SkipResolve \/ ResolveFails) => TypeOK'
<1> SUFFICES ASSUME TypeOK, ResolveCycle \/ SkipResolve \/ ResolveFails PROVE TypeOK'
    OBVIOUS
<1> USE DEF TypeOK
<1>1. Resolving
    BY DEF ResolveCycle, SkipResolve, ResolveFails
<1>2. /\ UNCHANGED <<venue, grouped, venueVars, clobVars, at, read, met, known, left, value, cursor, active, staleVars, due>>
      /\ HistoryTyped' /\ pc' \in Labels
    BY <1>1, ResolvingFrame DEF Labels
<1>3. StaleTyped'
    BY <1>2 DEF StaleTyped, staleVars
<1>4. faults' \in 0..MaxFaults
    BY VenuesAssumption DEF VenueTyped, ResolveCycle, SkipResolve, ResolveFails
<1>5. VenueTyped'
    BY <1>2, <1>4 DEF VenueTyped, venueVars
<1>6. CASE SkipResolve \/ ResolveFails
    BY <1>2, <1>3, <1>5, <1>6 DEF SkipResolve, ResolveFails, ProcessTyped, LoopTyped, RegistryTyped, clobVars, listVars
<1>7. CASE ResolveCycle
    <2>1. TurnOff(Resolved \ sent) /\ sent' = Resolved /\ full' = IF venue = "POLYMARKET_US" THEN ReadFull ELSE full
        BY <1>7 DEF ResolveCycle
    <2>2. ProcessTyped'
        BY <1>2, <2>1, ReadFullTyped DEF ProcessTyped, clobVars
    <2>3. RegistryTyped'
        BY <1>2, <2>1 DEF RegistryTyped, TurnOff
    <2>4. LoopTyped'
        <3>1. Resolved \subseteq Key
            BY ResolvedOf
        <3> QED BY <1>2, <2>1, <3>1 DEF LoopTyped
    <2> QED BY <1>2, <1>3, <1>5, <2>2, <2>3, <2>4
<1> QED BY <1>6, <1>7

\* A move of the venue keeps the types.
LEMMA MovesTypeOK == TypeOK /\ Moves => TypeOK'
<1> SUFFICES ASSUME TypeOK, Moves PROVE TypeOK'
    OBVIOUS
<1> USE DEF TypeOK
<1>1. /\ UNCHANGED <<venue, grouped, faults, full, clobVars, loopVars, sent, listVars, cursor, active, staleVars, due>>
      /\ changes' \in Nat /\ forgotten' \subseteq Market
    BY MovesFrame
<1>2. now' \in Snapshots /\ HistoryTyped'
    <2>1. CASE UNCHANGED <<now, was>>
        BY <2>1 DEF VenueTyped, HistoryTyped
    <2>2. ASSUME NEW m \in Market, NEW status \in Statuses, NEW yes \in 0..Scale, VenueMoves(m, status, yes)
          PROVE  now' \in Snapshots /\ HistoryTyped'
        <3>1. now' = [now EXCEPT ![m] = [status |-> status, yes |-> yes]] /\ now \in Snapshots
            BY <2>2 DEF VenueMoves, VenueTyped
        <3>5. HistoryTyped'
            BY <2>2, MoveHistory
        <3> QED BY <3>1, <3>5 DEF Snapshots
    <2> QED BY <2>1, <2>2, MovesFrame
<1>3. VenueTyped'
    BY <1>1, <1>2 DEF VenueTyped
<1>4. ProcessTyped' /\ LoopTyped' /\ RegistryTyped' /\ StaleTyped'
    BY <1>1 DEF ProcessTyped, LoopTyped, RegistryTyped, StaleTyped, clobVars, loopVars, listVars, staleVars
<1> QED BY <1>2, <1>3, <1>4

\* So does reading a page.
LEMMA ReadPageTypeOK == TypeOK /\ ReadPage => TypeOK'
<1> SUFFICES ASSUME TypeOK, ReadPage PROVE TypeOK'
    OBVIOUS
<1> USE DEF TypeOK
<1>1. NextPage # {} /\ NextPage \subseteq Event /\ NextPage \subseteq Nat /\ IsFiniteSet(NextPage)
    BY PageOf DEF ReadPage
<1>2. MapPage(NextPage) \subseteq Contracts
    <2> SUFFICES ASSUME NEW c \in MapPage(NextPage) PROVE c \in Contracts
        OBVIOUS
    <2> QED BY <1>1, MapPageOf DEF VenueTyped
<1>3. at' \in Nat
    <2>1. \E e \in NextPage : \A x \in NextPage : x <= e
        BY <1>1, GreatestOf
    <2>2. (CHOOSE e \in NextPage : \A x \in NextPage : x <= e) \in Nat
        BY <1>1, <2>1
    <2> QED BY <2>2 DEF ReadPage, LoopTyped
<1>4. full' \in [DOMAIN full' -> [old : BOOLEAN, markets : Snapshots]] /\ DOMAIN full' \subseteq Event
    <2>1. CASE full' = full
        BY <2>1 DEF ProcessTyped
    <2>2. ASSUME NEW e \in NextPage, full' = KeepFull(e)
          PROVE  full' \in [DOMAIN full' -> [old : BOOLEAN, markets : Snapshots]] /\ DOMAIN full' \subseteq Event
        <3>1. e \in Event
            BY <1>1
        <3> QED BY <2>2, <3>1, FullTyped
    <2> QED BY <2>1, <2>2, ReadPageKeeps
<1>5. VenueTyped' /\ RegistryTyped' /\ StaleTyped'
    <2>1. {c.key : c \in MapPage(NextPage)} \subseteq Key
        BY <1>2 DEF Contracts
    <2> QED BY <2>1 DEF ReadPage, VenueTyped, RegistryTyped, StaleTyped, venueVars, staleVars
<1>6. ProcessTyped'
    BY <1>4 DEF ReadPage, ProcessTyped, clobVars
<1>7. LoopTyped'
    <2>1. read' = read \cup MapPage(NextPage) /\ met' = met \cup NextPage /\ UNCHANGED <<pc, known, left, sent>>
        BY DEF ReadPage
    <2> QED BY <1>1, <1>2, <1>3, <2>1 DEF LoopTyped
<1>8. HistoryTyped'
    <2>1. was' = [was EXCEPT !.listed = @ \cup MapPage(NextPage)]
        BY DEF ReadPage
    <2> QED BY <1>2, <2>1 DEF HistoryTyped
<1> QED BY <1>5, <1>6, <1>7, <1>8

\* Every step keeps the types.
LEMMA NextTypeOK == TypeOK /\ [Next]_vars => TypeOK'
<1> SUFFICES ASSUME TypeOK, [Next]_vars PROVE TypeOK'
    OBVIOUS
<1> USE DEF TypeOK
<1>0. MaxFaults \in Nat /\ Budget \in Nat /\ 0 \in 0..Budget
    BY VenuesAssumption
<1>1. CASE Moves
    BY <1>1, MovesTypeOK
<1>2. CASE StartFetch
    <2>1. VenueTyped' /\ ProcessTyped' /\ RegistryTyped' /\ StaleTyped'
        BY <1>2 DEF StartFetch, VenueTyped, ProcessTyped, RegistryTyped, StaleTyped, venueVars, clobVars, listVars, staleVars
    <2>2. LoopTyped'
        BY <1>2 DEF StartFetch, LoopTyped, Goto, Labels
    <2> QED BY <1>2, <2>1, <2>2, StartFetchHistory
<1>3. CASE ReadPage
    BY <1>3, ReadPageTypeOK
<1>4. CASE FinishFetch
    <2> DEFINE ids == {c.key : c \in read}
               natives == {c.native : c \in read}
    <2>1. ids \subseteq Key /\ natives \subseteq Natives
        BY DEF LoopTyped, Contracts
    <2>2. /\ known' = ids /\ left' = known \ ids /\ active' = natives /\ pc' = "closures"
          /\ full' = [e \in DOMAIN full \cap met |-> full[e]]
          /\ UNCHANGED <<venue, grouped, venueVars, faults, clobVars, at, read, met, sent, listVars, cursor, staleVars, due,
                         was>>
        BY <1>4 DEF FinishFetch, Goto
    <2> HIDE DEF ids, natives
    <2>3. VenueTyped' /\ HistoryTyped' /\ StaleTyped' /\ RegistryTyped'
        BY <2>2 DEF VenueTyped, HistoryTyped, StaleTyped, RegistryTyped, venueVars, staleVars, listVars
    <2>4. ProcessTyped'
        BY <2>1, <2>2 DEF ProcessTyped, clobVars
    <2>5. LoopTyped'
        BY <2>1, <2>2 DEF LoopTyped, Labels
    <2> QED BY <2>3, <2>4, <2>5
<1>5. CASE CheckClosures
    <2>1. \E ids \in SUBSET Key : LookUpOrFail(ids)
        <3>1. {} \in SUBSET Key /\ left \in SUBSET Key
            BY DEF LoopTyped
        <3> QED BY <1>5, <3>1 DEF CheckClosures
    <2>2. Written /\ spent' \in 0..Budget /\ window' \in 0..2 /\ faults' \in 0..MaxFaults
        BY <2>1, LookUpOrFailWrites
    <2>3. /\ pc' = "recent" /\ left' = {} /\ read' = {} /\ met' = {} /\ at' = 0
          /\ UNCHANGED <<venue, grouped, venueVars, full, known, sent, cursor, active, staleVars, due, was>>
        BY <1>5 DEF CheckClosures, Goto
    <2>4. VenueTyped' /\ HistoryTyped' /\ StaleTyped'
        BY <2>2, <2>3 DEF VenueTyped, HistoryTyped, StaleTyped, venueVars, staleVars
    <2>5. ProcessTyped'
        BY <2>2, <2>3 DEF ProcessTyped
    <2>6. LoopTyped'
        BY <2>3 DEF LoopTyped, Labels
    <2> QED BY <2>2, <2>4, <2>5, <2>6 DEF Written
<1>6. CASE SettleRecent
    <2>1. LookUpOrFail(Candidates(recent, 0, SettlePageSize)) /\ Candidates(recent, 0, SettlePageSize) \in SUBSET Key
        BY <1>6, CandidatesOf DEF SettleRecent, RegistryTyped
    <2>2. Written /\ spent' \in 0..Budget /\ window' \in 0..2 /\ faults' \in 0..MaxFaults
        BY <2>1, LookUpOrFailWrites
    <2>3. /\ pc' = "reopen"
          /\ UNCHANGED <<venue, grouped, venueVars, full, at, read, met, known, left, sent, cursor, active, staleVars, due,
                         was>>
        BY <1>6 DEF SettleRecent, Goto
    <2>4. VenueTyped' /\ HistoryTyped' /\ StaleTyped'
        BY <2>2, <2>3 DEF VenueTyped, HistoryTyped, StaleTyped, venueVars, staleVars
    <2>5. ProcessTyped'
        BY <2>2, <2>3 DEF ProcessTyped
    <2>6. LoopTyped'
        BY <2>3 DEF LoopTyped, Labels
    <2> QED BY <2>2, <2>4, <2>5, <2>6 DEF Written
<1>7. CASE Reactivate
    <2>1. VenueTyped' /\ ProcessTyped' /\ HistoryTyped' /\ StaleTyped'
        BY <1>7 DEF Reactivate, VenueTyped, ProcessTyped, HistoryTyped, StaleTyped, venueVars, clobVars, staleVars
    <2>2. LoopTyped' /\ RegistryTyped'
        BY <1>7 DEF Reactivate, LoopTyped, RegistryTyped, Goto, Labels
    <2> QED BY <2>1, <2>2
<1>8. CASE FetchFails
    <2> DEFINE ids == {c.key : c \in read}
    <2>1. ids \subseteq Key
        BY DEF LoopTyped, Contracts
    <2>2. known' = known \cup ids
        BY <1>8 DEF FetchFails
    <2> HIDE DEF ids
    <2>3. VenueTyped' /\ RegistryTyped' /\ HistoryTyped' /\ StaleTyped'
        BY <1>0, <1>8 DEF FetchFails, VenueTyped, RegistryTyped, HistoryTyped, StaleTyped, venueVars, listVars, staleVars
    <2>4. ProcessTyped'
        BY <1>8 DEF FetchFails, ProcessTyped, clobVars
    <2>5. LoopTyped'
        BY <1>8, <2>1, <2>2 DEF FetchFails, LoopTyped, Goto, Labels
    <2> QED BY <2>3, <2>4, <2>5
<1>9. CASE ResolveCycle \/ SkipResolve \/ ResolveFails
    BY <1>9, ResolvingTypeOK
<1>10. CASE StaleCycle
    BY <1>10, StaleTypeOK
<1>11. CASE SettleSweep
    <2> DEFINE page == Candidates(off \cup (IF venue = "HYPERLIQUID" THEN on ELSE {}), cursor, SettlePageSize)
    <2>1. page \in SUBSET Key
        BY CandidatesOf DEF RegistryTyped
    <2>2. /\ cursor' = NextCursor(page) /\ LookUpOrFail(page) /\ due' = FALSE /\ NextIteration
          /\ UNCHANGED <<venue, grouped, venueVars, full, at, read, met, known, left, sent, active, staleVars>>
        BY <1>11 DEF SettleSweep
    <2> HIDE DEF page
    <2>3. Written /\ spent' \in 0..Budget /\ window' \in 0..2 /\ faults' \in 0..MaxFaults
        BY <2>1, <2>2, LookUpOrFailWrites
    <2>4. cursor' \in Nat
        BY <2>1, <2>2, CursorOf
    <2>5. HistoryTyped' /\ pc' = "fetch"
        BY <2>2, NextIterationHistory
    <2>6. VenueTyped' /\ LoopTyped' /\ StaleTyped'
        BY <2>2, <2>3, <2>5 DEF VenueTyped, LoopTyped, StaleTyped, Labels, venueVars, staleVars
    <2>7. ProcessTyped'
        BY <2>2, <2>3, <2>4 DEF ProcessTyped
    <2> QED BY <2>3, <2>5, <2>6, <2>7 DEF Written
<1>12. CASE HourPasses
    <2>1. VenueTyped' /\ LoopTyped' /\ RegistryTyped' /\ StaleTyped'
        BY <1>12 DEF HourPasses, VenueTyped, LoopTyped, RegistryTyped, StaleTyped, venueVars, loopVars, staleVars
    <2>2. ProcessTyped'
        <3>1. full' = [e \in DOMAIN full |-> [full[e] EXCEPT !.old = TRUE]] /\ full' \in [DOMAIN full' -> [old : BOOLEAN, markets : Snapshots]]
            BY <1>12 DEF HourPasses, ProcessTyped
        <3>2. DOMAIN full' \subseteq Event
            BY <3>1 DEF ProcessTyped
        <3>3. window' \in 0..2 /\ UNCHANGED <<spent, cursor, active>>
            BY <1>12 DEF HourPasses, ProcessTyped
        <3>4. due' \in BOOLEAN
            BY <1>12 DEF HourPasses
        <3> QED BY <3>1, <3>2, <3>3, <3>4 DEF ProcessTyped
    <2>3. HistoryTyped'
        <3>1. HourStart \in [open : SUBSET Market, shut : SUBSET Market]
            BY DEF HourStart, OpenIn
        <3>2. was' = [was EXCEPT !.open = HourStart.open, !.shut = HourStart.shut]
            BY <1>12 DEF HourPasses
        <3> QED BY <3>1, <3>2 DEF HistoryTyped
    <2> QED BY <2>1, <2>2, <2>3
<1>13. CASE Restart
    <2>1. HistoryTyped' /\ pc' = "fetch"
        BY <1>13, NextIterationHistory DEF Restart
    <2>2. VenueTyped' /\ RegistryTyped' /\ StaleTyped'
        BY <1>0, <1>13 DEF Restart, VenueTyped, RegistryTyped, StaleTyped, venueVars, listVars, staleVars
    <2>3. LoopTyped'
        BY <1>13, <2>1 DEF Restart, LoopTyped, Labels
    <2>4. ProcessTyped'
        <3>1. full' = [e \in {} |-> 0] /\ spent' = 0 /\ window' = 2 /\ cursor' = 0 /\ due' = TRUE /\ active' = {}
            BY <1>13 DEF Restart
        <3>2. full' \in [DOMAIN full' -> [old : BOOLEAN, markets : Snapshots]] /\ DOMAIN full' = {}
            BY <3>1, NoneKept
        <3>3. spent' \in 0..Budget /\ window' \in 0..2 /\ cursor' \in Nat
            BY <1>0, <3>1
        <3>4. due' \in BOOLEAN /\ active' \subseteq Natives
            BY <3>1
        <3> QED BY <3>2, <3>3, <3>4 DEF ProcessTyped
    <2> QED BY <2>1, <2>2, <2>3, <2>4
<1>14. CASE UNCHANGED vars
    BY <1>14 DEF vars, VenueTyped, ProcessTyped, LoopTyped, RegistryTyped, StaleTyped, HistoryTyped, venueVars, clobVars,
                 loopVars, listVars, staleVars
<1> QED BY <1>1, <1>2, <1>3, <1>4, <1>5, <1>6, <1>7, <1>8, <1>9, <1>10, <1>11, <1>12, <1>13, <1>14 DEF Next, Loop, FetchCycle

\* The types are right in every state: every snapshot, page, answer and record is of the markets there are, what is kept
\* of full events is a snapshot of the venue, the CLOB is asked Budget times in a window at most (_take_clob_lookups), and
\* no tracked event has missed as many feeds as the threshold.
THEOREM TypeCorrect == Spec => []TypeOK
<1>1. QED BY InitTypeOK, NextTypeOK, PTL DEF Spec

-----------------------------------------------------------------------------
(* A recorded settlement is final.                                         *)

\* The venue moves one market that is not final and nothing is recorded, or its markets stay and what is recorded is
\* what an answer says.
LEMMA RecordingSteps ==
    ASSUME TypeOK, [Next]_vars
    PROVE  \/ /\ value' = value
              /\ \/ now' = now
                 \/ \E m \in Market, status \in Statuses, yes \in 0..Scale :
                        now[m].status # "final" /\ VenueMoves(m, status, yes)
           \/ now' = now /\ Written
<1> USE DEF TypeOK
<1>1. CASE Moves
    BY <1>1, MovesFrame DEF listVars
<1>2. CASE CheckClosures
    <2>1. \E ids \in SUBSET Key : LookUpOrFail(ids)
        <3>1. {} \in SUBSET Key /\ left \in SUBSET Key
            BY DEF LoopTyped
        <3> QED BY <1>2, <3>1 DEF CheckClosures
    <2>2. now' = now
        BY <1>2 DEF CheckClosures, venueVars
    <2> QED BY <2>1, <2>2, LookUpOrFailWrites
<1>3. CASE SettleRecent
    <2>1. LookUpOrFail(Candidates(recent, 0, SettlePageSize)) /\ Candidates(recent, 0, SettlePageSize) \in SUBSET Key
        BY <1>3, CandidatesOf DEF SettleRecent, RegistryTyped
    <2>2. now' = now
        BY <1>3 DEF SettleRecent, venueVars
    <2> QED BY <2>1, <2>2, LookUpOrFailWrites
<1>4. CASE SettleSweep
    <2> DEFINE page == Candidates(off \cup (IF venue = "HYPERLIQUID" THEN on ELSE {}), cursor, SettlePageSize)
    <2>1. page \in SUBSET Key
        BY CandidatesOf DEF RegistryTyped
    <2>2. LookUpOrFail(page) /\ now' = now
        BY <1>4 DEF SettleSweep, venueVars
    <2> HIDE DEF page
    <2> QED BY <2>1, <2>2, LookUpOrFailWrites
<1>5. CASE StartFetch \/ ReadPage \/ FetchFails \/ Restart
    BY <1>5 DEF StartFetch, ReadPage, FetchFails, Restart, venueVars, listVars
<1>6. CASE FinishFetch
    BY <1>6 DEF FinishFetch, venueVars, listVars
<1>7. CASE Reactivate
    BY <1>7 DEF Reactivate, venueVars
<1>8. CASE HourPasses
    BY <1>8 DEF HourPasses, venueVars
<1>9. CASE UNCHANGED vars
    BY <1>9 DEF vars, venueVars, listVars
<1>10. CASE ResolveCycle \/ SkipResolve \/ ResolveFails
    <2>1. Resolving
        BY <1>10 DEF ResolveCycle, SkipResolve, ResolveFails
    <2> QED BY <2>1, ResolvingFrame DEF venueVars
<1>11. CASE StaleCycle
    BY <1>11 DEF StaleCycle, venueVars, listVars
<1> QED BY <1>1, <1>2, <1>3, <1>4, <1>5, <1>6, <1>7, <1>8, <1>9, <1>10, <1>11 DEF Next, Loop, FetchCycle

\* What a move leaves of the other markets, and of the one it moves.
LEMMA MovedMarket ==
    ASSUME VenueTyped, NEW m \in Market, NEW status \in Statuses, NEW yes \in 0..Scale, VenueMoves(m, status, yes)
    PROVE  now'[m].status = status /\ \A n \in Market \ {m} : now'[n] = now[n]
BY DEF VenueMoves, VenueTyped, Snapshots

\* A step keeps what is recorded final.
LEMMA RecordedStep == TypeOK /\ RecordedIsFinal /\ [Next]_vars => RecordedIsFinal'
<1> SUFFICES ASSUME TypeOK, RecordedIsFinal, [Next]_vars, NEW k \in Key, value'[k] # None
             PROVE  /\ now'[k.market].status = "final"
                    /\ value'[k] = IF k.leg = "no" THEN Scale - now'[k.market].yes ELSE now'[k.market].yes
    BY DEF RecordedIsFinal
<1>0. k.market \in Market
    BY DEF Key
<1>1. ASSUME value'[k] = value[k]
      PROVE  now[k.market].status = "final" /\ value'[k] = SidePays(now, k)
    BY <1>1 DEF RecordedIsFinal, SidePays
<1>2. CASE now' = now /\ value' = value
    BY <1>1, <1>2 DEF SidePays
<1>3. CASE now' = now /\ Written
    BY <1>1, <1>3 DEF Written, SidePays
<1>4. ASSUME value' = value, NEW m \in Market, NEW status \in Statuses, NEW yes \in 0..Scale,
             now[m].status # "final", VenueMoves(m, status, yes)
      PROVE  now'[k.market] = now[k.market]
    BY <1>0, <1>1, <1>4, MovedMarket DEF TypeOK
<1> QED BY <1>1, <1>2, <1>3, <1>4, RecordingSteps DEF SidePays

\* A recorded value is the one the venue made final: what the closure check, the pass over what closed lately and the
\* sweep write is never a value the venue may still amend, whatever it opens, shuts and reopens between the questions and
\* whatever the adapter answers from, and Kalshi's NO side, which the venue gives no value for, pays the rest.
THEOREM ValuesAreFinal == Spec => []RecordedIsFinal
<1>1. Init => RecordedIsFinal
    BY DEF Init, RecordedIsFinal
<1> QED BY <1>1, InitTypeOK, NextTypeOK, RecordedStep, PTL DEF Spec

-----------------------------------------------------------------------------
(* A market has one identity.                                              *)

\* Everything ever listed was listed in its venue's one way.
AllOneWay == \A c \in was.listed : OneWay(c)

\* The adapter is one and the same, and so is its events' flag.
LEMMA VenueStays ==
    ASSUME TypeOK, [Next]_vars
    PROVE  venue' = venue /\ grouped' = grouped
<1>1. CASE Moves
    BY <1>1, MovesFrame DEF TypeOK
<1>2. CASE UNCHANGED vars
    BY <1>2 DEF vars
<1> QED BY <1>1, <1>2 DEF Next, Loop, FetchCycle, StartFetch, ReadPage, FinishFetch, CheckClosures, SettleRecent,
                          Reactivate, FetchFails, Resolving, ResolveCycle, SkipResolve, ResolveFails, StaleCycle,
                          SettleSweep, HourPasses, Restart

\* Only a page adds to what was listed, and the venue and its events' flag stay.
LEMMA AllOneWayStep == TypeOK /\ AllOneWay /\ [Next]_vars => AllOneWay'
<1> SUFFICES ASSUME TypeOK, AllOneWay, [Next]_vars, NEW c \in was'.listed PROVE OneWay(c)'
    BY DEF AllOneWay
<1>1. UNCHANGED <<venue, grouped>>
    BY VenueStays
<1>2. OneWay(c)
    <2>1. CASE c \in was.listed
        BY <2>1 DEF AllOneWay
    <2>2. CASE ReadPage
        <3>1. was' = [was EXCEPT !.listed = @ \cup MapPage(NextPage)] /\ NextPage # {} /\ NextPage \subseteq Event
            BY <2>2, PageOf DEF ReadPage
        <3>2. c \in was.listed \/ c \in MapPage(NextPage)
            BY <3>1 DEF TypeOK, HistoryTyped
        <3> QED BY <2>1, <3>1, <3>2, MapPageOf DEF TypeOK, VenueTyped
    <2>3. CASE Moves
        <3>1. \/ was' = was
              \/ \E m \in Market, status \in Statuses, yes \in 0..Scale : VenueMoves(m, status, yes)
            BY <2>3, MovesFrame DEF TypeOK
        <3>2. was'.listed = was.listed
            <4>1. \A m \in Market, status \in Statuses, yes \in 0..Scale :
                      VenueMoves(m, status, yes) => was'.listed = was.listed
                BY MoveHistory DEF TypeOK
            <4> QED BY <3>1, <4>1
        <3> QED BY <2>1, <3>2
    <2>4. CASE StartFetch
        BY <2>1, <2>4, StartFetchHistory DEF TypeOK
    <2>5. CASE HourPasses
        BY <2>1, <2>5 DEF HourPasses, TypeOK, HistoryTyped
    <2>6. CASE ResolveCycle \/ SkipResolve \/ ResolveFails
        <3>1. Resolving
            BY <2>6 DEF ResolveCycle, SkipResolve, ResolveFails
        <3> QED BY <2>1, <3>1, ResolvingFrame DEF TypeOK
    <2>7. CASE SettleSweep \/ Restart
        BY <2>1, <2>7, NextIterationHistory DEF SettleSweep, Restart, TypeOK
    <2>8. CASE UNCHANGED was
        BY <2>1, <2>8
    <2>9. CASE UNCHANGED vars
        BY <2>1, <2>9 DEF vars
    <2> QED BY <2>2, <2>3, <2>4, <2>5, <2>6, <2>7, <2>8, <2>9 DEF Next, Loop, FetchCycle, FinishFetch, CheckClosures,
                                                              SettleRecent, Reactivate, FetchFails, StaleCycle
<1> QED BY <1>1, <1>2 DEF OneWay, ByEvent

\* A market is always listed under the same event and as the same type, however many of its siblings are open when it is
\* read: were it otherwise, the fetch would create it a second time under another native event.
THEOREM OneWayListed == Spec => []OneIdentity
<1>1. Init => AllOneWay
    BY DEF Init, AllOneWay
<1>2. AllOneWay => OneIdentity
    BY DEF AllOneWay, OneIdentity, OneWay
<1> QED BY <1>1, <1>2, InitTypeOK, NextTypeOK, AllOneWayStep, PTL DEF Spec

-----------------------------------------------------------------------------
(* What the venue has shown of its markets.                                *)

\* A snapshot says nothing of a market that the venue has not said of it at some moment of the hour.
Known(markets, history) ==
    \A m \in Market : IF markets[m].status = "open" THEN m \in history.open ELSE m \in history.shut

\* So are the venue's own markets, and the full events still fresh, for Polymarket US.
SnapshotsKnown ==
    venue = "POLYMARKET_US" =>
        Known(now, was) /\ \A e \in DOMAIN full : ~full[e].old => Known(full[e].markets, was)

\* What is known stays known as the history grows.
LEMMA KnownGrows ==
    ASSUME NEW markets, NEW h1, NEW h2, Known(markets, h1), h1.open \subseteq h2.open, h1.shut \subseteq h2.shut
    PROVE  Known(markets, h2)
BY DEF Known

\* It holds at the start.
LEMMA InitKnown == Init => SnapshotsKnown
<1> SUFFICES ASSUME Init, venue = "POLYMARKET_US" PROVE SnapshotsKnown
    BY DEF SnapshotsKnown
<1>1. DOMAIN full = {}
    BY DEF Init
<1>2. was.open = OpenIn(now, Market) /\ was.shut = Market \ OpenIn(now, Market)
    BY DEF Init, HourStart
<1>3. Known(now, was)
    BY <1>2 DEF Known, OpenIn
<1> QED BY <1>1, <1>3 DEF SnapshotsKnown

\* A step keeps it: what is kept anew is the venue's own, an hour later nothing is fresh, and a move is in the history.
LEMMA KnownStep == TypeOK /\ SnapshotsKnown /\ [Next]_vars => SnapshotsKnown'
<1> SUFFICES ASSUME TypeOK, SnapshotsKnown, [Next]_vars PROVE SnapshotsKnown'
    OBVIOUS
<1>v. venue' = venue
    BY VenueStays
<1> SUFFICES ASSUME venue = "POLYMARKET_US" PROVE SnapshotsKnown'
    BY <1>v DEF SnapshotsKnown
<1> USE DEF TypeOK
<1>0. Known(now, was) /\ \A e \in DOMAIN full : ~full[e].old => Known(full[e].markets, was)
    BY DEF SnapshotsKnown
<1>1. ASSUME UNCHANGED now, was.open \subseteq was'.open, was.shut \subseteq was'.shut,
             DOMAIN full' \subseteq Event,
             \A e \in DOMAIN full' : \/ e \in DOMAIN full /\ full'[e] = full[e]
                                     \/ full'[e] = [old |-> FALSE, markets |-> now]
      PROVE  SnapshotsKnown'
    <2>1. Known(now', was')
        BY <1>0, <1>1, KnownGrows
    <2>2. ASSUME NEW e \in DOMAIN full', ~full'[e].old PROVE Known(full'[e].markets, was')
        <3>1. CASE e \in DOMAIN full /\ full'[e] = full[e]
            BY <1>0, <1>1, <2>2, <3>1, KnownGrows
        <3>2. CASE full'[e] = [old |-> FALSE, markets |-> now]
            BY <1>0, <1>1, <3>2, KnownGrows
        <3> QED BY <1>1, <3>1, <3>2
    <2> QED BY <2>1, <2>2 DEF SnapshotsKnown
<1>2. DOMAIN full \subseteq Event
    BY DEF ProcessTyped
<1>3. CASE Moves
    <2>1. full' = full
        BY <1>3, MovesFrame
    <2>2. CASE UNCHANGED <<now, was>>
        BY <1>1, <1>2, <2>1, <2>2
    <2>3. ASSUME NEW m \in Market, NEW status \in Statuses, NEW yes \in 0..Scale, VenueMoves(m, status, yes)
          PROVE  SnapshotsKnown'
        <3>1. /\ was.open \subseteq was'.open /\ was.shut \subseteq was'.shut
              /\ IF status = "open" THEN m \in was'.open ELSE m \in was'.shut
            BY <2>3, MoveHistory
        <3>2. Known(now', was')
            <4>1. now'[m].status = status /\ \A n \in Market \ {m} : now'[n] = now[n]
                BY <2>3, MovedMarket
            <4> QED BY <1>0, <3>1, <4>1 DEF Known
        <3>3. \A e \in DOMAIN full : ~full[e].old => Known(full[e].markets, was')
            BY <1>0, <3>1, KnownGrows
        <3> QED BY <2>1, <3>2, <3>3 DEF SnapshotsKnown
    <2> QED BY <1>3, <2>2, <2>3, MovesFrame
<1>4. CASE ReadPage
    <2>1. was' = [was EXCEPT !.listed = @ \cup MapPage(NextPage)] /\ UNCHANGED now
        BY <1>4 DEF ReadPage, venueVars
    <2>2. was'.open = was.open /\ was'.shut = was.shut
        BY <2>1 DEF HistoryTyped
    <2>3. CASE full' = full
        BY <1>1, <1>2, <2>1, <2>2, <2>3
    <2>4. ASSUME NEW e \in NextPage, full' = KeepFull(e) PROVE SnapshotsKnown'
        <3>1. e \in Event
            BY PageOf
        <3>2. /\ DOMAIN KeepFull(e) \subseteq Event
              /\ \A x \in DOMAIN KeepFull(e) : \/ x \in DOMAIN full /\ KeepFull(e)[x] = full[x]
                                               \/ KeepFull(e)[x] = [old |-> FALSE, markets |-> now]
            BY <3>1, FullTyped
        <3> QED BY <1>1, <2>1, <2>2, <2>4, <3>2
    <2> QED BY <1>4, <2>3, <2>4, ReadPageKeeps
<1>5. CASE FinishFetch
    BY <1>1, <1>2, <1>5 DEF FinishFetch, venueVars
<1>6. CASE ResolveCycle \/ SkipResolve \/ ResolveFails
    <2>1. Resolving
        BY <1>6 DEF ResolveCycle, SkipResolve, ResolveFails
    <2>2. UNCHANGED now /\ was'.open = was.open /\ was'.shut = was.shut
        BY <2>1, ResolvingFrame DEF venueVars
    <2>3. CASE full' = full
        BY <1>1, <1>2, <2>2, <2>3
    <2>4. CASE full' = ReadFull
        BY <1>1, <2>2, <2>4, ReadFullTyped
    <2> QED BY <1>6, <2>3, <2>4 DEF ResolveCycle, SkipResolve, ResolveFails
<1>7. CASE HourPasses
    <2>1. Known(now', was')
        <3>1. was' = [was EXCEPT !.open = HourStart.open, !.shut = HourStart.shut] /\ UNCHANGED now
            BY <1>7 DEF HourPasses, venueVars
        <3>2. was'.open = OpenIn(now, Market) /\ was'.shut = Market \ OpenIn(now, Market)
            BY <3>1 DEF HistoryTyped, HourStart
        <3> QED BY <3>1, <3>2 DEF Known, OpenIn
    <2>2. \A e \in DOMAIN full' : full'[e].old
        BY <1>7 DEF HourPasses, ProcessTyped
    <2> QED BY <2>1, <2>2 DEF SnapshotsKnown
<1>8. CASE Restart
    <2>1. full' = [e \in {} |-> 0] /\ UNCHANGED now /\ NextIteration
        BY <1>8 DEF Restart, venueVars
    <2>2. DOMAIN full' = {}
        BY <2>1
    <2>3. was'.open = was.open /\ was'.shut = was.shut
        BY <2>1, NextIterationHistory
    <2> QED BY <1>1, <2>1, <2>2, <2>3
<1>9. CASE UNCHANGED <<now, full, was>>
    BY <1>1, <1>2, <1>9
<1>10. CASE StartFetch
    <2>1. UNCHANGED <<now, full>>
        BY <1>10 DEF StartFetch, venueVars
    <2>2. was'.open = was.open /\ was'.shut = was.shut
        BY <1>10, StartFetchHistory
    <2> QED BY <1>1, <1>2, <2>1, <2>2
<1>11. CASE CheckClosures \/ SettleRecent \/ Reactivate \/ FetchFails \/ StaleCycle
    BY <1>9, <1>11 DEF CheckClosures, SettleRecent, Reactivate, FetchFails, StaleCycle, venueVars
<1>12. CASE SettleSweep
    <2>1. UNCHANGED <<now, full>> /\ NextIteration
        BY <1>12 DEF SettleSweep, venueVars
    <2>2. was'.open = was.open /\ was'.shut = was.shut
        BY <2>1, NextIterationHistory
    <2> QED BY <1>1, <1>2, <2>1, <2>2
<1>13. CASE UNCHANGED vars
    BY <1>9, <1>13 DEF vars, venueVars
<1> QED BY <1>3, <1>4, <1>5, <1>6, <1>7, <1>8, <1>10, <1>11, <1>12, <1>13 DEF Next, Loop, FetchCycle

\* What the fetch and the resolve cycle read of an event is known.
LEMMA SourceKnown ==
    ASSUME TypeOK, SnapshotsKnown, venue = "POLYMARKET_US", NEW e \in Event
    PROVE  Known(Source(e), was)
<1>1. CASE Source(e) = now
    BY <1>1 DEF SnapshotsKnown
<1>2. CASE e \in DOMAIN full /\ ~full[e].old /\ Source(e) = full[e].markets
    BY <1>2 DEF SnapshotsKnown
<1> QED BY <1>1, <1>2 DEF Source, FullEvent

-----------------------------------------------------------------------------
(* A Polymarket US fetch is faithful.                                      *)

IsRead(m) == \E c \in read : c.key.market = m

\* What a fetch holds was open in its time, and it holds nothing between fetches.
ReadInTime ==
    /\ pc \notin {"reading", "closures"} => read = {}
    /\ \A c \in read : c.key.market \in was.open

\* The events the offset has passed are read, but for what was not open: an event that joins the list pushes later ones
\* on, never back, and one that leaves it has slipped.
PassedAreRead ==
    pc = "reading" /\ ~was.slipped =>
        \A e \in ActiveEvents : Cardinality(Below(ActiveEvents, e)) < at =>
            \A m \in MarketsOf(e) \ was.shut : IsRead(m)

AllAreRead == pc = "closures" /\ ~was.slipped => \A m \in Market \ was.shut : IsRead(m)

FeedInv == venue = "POLYMARKET_US" => ReadInTime /\ PassedAreRead /\ AllAreRead

\* It is what the property states, and more.
LEMMA FeedInvSays == FeedInv => FeedIsFaithful
BY DEF FeedInv, ReadInTime, AllAreRead, IsRead, FeedIsFaithful

\* Polymarket US's page is the event that the offset counts to.
LEMMA OffsetPage ==
    ASSUME venue = "POLYMARKET_US"
    PROVE  NextPage = {e \in ActiveEvents : Cardinality(Below(ActiveEvents, e)) = at}
BY DEF NextPage, ActiveEvents, Below

\* A page read: its open markets are listed, and those are all it does not know to have been closed.
LEMMA PageRead ==
    ASSUME TypeOK, SnapshotsKnown, venue = "POLYMARKET_US", NEW e \in NextPage
    PROVE  /\ \A m \in MarketsOf(e) \ was.shut : \E c \in MapPage(NextPage) : c.key.market = m
           /\ \A c \in MapPage(NextPage) : c.key.market \in was.open
<1>1. e \in Event /\ NextPage # {} /\ NextPage \in SUBSET Event
    BY PageOf
<1>2. ASSUME NEW m \in MarketsOf(e) \ was.shut PROVE \E c \in MapPage(NextPage) : c.key.market = m
    <2>1. m \in Market /\ Known(Source(e), was)
        BY <1>1, SourceKnown DEF MarketsOf
    <2>2. m \in OpenIn(Source(e), MarketsOf(e))
        BY <2>1 DEF Known, OpenIn
    <2>3. Id(m, "yes") \in BothSides(OpenIn(Source(e), MarketsOf(e))) /\ Id(m, "yes").market = m
        BY <2>2 DEF BothSides, Sides, Id
    <2>4. Contract(Id(m, "yes"), OfMarket(Id(m, "yes").market), "binary") \in UsMapEvent(Source(e), e)
        BY <2>3 DEF UsMapEvent
    <2>5. UsMapEvent(Source(e), e) \subseteq MapPage(NextPage)
        BY DEF MapPage, Source
    <2> QED BY <2>3, <2>4, <2>5 DEF Contract
<1>3. ASSUME NEW c \in MapPage(NextPage) PROVE c.key.market \in was.open
    <2>1. PICK x \in NextPage : c.key.market \in OpenIn(Source(x), MarketsOf(x))
        BY <1>1, MapPageOf DEF TypeOK, VenueTyped
    <2>2. Known(Source(x), was) /\ c.key.market \in Market /\ Source(x)[c.key.market].status = "open"
        BY <1>1, <2>1, SourceKnown DEF OpenIn, MarketsOf
    <2> QED BY <2>2 DEF Known
<1> QED BY <1>2, <1>3

\* A move of the venue while a fetch reads leaves what the offset has passed read.
LEMMA MoveKeepsPassed ==
    ASSUME TypeOK, SnapshotsKnown, venue = "POLYMARKET_US", PassedAreRead, pc = "reading",
           NEW m \in Market, NEW status \in Statuses, NEW yes \in 0..Scale, VenueMoves(m, status, yes)
    PROVE  PassedAreRead'
<1> USE DEF TypeOK
<1>0. UNCHANGED <<pc, at, read, venue>>
    BY DEF VenueMoves, loopVars
<1>1. now'[m].status = status /\ \A n \in Market \ {m} : now'[n] = now[n]
    BY MovedMarket
<1>2. /\ was.shut \subseteq was'.shut /\ (was.slipped => was'.slipped)
      /\ status # "open" /\ pc = "reading" /\ OpenIn(now, MarketsOf(EventOf[m])) = {m} => was'.slipped
    BY MoveHistory
<1> SUFFICES ASSUME ~was'.slipped, NEW e \in ActiveEvents', Cardinality(Below(ActiveEvents', e)) < at,
                    NEW n \in MarketsOf(e) \ was'.shut
             PROVE  IsRead(n)
    BY <1>0 DEF PassedAreRead, IsRead
<1>3. ~was.slipped /\ n \in MarketsOf(e) \ was.shut /\ n \in Market
    BY <1>2 DEF MarketsOf
<1>4. ActiveEvents \subseteq ActiveEvents'
    <2> SUFFICES ASSUME NEW x \in ActiveEvents PROVE x \in ActiveEvents'
        OBVIOUS
    <2>1. PICK y \in MarketsOf(x) : now[y].status = "open"
        BY DEF ActiveEvents, Active, OpenIn
    <2>2. y \in Market /\ EventOf[y] = x /\ x \in Event
        BY DEF MarketsOf, ActiveEvents
    <2>3. \E z \in MarketsOf(x) : now'[z].status = "open"
        <3>1. CASE y # m \/ status = "open"
            BY <1>1, <2>1, <2>2, <3>1
        <3>2. CASE y = m /\ status # "open"
            <4>1. m \in OpenIn(now, MarketsOf(x)) /\ OpenIn(now, MarketsOf(x)) # {m}
                BY <1>2, <2>1, <2>2, <3>2 DEF OpenIn
            <4>2. PICK z \in OpenIn(now, MarketsOf(x)) : z # m
                BY <4>1
            <4>3. z \in MarketsOf(x) /\ z \in Market /\ now[z].status = "open"
                BY <4>2 DEF OpenIn, MarketsOf
            <4> QED BY <1>1, <4>2, <4>3
        <3> QED BY <3>1, <3>2
    <2> QED BY <2>2, <2>3 DEF ActiveEvents, Active, OpenIn
<1>5. CASE e \in ActiveEvents
    <2>1. Below(ActiveEvents, e) \subseteq Below(ActiveEvents', e)
        BY <1>4 DEF Below
    <2>2. IsFiniteSet(Below(ActiveEvents', e))
        <3>1. Below(ActiveEvents', e) \subseteq Event
            BY DEF Below, ActiveEvents
        <3> QED BY <3>1, FiniteKeys, FS_Subset
    <2>3. /\ Cardinality(Below(ActiveEvents, e)) <= Cardinality(Below(ActiveEvents', e))
          /\ Cardinality(Below(ActiveEvents, e)) \in Nat /\ Cardinality(Below(ActiveEvents', e)) \in Nat
        BY <2>1, <2>2, FS_Subset, FS_CardinalityType
    <2>4. Cardinality(Below(ActiveEvents, e)) < at
        BY <2>3 DEF LoopTyped
    <2> QED BY <1>3, <1>5, <2>4 DEF PassedAreRead
<1>6. CASE e \notin ActiveEvents
    <2>1. now[n].status # "open"
        BY <1>3, <1>6 DEF ActiveEvents, Active, OpenIn
    <2>2. n \in was.shut
        BY <1>3, <2>1 DEF SnapshotsKnown, Known
    <2> QED BY <1>3, <2>2
<1> QED BY <1>5, <1>6

\* Every step keeps it.
LEMMA FeedStep == TypeOK /\ SnapshotsKnown /\ FeedInv /\ [Next]_vars => FeedInv'
<1> SUFFICES ASSUME TypeOK, SnapshotsKnown, FeedInv, [Next]_vars PROVE FeedInv'
    OBVIOUS
<1>v. venue' = venue
    BY VenueStays
<1> SUFFICES ASSUME venue = "POLYMARKET_US" PROVE ReadInTime' /\ PassedAreRead' /\ AllAreRead'
    BY <1>v DEF FeedInv
<1>0. ReadInTime /\ PassedAreRead /\ AllAreRead
    BY DEF FeedInv
<1> USE DEF TypeOK
<1>1. CASE Moves
    <2>1. UNCHANGED <<pc, at, read>>
        BY <1>1, MovesFrame DEF loopVars
    <2>2. CASE UNCHANGED <<now, was>>
        <3>1. ActiveEvents' = ActiveEvents
            BY <2>2 DEF ActiveEvents, Active, OpenIn
        <3> QED BY <1>0, <2>1, <2>2, <3>1 DEF ReadInTime, PassedAreRead, AllAreRead, IsRead, Below
    <2>3. ASSUME NEW m \in Market, NEW status \in Statuses, NEW yes \in 0..Scale, VenueMoves(m, status, yes)
          PROVE  ReadInTime' /\ PassedAreRead' /\ AllAreRead'
        <3>1. was.open \subseteq was'.open /\ was.shut \subseteq was'.shut /\ (was.slipped => was'.slipped)
            BY <2>3, MoveHistory
        <3>2. PassedAreRead'
            <4>1. CASE pc = "reading"
                BY <1>0, <2>3, <4>1, MoveKeepsPassed
            <4>2. CASE pc # "reading"
                BY <2>1, <4>2 DEF PassedAreRead
            <4> QED BY <4>1, <4>2
        <3> QED BY <1>0, <2>1, <3>1, <3>2 DEF ReadInTime, AllAreRead, IsRead
    <2> QED BY <1>1, <2>2, <2>3, MovesFrame
<1>2. CASE StartFetch
    <2>1. read' = {} /\ at' = 0 /\ pc' = "reading"
        BY <1>2 DEF StartFetch, Goto
    <2>2. PassedAreRead'
        <3> SUFFICES ASSUME NEW e \in ActiveEvents', Cardinality(Below(ActiveEvents', e)) < 0 PROVE FALSE
            BY <2>1 DEF PassedAreRead
        <3>1. Below(ActiveEvents', e) \subseteq Event
            BY DEF Below, ActiveEvents
        <3>2. IsFiniteSet(Below(ActiveEvents', e))
            BY <3>1, FiniteKeys, FS_Subset
        <3>3. Cardinality(Below(ActiveEvents', e)) \in Nat
            BY <3>2, FS_CardinalityType
        <3> QED BY <3>3
    <2> QED BY <2>1, <2>2 DEF ReadInTime, AllAreRead
<1>3. CASE ReadPage
    <2>1. PICK e \in NextPage : TRUE
        BY <1>3 DEF ReadPage
    <2>2. /\ read' = read \cup MapPage(NextPage) /\ at' = at + 1
          /\ was' = [was EXCEPT !.listed = @ \cup MapPage(NextPage)] /\ UNCHANGED <<now, pc>> /\ pc = "reading"
        BY <1>3 DEF ReadPage, venueVars
    <2>3. was'.open = was.open /\ was'.shut = was.shut /\ was'.slipped = was.slipped
        BY <2>2 DEF HistoryTyped
    <2>4. ActiveEvents' = ActiveEvents
        BY <2>2 DEF ActiveEvents, Active, OpenIn
    <2>5. ReadInTime'
        BY <1>0, <2>1, <2>2, <2>3, PageRead DEF ReadInTime
    <2>6. ASSUME ~was.slipped, NEW x \in ActiveEvents, Cardinality(Below(ActiveEvents, x)) < at + 1,
                 NEW m \in MarketsOf(x) \ was.shut
          PROVE  \E c \in read' : c.key.market = m
        <3>1. Cardinality(Below(ActiveEvents, x)) \in Nat /\ at \in Nat
            <4>1. IsFiniteSet(Below(ActiveEvents, x))
                BY PageOf, FS_Subset DEF Below
            <4> QED BY <4>1, FS_CardinalityType DEF LoopTyped
        <3>2. CASE Cardinality(Below(ActiveEvents, x)) < at
            BY <1>0, <2>2, <2>6, <3>2 DEF PassedAreRead, IsRead
        <3>3. CASE Cardinality(Below(ActiveEvents, x)) = at
            <4>1. x \in NextPage
                BY <3>3, OffsetPage
            <4>2. \E c \in MapPage(NextPage) : c.key.market = m
                BY <2>6, <4>1, PageRead
            <4> QED BY <2>2, <4>2
        <3> QED BY <2>6, <3>1, <3>2, <3>3
    <2>7. PassedAreRead'
        BY <2>2, <2>3, <2>4, <2>6 DEF PassedAreRead, IsRead, Below
    <2> QED BY <2>2, <2>5, <2>7 DEF AllAreRead
<1>4. CASE FinishFetch
    <2>1. pc = "reading" /\ pc' = "closures" /\ NextPage = {} /\ UNCHANGED <<read, was>>
        BY <1>4 DEF FinishFetch, Goto
    <2>2. AllAreRead'
        <3> SUFFICES ASSUME ~was.slipped, NEW m \in Market \ was.shut PROVE IsRead(m)
            BY <2>1 DEF AllAreRead, IsRead
        <3>1. now[m].status = "open"
            BY DEF SnapshotsKnown, Known
        <3> DEFINE e == EventOf[m]
        <3>2. e \in ActiveEvents /\ m \in MarketsOf(e)
            BY <3>1 DEF ActiveEvents, Active, OpenIn, MarketsOf, Event
        <3> HIDE DEF e
        <3>3. Cardinality(Below(ActiveEvents, e)) < at
            <4> SUFFICES ASSUME ~(Cardinality(Below(ActiveEvents, e)) < at) PROVE FALSE
                OBVIOUS
            <4>1. IsFiniteSet(Below(ActiveEvents, e))
                BY PageOf, FS_Subset DEF Below
            <4>2. Cardinality(Below(ActiveEvents, e)) \in Nat /\ at \in Nat
                BY <4>1, FS_CardinalityType DEF LoopTyped
            <4>3. at <= Cardinality(Below(ActiveEvents, e))
                BY <4>2
            <4>4. \E x \in ActiveEvents : Cardinality(Below(ActiveEvents, x)) = at
                BY <3>2, <4>2, <4>3, PageOf, RanksFill
            <4> QED BY <2>1, <4>4, OffsetPage
        <3> QED BY <1>0, <2>1, <3>2, <3>3 DEF PassedAreRead
    <2> QED BY <1>0, <2>1, <2>2 DEF ReadInTime, PassedAreRead
<1>5. CASE CheckClosures
    BY <1>5 DEF CheckClosures, Goto, ReadInTime, PassedAreRead, AllAreRead
<1>6. CASE FetchFails \/ Restart
    BY <1>6 DEF FetchFails, Restart, NextIteration, Goto, ReadInTime, PassedAreRead, AllAreRead
<1>7. ASSUME read' = read, pc \notin {"reading", "closures"}, pc' \notin {"reading", "closures"}
      PROVE  ReadInTime' /\ PassedAreRead' /\ AllAreRead'
    BY <1>0, <1>7 DEF ReadInTime, PassedAreRead, AllAreRead
<1>8. CASE SettleRecent \/ Reactivate \/ StaleCycle \/ SettleSweep
    BY <1>7, <1>8 DEF SettleRecent, Reactivate, StaleCycle, SettleSweep, NextIteration, Goto
<1>9. CASE ResolveCycle \/ SkipResolve \/ ResolveFails
    <2>1. Resolving
        BY <1>9 DEF ResolveCycle, SkipResolve, ResolveFails
    <2> QED BY <1>7, <2>1, ResolvingFrame
<1>11. CASE HourPasses
    BY <1>7, <1>11 DEF HourPasses, loopVars
<1>10. CASE UNCHANGED vars
    <2>1. UNCHANGED <<now, pc, at, read, was>>
        BY <1>10 DEF vars, venueVars, loopVars
    <2>2. ActiveEvents' = ActiveEvents
        BY <2>1 DEF ActiveEvents, Active, OpenIn
    <2> QED BY <1>0, <2>1, <2>2 DEF ReadInTime, PassedAreRead, AllAreRead, IsRead, Below
<1> QED BY <1>1, <1>2, <1>3, <1>4, <1>5, <1>6, <1>8, <1>9, <1>10, <1>11 DEF Next, Loop, FetchCycle

\* It holds at the start.
LEMMA InitFeed == Init => FeedInv
BY DEF Init, FeedInv, ReadInTime, PassedAreRead, AllAreRead

\* A Polymarket US fetch, made of offset pages and of full events kept a while, lists no market that has been closed for
\* as long as that, and misses none that was open all along unless an event left the list while it was paged: one that
\* joins it pushes the rest on, so an event is read twice and never skipped.
THEOREM FetchIsFaithful == Spec => []FeedIsFaithful
<1> QED BY InitFeed, InitTypeOK, NextTypeOK, InitKnown, KnownStep, FeedStep, FeedInvSays, PTL DEF Spec

-----------------------------------------------------------------------------
(* What is open stays on.                                                  *)

\* The native event of a market, as its venue's adapter always gives it.
MarketNative(m) == IF ByEvent THEN OfEvent(EventOf[m]) ELSE OfMarket(m)

\* While an iteration goes on, a market is known not to have been open all through it, or it is open.
ShutKnown ==
    venue # "POLYMARKET_US" /\ pc # "fetch" => \A m \in Market \ was.shut : now[m].status = "open"

\* The other venues' pages go by the event's number, and Hyperliquid's one page has every event.
PassedListed ==
    venue # "POLYMARKET_US" /\ pc = "reading" =>
        \A m \in Market \ was.shut :
            (IF venue = "HYPERLIQUID" THEN at # 0 ELSE EventOf[m] <= at) => IsRead(m)

\* From the end of a fetch to the stale cycle, every market open all the while has its native event among the active.
AllActive ==
    pc \in {"closures", "recent", "reopen", "resolve", "stale"} /\ active # {} /\ ~was.slipped =>
        \A m \in Market \ was.shut : MarketNative(m) \in active

ReadListed == read \subseteq was.listed

ActiveInv == ShutKnown /\ PassedListed /\ AllActive /\ ReadListed

\* It holds at the start.
LEMMA InitActive == Init => ActiveInv
BY DEF Init, ActiveInv, ShutKnown, PassedListed, AllActive, ReadListed

\* What is not known to have been shut is open, while an iteration goes on.
LEMMA OpenUnlessShut ==
    ASSUME SnapshotsKnown, ShutKnown, pc # "fetch", NEW m \in Market \ was.shut
    PROVE  now[m].status = "open" /\ EventOf[m] \in ActiveEvents /\ m \in MarketsOf(EventOf[m])
<1>1. now[m].status = "open"
    BY DEF SnapshotsKnown, Known, ShutKnown
<1>2. m \in MarketsOf(EventOf[m]) /\ EventOf[m] \in Event
    BY DEF MarketsOf, Event
<1> QED BY <1>1, <1>2 DEF ActiveEvents, Active, OpenIn

\* A page of the other venues lists every open market of the events on it, and Hyperliquid's those of all events.
LEMMA PageLists ==
    ASSUME TypeOK, venue # "POLYMARKET_US", NEW page, NEW m \in Market, now[m].status = "open",
           venue = "HYPERLIQUID" \/ EventOf[m] \in page
    PROVE  \E c \in MapPage(page) : c.key.market = m
<1> DEFINE e == EventOf[m]
<1>1. e \in Event /\ m \in OpenIn(now, MarketsOf(e)) /\ m \in OpenIn(now, Market)
    BY DEF Event, MarketsOf, OpenIn
<1>2. \A leg, native, type : Contract(Id(m, leg), native, type).key.market = m
    BY DEF Contract, Id
<1>3. ASSUME NEW M, m \in M PROVE Id(m, "yes") \in BothSides(M)
    BY <1>3 DEF BothSides, Sides
<1>4. Id(m, "yes").market = m
    BY DEF Id
<1> HIDE DEF e
<1>5. CASE venue = "KALSHI"
    <2>1. CASE grouped
        <3>1. Contract(Id(m, "whole"), OfEvent(e), "multi") \in KalshiMapEvent(now, grouped, e)
            BY <1>1, <2>1 DEF KalshiMapEvent, IsMultiOutcome
        <3> QED BY <1>2, <1>5, <3>1 DEF MapPage, e
    <2>2. CASE ~grouped
        <3>1. Contract(Id(m, "yes"), OfMarket(Id(m, "yes").market), "binary") \in KalshiMapEvent(now, grouped, e)
            BY <1>1, <1>3, <2>2 DEF KalshiMapEvent, IsMultiOutcome
        <3> QED BY <1>2, <1>5, <3>1 DEF MapPage, e
    <2> QED BY <2>1, <2>2
<1>6. CASE venue = "POLYMARKET_INTL"
    <2>1. CASE grouped
        <3>1. Contract(Id(m, "yes"), OfEvent(e), "multi") \in IntlMapEvent(now, grouped, e)
            BY <1>1, <2>1 DEF IntlMapEvent, IsNegRisk, MapNegRiskGroup
        <3> QED BY <1>2, <1>6, <3>1 DEF MapPage, e
    <2>2. CASE ~grouped
        <3>1. Contract(Id(m, "yes"), OfMarket(m), "binary") \in MapBinaryMarket(m)
            BY <1>3 DEF MapBinaryMarket
        <3>2. Contract(Id(m, "yes"), OfMarket(m), "binary") \in IntlMapEvent(now, grouped, e)
            BY <1>1, <2>2, <3>1 DEF IntlMapEvent, IsNegRisk
        <3> QED BY <1>2, <1>6, <3>2 DEF MapPage, e
    <2> QED BY <2>1, <2>2
<1>7. CASE venue = "HYPERLIQUID"
    <2>1. CASE grouped
        <3>1. Contract(Id(m, "yes"), OfEvent(e), "multi") \in MapQuestion(e, OpenIn(now, MarketsOf(e)))
            BY <1>1 DEF MapQuestion
        <3>2. Contract(Id(m, "yes"), OfEvent(e), "multi") \in MapAll(now, grouped)
            BY <1>1, <2>1, <3>1 DEF MapAll
        <3> QED BY <1>2, <1>7, <3>2 DEF MapPage
    <2>2. CASE ~grouped
        <3>1. Contract(Id(m, "yes"), OfMarket(m), "binary") \in MapBinary(m)
            BY <1>3 DEF MapBinary
        <3>2. Contract(Id(m, "yes"), OfMarket(m), "binary") \in MapAll(now, grouped)
            BY <1>1, <2>2, <3>1 DEF MapAll
        <3> QED BY <1>2, <1>7, <3>2 DEF MapPage
    <2> QED BY <2>1, <2>2
<1> QED BY <1>5, <1>6, <1>7 DEF TypeOK, VenueTyped, Venues

\* The next page, in the number order of events, is of the first that is left.
LEMMA CursorPage ==
    ASSUME TypeOK, venue \notin {"POLYMARKET_US", "HYPERLIQUID"}
    PROVE  /\ \A e \in ActiveEvents : e > at => NextPage # {}
           /\ \A e \in ActiveEvents, x \in NextPage : e > at /\ e <= x => e \in NextPage
<1> DEFINE rest == {e \in ActiveEvents : e > at}
           same == [e \in rest |-> e]
<1>1. NextPage = Least(rest, 1)
    BY DEF NextPage, ActiveEvents, TypeOK, VenueTyped, Venues
<1>2. rest \subseteq Nat /\ IsFiniteSet(rest)
    BY PageOf, FS_Subset
<1> HIDE DEF rest
<1>3. \A e \in rest : {y \in rest : y < e} \subseteq rest /\ IsFiniteSet({y \in rest : y < e})
    BY <1>2, FS_Subset
<1>4. \A e \in rest : Cardinality({y \in rest : y < e}) \in Nat
    BY <1>3, FS_CardinalityType
<1>5. \A e \in rest : e \in NextPage <=> {y \in rest : y < e} = {}
    <2> SUFFICES ASSUME NEW e \in rest PROVE e \in NextPage <=> {y \in rest : y < e} = {}
        OBVIOUS
    <2>1. e \in NextPage <=> Cardinality({y \in rest : y < e}) < 1
        BY <1>1 DEF Least
    <2>2. Cardinality({y \in rest : y < e}) < 1 <=> Cardinality({y \in rest : y < e}) = 0
        BY <1>4
    <2>3. Cardinality({y \in rest : y < e}) = 0 <=> {y \in rest : y < e} = {}
        BY <1>3, FS_EmptySet
    <2> QED BY <2>1, <2>2, <2>3
<1>6. ASSUME NEW e \in rest PROVE NextPage # {}
    <2>1. same \in [rest -> Nat] /\ rest # {}
        BY <1>2, <1>6
    <2>2. PICK x \in rest : \A y \in rest : same[x] <= same[y]
        <3> HIDE DEF same
        <3> QED BY <2>1, LeastBy
    <2>3. \A y \in rest : x <= y /\ x \in Nat /\ y \in Nat
        BY <1>2, <2>2
    <2>4. {y \in rest : y < x} = {}
        BY <2>3
    <2> QED BY <1>5, <2>4
<1>7. ASSUME NEW e \in rest, NEW x \in NextPage, e <= x PROVE e \in NextPage
    <2>1. x \in rest /\ {y \in rest : y < x} = {}
        BY <1>1, <1>5 DEF Least
    <2>2. e = x
        BY <1>2, <1>7, <2>1
    <2> QED BY <2>2
<1> QED BY <1>6, <1>7 DEF rest

\* A page read lists what the fetch has passed with it.
LEMMA ReadPagePassed ==
    ASSUME TypeOK, SnapshotsKnown, ShutKnown, PassedListed, ReadPage
    PROVE  PassedListed'
<1> USE DEF TypeOK
<1>1. /\ venue' = venue /\ pc = "reading" /\ pc' = pc /\ read' = read \cup MapPage(NextPage) /\ NextPage # {}
      /\ was' = [was EXCEPT !.listed = @ \cup MapPage(NextPage)]
    BY DEF ReadPage
<1>2. was'.shut = was.shut
    BY <1>1 DEF HistoryTyped
<1> SUFFICES ASSUME venue # "POLYMARKET_US", NEW m \in Market \ was.shut,
                    IF venue = "HYPERLIQUID" THEN at' # 0 ELSE EventOf[m] <= at'
             PROVE  IsRead(m)'
    BY <1>1, <1>2 DEF PassedListed
<1>3. now[m].status = "open" /\ EventOf[m] \in ActiveEvents
    BY <1>1, OpenUnlessShut
<1>4. ASSUME \E c \in MapPage(NextPage) : c.key.market = m PROVE IsRead(m)'
    BY <1>1, <1>4 DEF IsRead
<1>5. ASSUME IsRead(m) PROVE IsRead(m)'
    BY <1>1, <1>5 DEF IsRead
<1>6. CASE venue = "HYPERLIQUID"
    BY <1>3, <1>4, <1>6, PageLists
<1>7. CASE venue # "HYPERLIQUID"
    <2>1. at' = CHOOSE e \in NextPage : \A x \in NextPage : x <= e
        BY DEF ReadPage
    <2>2. \E e \in NextPage : \A x \in NextPage : x <= e
        BY <1>1, PageOf, GreatestOf
    <2>3. at' \in NextPage
        BY <2>1, <2>2
    <2>4. EventOf[m] \in Nat /\ at \in Nat /\ EventOf[m] <= at'
        BY <1>3, <1>7, PageOf DEF LoopTyped
    <2>5. CASE EventOf[m] <= at
        BY <1>1, <1>5, <1>7, <2>5 DEF PassedListed
    <2>6. CASE EventOf[m] > at
        <3>1. EventOf[m] \in NextPage
            BY <1>3, <1>7, <2>3, <2>4, <2>6, CursorPage
        <3> QED BY <1>3, <1>4, <3>1, PageLists
    <2> QED BY <2>4, <2>5, <2>6
<1> QED BY <1>6, <1>7

\* A fetch that ends has read every market open all through it, unless an event has slipped by.
LEMMA FinishedActive ==
    ASSUME TypeOK, SnapshotsKnown, FeedInv, FeedInv', AllOneWay, ActiveInv, FinishFetch
    PROVE  AllActive'
<1> USE DEF TypeOK, ActiveInv
<1>1. /\ UNCHANGED <<venue, grouped, read, was>> /\ pc = "reading" /\ pc' = "closures" /\ NextPage = {}
      /\ active' = {c.native : c \in read}
    BY DEF FinishFetch, Goto
<1> SUFFICES ASSUME ~was.slipped, NEW m \in Market \ was.shut PROVE MarketNative(m) \in {c.native : c \in read}
    BY <1>1 DEF AllActive, MarketNative, ByEvent
<1>2. now[m].status = "open" /\ EventOf[m] \in ActiveEvents
    BY <1>1, OpenUnlessShut
<1>3. IsRead(m)
    <2>1. CASE venue = "POLYMARKET_US"
        <3>1. AllAreRead'
            BY <1>1, <2>1 DEF FeedInv
        <3> QED BY <1>1, <3>1 DEF AllAreRead, IsRead
    <2>2. CASE venue = "HYPERLIQUID"
        <3>1. at # 0
            BY <1>1, <1>2, <2>2 DEF NextPage, ActiveEvents
        <3> QED BY <1>1, <2>2, <3>1 DEF PassedListed
    <2>3. CASE venue \notin {"POLYMARKET_US", "HYPERLIQUID"}
        <3>1. ~(EventOf[m] > at)
            BY <1>1, <1>2, <2>3, CursorPage
        <3>2. EventOf[m] \in Nat /\ at \in Nat
            BY <1>2, PageOf DEF LoopTyped
        <3>3. EventOf[m] <= at
            BY <3>1, <3>2
        <3> QED BY <1>1, <2>3, <3>3 DEF PassedListed
    <2> QED BY <2>1, <2>2, <2>3
<1>4. PICK c \in read : c.key.market = m
    BY <1>3 DEF IsRead
<1>5. OneWay(c)
    BY DEF ReadListed, AllOneWay
<1> QED BY <1>4, <1>5 DEF OneWay, MarketNative

\* Every step keeps it: a move of the venue is in the history, a fetch begins with what is not open in it, and what
\* ends an iteration, or a fetch that fails, leaves nothing active to go by.
LEMMA ActiveStep ==
    TypeOK /\ SnapshotsKnown /\ FeedInv /\ FeedInv' /\ AllOneWay /\ ActiveInv /\ [Next]_vars => ActiveInv'
<1> SUFFICES ASSUME TypeOK, SnapshotsKnown, FeedInv, FeedInv', AllOneWay, ActiveInv, [Next]_vars PROVE ActiveInv'
    OBVIOUS
<1> USE DEF TypeOK
<1>0. ShutKnown /\ PassedListed /\ AllActive /\ ReadListed
    BY DEF ActiveInv
<1>v. venue' = venue /\ grouped' = grouped /\ \A m \in Market : MarketNative(m)' = MarketNative(m)
    BY VenueStays DEF MarketNative, ByEvent
<1>1. CASE Moves
    <2>1. UNCHANGED <<pc, at, read, active>>
        BY <1>1, MovesFrame DEF loopVars
    <2>2. CASE UNCHANGED <<now, was>>
        BY <1>0, <1>v, <2>1, <2>2 DEF ActiveInv, ShutKnown, PassedListed, AllActive, ReadListed, IsRead
    <2>3. ASSUME NEW m \in Market, NEW status \in Statuses, NEW yes \in 0..Scale, VenueMoves(m, status, yes)
          PROVE  ActiveInv'
        <3>1. /\ was.shut \subseteq was'.shut /\ was'.listed = was.listed /\ (was.slipped => was'.slipped)
              /\ pc # "fetch" => status = "open" \/ m \in was'.shut
            BY <2>3, MoveHistory
        <3>2. now'[m].status = status /\ \A n \in Market \ {m} : now'[n] = now[n]
            BY <2>3, MovedMarket
        <3>3. ShutKnown'
            BY <1>0, <1>v, <2>1, <3>1, <3>2 DEF ShutKnown
        <3>4. PassedListed'
            BY <1>0, <1>v, <2>1, <3>1 DEF PassedListed, IsRead
        <3>5. AllActive'
            BY <1>0, <1>v, <2>1, <3>1 DEF AllActive
        <3>6. ReadListed'
            BY <1>0, <2>1, <3>1 DEF ReadListed
        <3> QED BY <3>3, <3>4, <3>5, <3>6 DEF ActiveInv
    <2> QED BY <1>1, <2>2, <2>3, MovesFrame
<1>2. CASE StartFetch
    <2>1. /\ pc' = "reading" /\ at' = 0 /\ read' = {} /\ UNCHANGED now
          /\ was'.shut = IF venue = "POLYMARKET_US" THEN was.shut ELSE Market \ OpenIn(now, Market)
        BY <1>2, StartFetchHistory DEF StartFetch, Goto, venueVars
    <2>2. \A m \in Market : EventOf[m] \in Nat /\ EventOf[m] # 0 /\ ~(EventOf[m] <= 0)
        BY AdaptersAssumption
    <2>3. ShutKnown'
        BY <1>v, <2>1 DEF ShutKnown, OpenIn
    <2>4. PassedListed'
        BY <1>v, <2>1, <2>2 DEF PassedListed
    <2>5. AllActive' /\ ReadListed'
        BY <2>1 DEF AllActive, ReadListed
    <2> QED BY <2>3, <2>4, <2>5 DEF ActiveInv
<1>3. CASE ReadPage
    <2>1. /\ UNCHANGED <<now, pc>> /\ pc = "reading" /\ read' = read \cup MapPage(NextPage)
          /\ was' = [was EXCEPT !.listed = @ \cup MapPage(NextPage)]
        BY <1>3 DEF ReadPage, venueVars
    <2>2. was'.shut = was.shut /\ was'.listed = was.listed \cup MapPage(NextPage)
        BY <2>1 DEF HistoryTyped
    <2>3. ShutKnown' /\ AllActive' /\ ReadListed'
        BY <1>0, <1>v, <2>1, <2>2 DEF ShutKnown, AllActive, ReadListed
    <2> QED BY <1>0, <1>3, <2>3, ReadPagePassed DEF ActiveInv
<1>4. CASE FinishFetch
    <2>1. /\ UNCHANGED <<now, read, was>> /\ pc = "reading" /\ pc' = "closures"
        BY <1>4 DEF FinishFetch, Goto, venueVars
    <2>2. ShutKnown' /\ PassedListed' /\ ReadListed'
        BY <1>0, <1>v, <2>1 DEF ShutKnown, PassedListed, ReadListed
    <2> QED BY <1>4, <2>2, FinishedActive DEF ActiveInv
<1>5. CASE CheckClosures \/ SettleRecent \/ Reactivate
    <2>1. /\ pc \in {"closures", "recent", "reopen"} /\ pc' \in {"recent", "reopen", "resolve"}
          /\ UNCHANGED <<now, active, was>> /\ (read' = read \/ read' = {})
        BY <1>5 DEF CheckClosures, SettleRecent, Reactivate, Goto, venueVars
    <2> QED BY <1>0, <1>v, <2>1 DEF ActiveInv, ShutKnown, PassedListed, AllActive, ReadListed
<1>6. CASE ResolveCycle \/ SkipResolve \/ ResolveFails
    <2>1. Resolving
        BY <1>6 DEF ResolveCycle, SkipResolve, ResolveFails
    <2>2. /\ UNCHANGED <<now, active, read>> /\ pc = "resolve" /\ pc' \in {"fetch", "stale"}
          /\ was'.listed = was.listed /\ (pc' = "stale" => was' = was)
        BY <2>1, ResolvingFrame DEF venueVars
    <2> QED BY <1>0, <1>v, <2>2 DEF ActiveInv, ShutKnown, PassedListed, AllActive, ReadListed
<1>7. CASE StaleCycle
    <2>1. UNCHANGED <<now, active, read, was>> /\ pc = "stale" /\ pc' = "settle"
        BY <1>7 DEF StaleCycle, Goto, venueVars
    <2> QED BY <1>0, <1>v, <2>1 DEF ActiveInv, ShutKnown, PassedListed, AllActive, ReadListed
<1>8. CASE SettleSweep \/ Restart
    <2>1. pc' = "fetch" /\ was'.listed = was.listed /\ (read' = read \/ read' = {})
        BY <1>8, NextIterationHistory DEF SettleSweep, Restart
    <2> QED BY <1>0, <2>1 DEF ActiveInv, ShutKnown, PassedListed, AllActive, ReadListed
<1>9. CASE FetchFails
    <2>1. pc = "reading" /\ pc' = "resolve" /\ active' = {} /\ read' = {} /\ UNCHANGED <<now, was>>
        BY <1>9 DEF FetchFails, Goto, venueVars
    <2> QED BY <1>0, <1>v, <2>1 DEF ActiveInv, ShutKnown, PassedListed, AllActive, ReadListed
<1>10. CASE HourPasses
    <2>1. pc' = "fetch" /\ read' = read /\ was' = [was EXCEPT !.open = HourStart.open, !.shut = HourStart.shut]
        BY <1>10 DEF HourPasses, loopVars
    <2>2. was'.listed = was.listed
        BY <2>1 DEF HistoryTyped
    <2> QED BY <1>0, <2>1, <2>2 DEF ActiveInv, ShutKnown, PassedListed, AllActive, ReadListed
<1>11. CASE UNCHANGED vars
    <2>1. UNCHANGED <<now, pc, at, read, active, was>>
        BY <1>11 DEF vars, venueVars, loopVars
    <2> QED BY <1>0, <1>v, <2>1 DEF ActiveInv, ShutKnown, PassedListed, AllActive, ReadListed, IsRead
<1> QED BY <1>1, <1>2, <1>3, <1>4, <1>5, <1>6, <1>7, <1>8, <1>9, <1>10, <1>11 DEF Next, Loop, FetchCycle

\* What a step turns off is not open, or was not all through the iteration, or an event has slipped by the fetch.
LEMMA TurnedOffStep ==
    ASSUME TypeOK, SnapshotsKnown, ActiveInv, [Next]_vars, NEW k \in on \ on'
    PROVE  now[k.market].status # "open" \/ k.market \in was.shut \/ was.slipped
<1> USE DEF TypeOK
<1>0. k \in Key /\ k.market \in Market
    BY DEF RegistryTyped, Key
<1>1. CASE ResolveCycle
    <2>1. k \in Resolved
        BY <1>1 DEF ResolveCycle, TurnOff
    <2>2. ASSUME venue = "POLYMARKET_US", NEW e \in ActiveEvents,
                 k.market \in MarketsOf(e) \ OpenIn(Source(e), MarketsOf(e))
          PROVE  k.market \in was.shut
        <3>1. Known(Source(e), was) /\ k.market \in Market
            BY <2>2, SourceKnown, PageOf DEF MarketsOf
        <3>2. Source(e)[k.market].status # "open"
            BY <2>2 DEF OpenIn
        <3> QED BY <3>1, <3>2 DEF Known
    <2> QED BY <2>1, <2>2, ResolvedOf
<1>2. CASE StaleCycle
    <2> SUFFICES ASSUME k.market \notin was.shut, ~was.slipped PROVE FALSE
        OBVIOUS
    <2>1. ~FeedGap /\ NativeOf(k) \in MissedTooOften
        BY <1>2 DEF StaleCycle, TurnOff, listVars
    <2>2. active # {} /\ NativeOf(k) \notin active /\ pc = "stale"
        BY <1>2, <2>1 DEF FeedGap, MissedTooOften, StaleCycle
    <2>3. NativeOf(k) = MarketNative(k.market)
        BY DEF NativeOf, MarketNative, ByEvent
    <2>4. MarketNative(k.market) \in active
        BY <1>0, <2>2 DEF ActiveInv, AllActive
    <2> QED BY <2>2, <2>3, <2>4
<1>3. CASE Written
    BY <1>3 DEF Written
<1>4. CASE CheckClosures \/ SettleRecent \/ SettleSweep
    <2>1. \E ids \in SUBSET Key : LookUpOrFail(ids)
        <3>1. CASE CheckClosures
            <4>1. {} \in SUBSET Key /\ left \in SUBSET Key
                BY DEF LoopTyped
            <4> QED BY <3>1, <4>1 DEF CheckClosures
        <3>2. CASE SettleRecent
            <4>1. Candidates(recent, 0, SettlePageSize) \in SUBSET Key
                BY CandidatesOf DEF RegistryTyped
            <4> QED BY <3>2, <4>1 DEF SettleRecent
        <3>3. CASE SettleSweep
            <4>1. Candidates(off \cup (IF venue = "HYPERLIQUID" THEN on ELSE {}), cursor, SettlePageSize) \in SUBSET Key
                BY CandidatesOf DEF RegistryTyped
            <4> QED BY <3>3, <4>1 DEF SettleSweep
        <3> QED BY <1>4, <3>1, <3>2, <3>3
    <2>2. Written
        BY <2>1, LookUpOrFailWrites
    <2> QED BY <1>3, <2>2
<1>5. CASE Reactivate
    BY <1>5 DEF Reactivate
<1>6. CASE ReadPage
    BY <1>6 DEF ReadPage
<1>7. CASE on' = on
    BY <1>7
<1>8. CASE Moves
    BY <1>7, <1>8, MovesFrame DEF listVars
<1>9. CASE UNCHANGED vars
    BY <1>7, <1>9 DEF vars, listVars
<1>10. CASE StartFetch \/ FinishFetch \/ SkipResolve \/ ResolveFails \/ FetchFails \/ HourPasses \/ Restart
    BY <1>7, <1>10 DEF StartFetch, FinishFetch, SkipResolve, ResolveFails, FetchFails, HourPasses, Restart, listVars
<1> QED BY <1>1, <1>2, <1>4, <1>5, <1>6, <1>8, <1>9, <1>10 DEF Next, Loop, FetchCycle

\* No cycle turns off the listing of a market that is open all through the iteration, by any of the adapters' ways to
\* learn of it: the stale cycle, which asks no venue, goes by a fetch that has read every such market, page by page in
\* whatever order and however the venue moves meanwhile, and never by one that failed.  Polymarket US's resolve cycle
\* and its fetch may go by a full event kept a while (FULL_EVENT_TTL_SECONDS), and then the market was not open within
\* that time; and an event that left its list while it was paged may have hidden another.
THEOREM OpenStays == Spec => OpenStaysOn
<1>1. TypeOK /\ SnapshotsKnown /\ ActiveInv /\ [Next]_vars =>
          [\A k \in on \ on' : now[k.market].status # "open" \/ k.market \in was.shut \/ was.slipped]_vars
    BY TurnedOffStep
<1>2. Init => AllOneWay
    BY DEF Init, AllOneWay
<1> QED BY <1>1, <1>2, InitTypeOK, NextTypeOK, InitKnown, KnownStep, InitFeed, FeedStep, AllOneWayStep, InitActive,
           ActiveStep, PTL DEF Spec, OpenStaysOn
=============================================================================
