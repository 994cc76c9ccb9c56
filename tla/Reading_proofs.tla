--------------------------- MODULE Reading_proofs ---------------------------
(***************************************************************************)
(* Proofs about Reading, for every set of securities, every release of the *)
(* readers and every page size: that the readers' version is marked only   *)
(* when every stored reading is what its readers make of it, and how the   *)
(* two sides of a binary can come to differ.                               *)
(***************************************************************************)
EXTENDS Reading, FiniteSetTheorems, WellFoundedInduction, TLAPS

-----------------------------------------------------------------------------
(* Pages.                                                                  *)

\* A set of numbers that is not empty has a least one by any measure.
LEMMA LeastBy ==
    ASSUME NEW S, S # {}, NEW measure \in [S -> Nat]
    PROVE  \E m \in S : \A s \in S : measure[m] <= measure[s]
<1> DEFINE below == {ss \in Nat \X Nat : ss[1] < ss[2]}
           values == {measure[s] : s \in S}
<1>1. IsWellFoundedOn(below, Nat)
    BY NatLessThanWellFounded DEF OpToRel
<1>2. values \subseteq Nat /\ values # {}
    OBVIOUS
<1>3. PICK least \in values : \A n \in values : <<n, least>> \notin below
    <2> HIDE DEF below, values
    <2> QED BY <1>1, <1>2, WFMin
<1>4. PICK m \in S : least = measure[m]
    BY <1>3
<1>5. ASSUME NEW s \in S PROVE measure[m] <= measure[s]
    <2>1. measure[s] \in values /\ measure[s] \in Nat /\ measure[m] \in Nat
        OBVIOUS
    <2>2. <<measure[s], measure[m]>> \notin below
        <3> HIDE DEF values
        <3> QED BY <1>3, <1>4, <2>1
    <2>3. ~(measure[s] < measure[m])
        BY <2>1, <2>2
    <2> QED BY <2>1, <2>3
<1> QED BY <1>5

\* A finite set of numbers that is not empty has a greatest.
LEMMA GreatestOf ==
    ASSUME NEW S \in SUBSET Nat, IsFiniteSet(S), S # {}
    PROVE  \E m \in S : \A s \in S : s <= m
<1> DEFINE above(s) == {t \in S : t > s}
           measure == [s \in S |-> Cardinality(above(s))]
<1>1. \A s \in S : IsFiniteSet(above(s)) /\ Cardinality(above(s)) \in Nat
    BY FS_Subset, FS_CardinalityType
<1>2. PICK m \in S : \A s \in S : Cardinality(above(m)) <= Cardinality(above(s))
    <2>1. measure \in [S -> Nat]
        BY <1>1
    <2>2. PICK m \in S : \A s \in S : measure[m] <= measure[s]
        <3> HIDE DEF measure
        <3> QED BY <2>1, LeastBy
    <2> QED BY <2>2
<1>3. ASSUME NEW s \in S PROVE s <= m
    <2>0. s \in Nat /\ m \in Nat
        OBVIOUS
    <2> SUFFICES ASSUME s > m PROVE FALSE
        BY <2>0
    <2>1. above(s) \subseteq above(m) /\ s \in above(m) /\ s \notin above(s)
        <3>1. \A t \in S : t \in Nat
            OBVIOUS
        <3>2. \A t \in S : t > s => t > m
            BY <2>0, <3>1
        <3>3. s \in above(m) /\ s \notin above(s)
            BY <2>0
        <3>4. above(s) \subseteq above(m)
            BY <3>2
        <3> QED BY <3>3, <3>4
    <2>2. Cardinality(above(s)) <= Cardinality(above(m)) /\ Cardinality(above(s)) # Cardinality(above(m))
        <3> HIDE DEF above
        <3> QED BY <1>1, <2>1, FS_Subset
    <2> QED BY <1>1, <1>2, <2>2
<1> QED BY <1>3

\* A page and what follows it.
LEMMA AfterOf ==
    ASSUME NEW S \in SUBSET Nat, IsFiniteSet(S), NEW limit \in Nat \ {0}, NEW after \in Nat
    PROVE  LET page == Page(S, limit, after)
           IN  /\ page \subseteq S /\ IsFiniteSet(page) /\ Cardinality(page) \in Nat
               /\ After(page, limit) \in Nat
               /\ Cardinality(page) = limit =>
                      After(page, limit) \in page /\ \A s \in page : s <= After(page, limit)
               /\ Cardinality(page) # limit => After(page, limit) = 0
<1> DEFINE page == Page(S, limit, after)
<1>1. page \subseteq S
    BY DEF Page
<1> HIDE DEF page
<1>2. IsFiniteSet(page) /\ Cardinality(page) \in Nat
    BY <1>1, FS_Subset, FS_CardinalityType
<1>3. ASSUME Cardinality(page) = limit
      PROVE  After(page, limit) \in page /\ \A s \in page : s <= After(page, limit)
    <2>1. page # {}
        BY <1>3, FS_EmptySet
    <2>2. \E m \in page : \A s \in page : s <= m
        BY <1>1, <1>2, <2>1, GreatestOf
    <2> QED BY <1>3, <2>2 DEF After
<1>4. Cardinality(page) # limit => After(page, limit) = 0
    BY DEF After
<1>5. After(page, limit) \in Nat
    <2>1. CASE Cardinality(page) = limit
        <3>1. After(page, limit) \in S
            BY <1>1, <1>3, <2>1
        <3> QED BY <3>1
    <2>2. CASE Cardinality(page) # limit
        BY <1>4, <2>2
    <2> QED BY <2>1, <2>2
<1> QED BY <1>1, <1>2, <1>3, <1>4, <1>5 DEF page

\* Nothing is skipped: whatever comes after `after` is in the page, or after where the walk goes next.
LEMMA PageReaches ==
    ASSUME NEW S \in SUBSET Nat, IsFiniteSet(S), NEW limit \in Nat \ {0}, NEW after \in Nat,
           NEW f \in S, f > after,
           After(Page(S, limit, after), limit) = 0 \/ f <= After(Page(S, limit, after), limit)
    PROVE  f \in Page(S, limit, after)
<1> DEFINE later   == {s \in S : s > after}
           upTo(s) == {t \in later : t <= s}
           page    == Page(S, limit, after)
           next    == After(page, limit)
<1>1. page = {s \in later : Cardinality(upTo(s)) <= limit}
    BY DEF Page
<1>2. IsFiniteSet(later) /\ later \subseteq Nat /\ f \in later
    BY FS_Subset
<1>3. \A s \in later : IsFiniteSet(upTo(s)) /\ Cardinality(upTo(s)) \in Nat
    BY <1>2, FS_Subset, FS_CardinalityType
<1>4. /\ page \subseteq S /\ IsFiniteSet(page) /\ Cardinality(page) \in Nat
      /\ Cardinality(page) = limit => next \in page /\ \A s \in page : s <= next
      /\ Cardinality(page) # limit => next = 0
    BY AfterOf
<1>5. ASSUME NEW s \in later, NEW t \in later, s <= t
      PROVE  Cardinality(upTo(s)) <= Cardinality(upTo(t))
    <2>1. upTo(s) \subseteq upTo(t)
        BY <1>2, <1>5
    <2> HIDE DEF upTo
    <2> QED BY <1>3, <2>1, FS_Subset
<1> SUFFICES ASSUME f \notin page PROVE FALSE
    OBVIOUS
<1>6. PICK u \in later \ page : \A s \in later \ page : u <= s
    <2>1. later \ page # {} /\ \A s \in later \ page : s \in Nat
        BY <1>2
    <2> DEFINE itself == [s \in later \ page |-> s]
    <2>2. itself \in [later \ page -> Nat]
        BY <2>1
    <2>3. \E m \in later \ page : \A s \in later \ page : itself[m] <= itself[s]
        <3> HIDE DEF itself, later, page
        <3> QED BY <2>1, <2>2, LeastBy
    <2> QED BY <2>3
<1>7. Cardinality(upTo(u)) > limit
    BY <1>1, <1>3, <1>6
<1>8. \A s \in page : s \in later /\ s < u
    <2> SUFFICES ASSUME NEW s \in page PROVE s \in later /\ ~(u <= s)
        BY <1>2, <1>6
    <2>1. s \in later /\ Cardinality(upTo(s)) <= limit
        BY <1>1
    <2> HIDE DEF upTo, page, later
    <2> QED BY <1>3, <1>5, <1>6, <1>7, <2>1
<1>9. upTo(u) = page \cup {u}
    BY <1>2, <1>6, <1>8
<1>10. Cardinality(upTo(u)) = Cardinality(page) + 1
    <2>1. u \notin page /\ IsFiniteSet(page)
        BY <1>4
    <2> HIDE DEF upTo, page, later
    <2> QED BY <1>9, <2>1, FS_AddElement
<1>11. Cardinality(page) <= limit
    <2>1. CASE page = {}
        <3> HIDE DEF page
        <3>1. Cardinality(page) = 0
            BY <1>4, <2>1, FS_EmptySet, Zenon
        <3> QED BY <3>1
    <2>2. CASE page # {}
        <3>1. PICK m \in page : \A s \in page : s <= m
            <4> HIDE DEF page
            <4> QED BY <1>4, <2>2, GreatestOf
        <3>2. page \subseteq upTo(m) /\ m \in later /\ Cardinality(upTo(m)) <= limit
            BY <1>1, <1>8, <3>1
        <3>3. IsFiniteSet(upTo(m)) /\ Cardinality(upTo(m)) \in Nat
            BY <1>3, <3>2
        <3>4. Cardinality(page) <= Cardinality(upTo(m))
            <4> HIDE DEF page, upTo
            <4> QED BY <3>2, <3>3, FS_Subset
        <3> HIDE DEF page, upTo, later
        <3> QED BY <1>4, <3>2, <3>3, <3>4
    <2> QED BY <2>1, <2>2
<1>12. Cardinality(page) = limit
    <2>1. Cardinality(page) \in Nat
        BY <1>4
    <2> HIDE DEF upTo, page
    <2> QED BY <1>7, <1>10, <1>11, <2>1
<1>13. next \in page /\ next \in later /\ next # 0
    BY <1>1, <1>2, <1>4, <1>12
<1>14. f <= next
    BY <1>13
<1>15. Cardinality(upTo(f)) <= Cardinality(upTo(next)) /\ Cardinality(upTo(next)) <= limit
    <2>1. Cardinality(upTo(next)) <= limit
        BY <1>1, <1>13
    <2> HIDE DEF upTo, page, later, next
    <2> QED BY <1>2, <1>5, <1>13, <1>14, <2>1
<1> HIDE DEF upTo
<1> QED BY <1>1, <1>2, <1>3, <1>13, <1>15

-----------------------------------------------------------------------------
(* Type correctness.                                                       *)

Steps == {"idle", "backlog", "recheck", "sides", "read", "record", "store", "end"}
Jobs  == {"messages", "backlog", "recheck"}

Attempts ==
    [hash : Nat, version : Nat, reason : {"FAILED", "NEEDS_LLM"}, count : Nat, left : Nat, readers : Nat]

\* A proposition of a security, of a source it has had.
PropositionOf(s, p) == p \in Propositions /\ p.hash <= source[s]

OutsideTyped ==
    /\ source \in [Securities -> Nat] /\ \A f \in Firsts : source[f] <= MaxSource[f]
    /\ attempt \in [Securities -> Attempts \cup {None}]
    /\ messages \subseteq Securities
    /\ llm \in BOOLEAN
    /\ readers \in 1..MaxReaders /\ extractor \in 1..MaxExtractor /\ marker \in 0..readers
    /\ accidents \in 0..MaxAccidents /\ failures \in 0..MaxFailures

StoredTyped ==
    /\ stored \in [Securities -> Propositions \cup {None}]
    /\ \A s \in Securities : stored[s] # None => PropositionOf(s, stored[s])

WalksTyped == backlogAfter \in Nat /\ recheckAfter \in Nat \cup {None} /\ following \in Nat

JobTyped ==
    /\ step \in Steps /\ job \in Jobs \cup {None}
    /\ step # "idle" => job \in Jobs
    /\ batch \subseteq Securities
    /\ due \subseteq Opened
    /\ DOMAIN items \subseteq Securities /\ \A s \in DOMAIN items : items[s] \in 1..source[s]
    /\ DOMAIN partners \subseteq Seconds /\ \A s \in DOMAIN partners : partners[s] \in Propositions
    /\ DOMAIN outcome \subseteq Securities /\ (step = "record" => DOMAIN outcome \subseteq DOMAIN items)
    /\ \A s \in DOMAIN outcome : outcome[s].got = None \/ PropositionOf(s, outcome[s].got)
    /\ DOMAIN rows \subseteq Securities /\ \A s \in DOMAIN rows : PropositionOf(s, rows[s])
    /\ DOMAIN fixes \subseteq Securities
    /\ \A s \in DOMAIN fixes : PropositionOf(s, fixes[s]) /\ stored[s] # None

TypeOK == OutsideTyped /\ StoredTyped /\ WalksTyped /\ JobTyped

-----------------------------------------------------------------------------
(* The invariant behind the marker.                                        *)

\* What the running readers make of the first side f of a source, or of the model's reading of it.
Good(f, p) ==
    LET code == Reads[<<readers, f, p.hash>>]
    IN  IF code # None THEN p.reading.by = code /\ p.method = "VENUE"
        ELSE p.method = "LLM" => p.reading.by = Corrected[readers]

\* Whatever is at hand was read by the running readers.
AtHandIsGood ==
    /\ \A f \in Firsts \cap DOMAIN outcome : outcome[f].got # None => Good(f, outcome[f].got)
    /\ \A f \in Firsts \cap DOMAIN rows : Good(f, rows[f])
    /\ \A f \in Firsts \cap DOMAIN fixes : Good(f, fixes[f])

Settled(f) == stored[f] # None /\ stored[f].hash = source[f]

CodeReads(f) == Reads[<<readers, f, source[f]>>] # None

\* What the walk has passed is good.
PassedIsGood ==
    \A f \in Firsts : Settled(f) /\ (recheckAfter = None \/ f <= recheckAfter) => Good(f, stored[f])

\* A reading that the page being re-checked has still to replace.
Pending(f) ==
    \/ f \in DOMAIN fixes
    \/ step = "sides" /\ f \in due /\ CodeReads(f)
    \/ step = "read" /\ f \in DOMAIN items /\ items[f] = source[f] /\ CodeReads(f)
    \/ step = "record" /\ f \in DOMAIN outcome /\ outcome[f].got # None
    \/ step = "store" /\ f \in DOMAIN rows

\* What the page reaches is good, or will be when the page is done.
PageIsGood ==
    job = "recheck" /\ step \in {"sides", "read", "record", "store"} =>
        /\ recheckAfter # None
        /\ \A f \in Firsts : Settled(f) /\ (following = 0 \/ f <= following) => Good(f, stored[f]) \/ Pending(f)

WalkInv ==
    /\ marker = readers => recheckAfter = None
    /\ AtHandIsGood /\ PassedIsGood /\ PageIsGood

-----------------------------------------------------------------------------

\* A page of open securities, and where the walk goes after it.
LEMMA PageOf ==
    ASSUME TypeOK, NEW S \in SUBSET Opened, NEW limit \in Nat \ {0}, NEW after \in Nat
    PROVE  /\ Page(S, limit, after) \subseteq S /\ After(Page(S, limit, after), limit) \in Nat
           /\ S \in SUBSET Nat /\ IsFiniteSet(S)
<1>1. S \subseteq Securities /\ S \in SUBSET Nat
    BY ReadingAssumption DEF Opened, Securities
<1>2. IsFiniteSet(S)
    BY <1>1, FS_Subset, ReadingAssumption
<1>3. Page(S, limit, after) \subseteq S
    BY DEF Page
<1>4. After(Page(S, limit, after), limit) \in Nat
    BY <1>1, <1>2, AfterOf, Zenon
<1> QED BY <1>1, <1>2, <1>3, <1>4

\* How the reading of some securities begins.
LEMMA ReadNextFrame ==
    ASSUME NEW which \in Jobs, NEW ids \in SUBSET Securities, NEW reread, ReadNext(which, ids, reread)
    PROVE  /\ job' = which /\ step' \in {"sides", "store"} /\ due' \subseteq Opened
           /\ items' = Empty /\ partners' = Empty /\ outcome' = Empty /\ rows' = Empty
BY DEF ReadNext, Opened

\* Nothing is in an empty function.
LEMMA EmptyOf == DOMAIN Empty = {}
BY DEF Empty

\* What may come of a first side that is read.
LEMMA OutcomesOf ==
    ASSUME TypeOK, NEW f \in Firsts \cap DOMAIN items, NEW o \in Outcomes(f)
    PROVE  /\ o.got # None => PropositionOf(f, o.got) /\ o.got.hash = items[f] /\ Good(f, o.got)
           /\ Reads[<<readers, f, items[f]>>] # None => o.got # None
<1> DEFINE code == Reads[<<readers, f, items[f]>>]
           of(what, method) == Proposition([by |-> what, negated |-> FALSE], method, items[f])
<1>1. /\ items[f] \in 1..source[f] /\ source[f] \in Nat /\ source[f] <= MaxSource[f] /\ MaxSource[f] \in Nat
      /\ readers \in 1..MaxReaders /\ extractor \in Nat
    BY ReadingAssumption DEF TypeOK, OutsideTyped, JobTyped, Securities
<1>2. code \in Bys /\ Corrected[readers] \in Bys
    <2>1. items[f] \in 1..MaxSource[f]
        BY <1>1
    <2> QED BY <1>1, <2>1, ReadingAssumption DEF Bys, Range
<1>3. ASSUME NEW what \in Bys, NEW method \in {"VENUE", "LLM"}
      PROVE  /\ of(what, method) \in Propositions /\ of(what, method).hash = items[f]
             /\ of(what, method).reading.by = what /\ of(what, method).method = method
             /\ of(what, method) # None
    <2>1. of(what, method) = [reading |-> [by |-> what, negated |-> FALSE], method |-> method,
                              hash |-> items[f], version |-> extractor]
        BY DEF Proposition
    <2>2. items[f] \in Nat \ {0} /\ extractor \in Nat
        BY <1>1
    <2>3. of(what, method) \in Propositions
        <3> HIDE DEF of
        <3> QED BY <1>3, <2>1, <2>2 DEF Propositions
    <2>4. of(what, method) # None
        BY <2>3, ReadingAssumption
    <2> HIDE DEF of
    <2> QED BY <2>1, <2>3, <2>4
<1>4. ASSUME NEW what \in Bys, NEW method \in {"VENUE", "LLM"}, o = Read(of(what, method)),
             IF code # None THEN what = code /\ method = "VENUE" ELSE what = Corrected[readers]
      PROVE  /\ o.got # None /\ PropositionOf(f, o.got) /\ o.got.hash = items[f] /\ Good(f, o.got)
    <2> HIDE DEF of
    <2>1. o.got = of(what, method)
        BY <1>4 DEF Read
    <2> QED BY <1>1, <1>3, <1>4, <2>1 DEF PropositionOf, Good
<1>5. CASE code # None
    <2>1. o = Read(of(code, "VENUE"))
        BY <1>5 DEF Outcomes
    <2> HIDE DEF of, code
    <2> QED BY <1>2, <1>4, <1>5, <2>1
<1>6. CASE code = None
    <2>1. \/ o = Read(of(Corrected[readers], "LLM"))
          \/ \E why : o = Unread(why)
        BY <1>6 DEF Outcomes
    <2>2. (\E why : o = Unread(why)) => o.got = None
        BY DEF Unread
    <2> HIDE DEF of
    <2>3. o = Read(of(Corrected[readers], "LLM")) =>
              o.got # None /\ PropositionOf(f, o.got) /\ o.got.hash = items[f] /\ Good(f, o.got)
        BY <1>2, <1>4, <1>6
    <2> QED BY <1>6, <2>1, <2>2, <2>3
<1> QED BY <1>5, <1>6

\* An attempt is recorded with its source, its wait and its version.
LEMMA AttemptOf ==
    ASSUME TypeOK, NEW s \in Securities, NEW hash \in Nat
    PROVE  Failed(s, hash) \in Attempts /\ Parked(hash) \in Attempts
<1> DEFINE before == IF Current(s, hash) /\ attempt[s].reason = "FAILED" THEN attempt[s].count ELSE 0
           count  == IF before > Len(Backoff) THEN before ELSE before + 1
<1>1. extractor \in Nat /\ readers \in Nat /\ Week \in Nat /\ Backoff \in Seq(Nat) /\ Len(Backoff) \in Nat
    BY ReadingAssumption DEF TypeOK, OutsideTyped
<1>2. before \in Nat
    <2>1. Current(s, hash) => attempt[s].count \in Nat
        BY DEF Current, TypeOK, OutsideTyped, Attempts
    <2> QED BY <2>1
<1>3. count \in Nat \ {0}
    <2> HIDE DEF before
    <2> QED BY <1>1, <1>2
<1>4. WaitSeconds(count) \in Nat
    <2> HIDE DEF count
    <2> QED BY <1>1, <1>3 DEF WaitSeconds
<1>5. Failed(s, hash) = [hash |-> hash, version |-> extractor, reason |-> "FAILED", count |-> count,
                         left |-> WaitSeconds(count), readers |-> 0]
    BY DEF Failed
<1> HIDE DEF count
<1> QED BY <1>1, <1>3, <1>4, <1>5 DEF Attempts, Parked

\* A market's source is written for both of its sides, and never before it was written as often before.
LEMMA SourcesGrow ==
    ASSUME TypeOK, SourceWritten
    PROVE  /\ source' \in [Securities -> Nat] /\ \A f \in Firsts : source'[f] <= MaxSource[f]
           /\ \A s \in Securities : source[s] <= source'[s]
           /\ \A f \in Firsts : source'[f] = source[f] \/ source'[f] = source[f] + 1
<1>1. PICK f \in Firsts :
          /\ source[f] < MaxSource[f]
          /\ source' = [s \in Securities |-> IF s \in {f} \cup {t \in Seconds : FirstOf[t] = f}
                                            THEN source[s] + 1 ELSE source[s]]
    BY DEF SourceWritten
<1>2. source \in [Securities -> Nat] /\ (\A g \in Firsts : source[g] <= MaxSource[g] /\ MaxSource[g] \in Nat)
    BY ReadingAssumption DEF TypeOK, OutsideTyped
<1>3. \A s \in Securities : source[s] \in Nat /\ (source'[s] = source[s] \/ source'[s] = source[s] + 1)
    BY <1>1, <1>2
<1>4. \A g \in Firsts : g # f => source'[g] = source[g]
    BY <1>1, ReadingAssumption DEF Securities
<1>5. source' \in [Securities -> Nat]
    BY <1>1, <1>3
<1>6. \A g \in Firsts : source'[g] <= MaxSource[g]
    <2> SUFFICES ASSUME NEW g \in Firsts PROVE source'[g] <= MaxSource[g]
        OBVIOUS
    <2>1. g \in Securities /\ source[g] \in Nat /\ source[g] <= MaxSource[g] /\ MaxSource[g] \in Nat
        BY <1>2 DEF Securities
    <2> QED BY <1>1, <1>3, <1>4, <2>1
<1> QED BY <1>3, <1>5, <1>6 DEF Securities

\* Every step keeps the markets, the releases and the attempts in their type.
LEMMA OutsideStep == TypeOK /\ [Next]_vars => OutsideTyped'
<1> SUFFICES ASSUME TypeOK, [Next]_vars PROVE OutsideTyped'
    OBVIOUS
<1>1. OutsideTyped
    BY DEF TypeOK
<1>2. MaxReaders \in Nat /\ MaxExtractor \in Nat /\ MaxAccidents \in Nat /\ MaxFailures \in Nat
    BY ReadingAssumption
<1>3. CASE Receive \/ StartBacklog \/ Recheck \/ Sides \/ Extract \/ StoreChunk \/ StoreFixes \/ NothingToRecheck
           \/ UNCHANGED vars
    <2>1. UNCHANGED <<outside, attempt, messages, marker>>
        BY <1>3 DEF Receive, StartBacklog, Backlog, Recheck, Sides, Extract, StoreChunk, StoreFixes, NothingToRecheck,
                    vars, outside
    <2> QED BY <1>1, <2>1 DEF OutsideTyped, outside
<1>4. CASE Record
    <2>1. UNCHANGED <<outside, messages, marker>>
        BY <1>4 DEF Record
    <2>2. ASSUME NEW s \in Securities PROVE attempt[s] \in Attempts \cup {None}
        BY <1>1 DEF OutsideTyped
    <2>3. ASSUME NEW s \in DOMAIN outcome
          PROVE  s \in Securities /\ Failed(s, items[s]) \in Attempts /\ Parked(items[s]) \in Attempts
        <3>1. step = "record"
            BY <1>4 DEF Record
        <3>2. s \in DOMAIN items /\ s \in Securities /\ items[s] \in 1..source[s] /\ source[s] \in Nat
            BY <1>1, <2>3, <3>1 DEF TypeOK, JobTyped, OutsideTyped
        <3> QED BY <3>2, AttemptOf
    <2>4. \/ attempt' = attempt
          \/ attempt' = [s \in Securities |->
                          IF s \notin DOMAIN outcome THEN attempt[s]
                          ELSE IF outcome[s].got # None THEN None
                          ELSE IF outcome[s].why = "failed" THEN Failed(s, items[s])
                          ELSE IF outcome[s].why = "needs llm" THEN Parked(items[s])
                          ELSE attempt[s]]
        BY <1>4 DEF Record
    <2>5. attempt' \in [Securities -> Attempts \cup {None}]
        <3>1. CASE attempt' = attempt
            BY <1>1, <3>1 DEF OutsideTyped
        <3>2. CASE attempt' # attempt
            BY <2>2, <2>3, <2>4, <3>2
        <3> QED BY <3>1, <3>2
    <2> QED BY <1>1, <2>1, <2>5 DEF OutsideTyped, outside
<1>5. CASE ReadDone
    <2>1. UNCHANGED <<outside, attempt, messages>> /\ marker' \in {marker, readers}
        BY <1>5 DEF ReadDone
    <2> QED BY <1>1, <2>1, <1>2 DEF OutsideTyped, outside
<1>6. CASE PassEnds
    <2>1. /\ UNCHANGED <<source, attempt, marker, llm, readers, extractor, accidents>>
          /\ messages' \subseteq messages \cup batch
          /\ failures' = failures \/ (failures < MaxFailures /\ failures' = failures + 1)
        BY <1>6 DEF PassEnds
    <2>2. batch \subseteq Securities
        BY DEF TypeOK, JobTyped
    <2> QED BY <1>1, <1>2, <2>1, <2>2 DEF OutsideTyped
<1>7. CASE PassFails
    <2>1. /\ UNCHANGED <<source, attempt, messages, marker, llm, readers, extractor, accidents>>
          /\ failures < MaxFailures /\ failures' = failures + 1
        BY <1>7 DEF PassFails
    <2> QED BY <1>1, <1>2, <2>1 DEF OutsideTyped
<1>8. CASE Restarts
    <2>1. PICK r \in readers..MaxReaders, e \in extractor..MaxExtractor :
              /\ readers' = r /\ extractor' = e
              /\ failures' = failures \/ (failures < MaxFailures /\ failures' = failures + 1)
        BY <1>8 DEF Restarts
    <2>2. UNCHANGED <<source, attempt, messages, marker, llm, accidents>>
        BY <1>8 DEF Restarts
    <2> QED BY <1>1, <1>2, <2>1, <2>2 DEF OutsideTyped
<1>9. CASE SourceWritten
    <2>1. UNCHANGED <<attempt, marker, llm, readers, extractor, accidents, failures>>
        BY <1>9 DEF SourceWritten
    <2>2. messages' \subseteq Securities
        <3>1. PICK f \in Firsts : \E sent \in SUBSET ({f} \cup {s \in Seconds : FirstOf[s] = f}) : messages' = messages \cup sent
            BY <1>9 DEF SourceWritten
        <3> QED BY <1>1, <3>1 DEF OutsideTyped, Securities
    <2> QED BY <1>1, <1>9, <2>1, <2>2, SourcesGrow DEF OutsideTyped
<1>10. CASE LlmFlips
    <2>1. /\ UNCHANGED <<source, attempt, messages, marker, readers, extractor, failures>>
          /\ accidents < MaxAccidents /\ accidents' = accidents + 1 /\ llm' = ~llm
        BY <1>10 DEF LlmFlips
    <2>2. llm' \in BOOLEAN
        BY <2>1
    <2>3. accidents' \in 0..MaxAccidents
        BY <1>1, <1>2, <2>1 DEF OutsideTyped
    <2> QED BY <1>1, <2>1, <2>2, <2>3 DEF OutsideTyped
<1>11. CASE AttemptLost
    <2>1. /\ UNCHANGED <<source, messages, marker, llm, readers, extractor, failures>>
          /\ accidents < MaxAccidents /\ accidents' = accidents + 1
          /\ \E s \in Securities : attempt' = [attempt EXCEPT ![s] = None]
        BY <1>11 DEF AttemptLost
    <2>2. attempt' \in [Securities -> Attempts \cup {None}]
        BY <1>1, <2>1 DEF OutsideTyped
    <2>3. accidents' \in 0..MaxAccidents
        BY <1>1, <1>2, <2>1 DEF OutsideTyped
    <2> QED BY <1>1, <2>1, <2>2, <2>3 DEF OutsideTyped
<1>12. CASE Tick
    <2>1. UNCHANGED <<source, messages, marker, llm, readers, extractor, accidents, failures>>
        BY <1>12 DEF Tick
    <2>2. attempt' = [s \in Securities |-> IF attempt[s] = None \/ attempt[s].left = 0 THEN attempt[s]
                                          ELSE [attempt[s] EXCEPT !.left = @ - 1]]
        BY <1>12 DEF Tick
    <2>3. ASSUME NEW s \in Securities, attempt[s] # None, attempt[s].left # 0
          PROVE  [attempt[s] EXCEPT !.left = @ - 1] \in Attempts
        <3>1. attempt[s] \in Attempts
            BY <1>1, <2>3 DEF OutsideTyped
        <3>2. attempt[s].left - 1 \in Nat
            BY <2>3, <3>1 DEF Attempts
        <3> QED BY <3>1, <3>2 DEF Attempts
    <2>4. \A s \in Securities : attempt[s] \in Attempts \cup {None}
        BY <1>1 DEF OutsideTyped
    <2>5. attempt' \in [Securities -> Attempts \cup {None}]
        BY <2>2, <2>3, <2>4
    <2> QED BY <1>1, <2>1, <2>5 DEF OutsideTyped
<1> QED BY <1>3, <1>4, <1>5, <1>6, <1>7, <1>8, <1>9, <1>10, <1>11, <1>12 DEF Next, Worker, Pass

\* Every step keeps what is stored in its type.
LEMMA StoredStep == TypeOK /\ [Next]_vars => StoredTyped'
<1> SUFFICES ASSUME TypeOK, [Next]_vars PROVE StoredTyped'
    OBVIOUS
<1>1. StoredTyped
    BY DEF TypeOK
<1>2. CASE StoreChunk
    <2>1. PICK chunk : stored' = [s \in Securities |-> IF s \in chunk THEN rows[s] ELSE stored[s]] /\ chunk \subseteq DOMAIN rows
        <3>1. Page(DOMAIN rows, ChunkRows, 0) \subseteq DOMAIN rows
            BY DEF Page
        <3> QED BY <1>2, <3>1 DEF StoreChunk
    <2>2. UNCHANGED source
        BY <1>2 DEF StoreChunk, outside
    <2>3. \A s \in DOMAIN rows : PropositionOf(s, rows[s])
        BY DEF TypeOK, JobTyped
    <2> QED BY <1>1, <2>1, <2>2, <2>3 DEF StoredTyped, PropositionOf
<1>3. CASE SourceWritten
    <2>1. UNCHANGED stored
        BY <1>3 DEF SourceWritten
    <2>2. ASSUME NEW s \in Securities, NEW p, PropositionOf(s, p) PROVE PropositionOf(s, p)'
        <3>1. source[s] \in Nat /\ source'[s] \in Nat /\ source[s] <= source'[s]
            BY <1>3, SourcesGrow DEF TypeOK, OutsideTyped
        <3> QED BY <2>2, <3>1 DEF PropositionOf, Propositions
    <2> QED BY <1>1, <2>1, <2>2 DEF StoredTyped
<1>4. CASE ~(StoreChunk \/ SourceWritten)
    <2>1. UNCHANGED <<stored, source>>
        BY <1>4 DEF Next, Worker, Pass, Receive, StartBacklog, Backlog, Recheck, Sides, Extract, Record, StoreFixes, ReadDone,
                    NothingToRecheck, PassEnds, PassFails, Restarts, LlmFlips, AttemptLost, Tick, vars, outside
    <2> QED BY <1>1, <2>1 DEF StoredTyped, PropositionOf
<1> QED BY <1>2, <1>3, <1>4

\* Every step keeps the walks' positions in their type.
LEMMA WalksStep == TypeOK /\ [Next]_vars => WalksTyped'
<1> SUFFICES ASSUME TypeOK, [Next]_vars PROVE WalksTyped'
    OBVIOUS
<1>1. WalksTyped
    BY DEF TypeOK
<1>2. CASE StartBacklog
    <2>1. UNCHANGED walks /\ following' = After(Page({s \in Opened : ~IsCurrent(s)}, BacklogLimit, backlogAfter), BacklogLimit)
        BY <1>2 DEF StartBacklog, Backlog
    <2>2. following' \in Nat
        BY <1>1, <2>1, PageOf, ReadingAssumption DEF WalksTyped
    <2> QED BY <1>1, <2>1, <2>2 DEF WalksTyped, walks
<1>3. CASE Recheck
    <2>1. UNCHANGED walks /\ recheckAfter # None /\ following' = After(Page(Opened, RecheckPage, recheckAfter), RecheckPage)
        BY <1>3 DEF Recheck
    <2>2. recheckAfter \in Nat
        BY <1>1, <2>1 DEF WalksTyped
    <2>3. following' \in Nat
        BY <2>1, <2>2, PageOf, ReadingAssumption
    <2> QED BY <1>1, <2>1, <2>3 DEF WalksTyped, walks
<1>4. CASE ReadDone
    BY <1>1, <1>4 DEF ReadDone, walks, WalksTyped
<1>5. CASE PassEnds \/ PassFails \/ Restarts
    BY <1>1, <1>5 DEF PassEnds, PassFails, Restarts, Rest, walks, WalksTyped
<1>6. CASE Receive \/ Sides \/ Extract \/ Record \/ StoreChunk \/ StoreFixes \/ NothingToRecheck \/ SourceWritten \/ LlmFlips
           \/ AttemptLost \/ Tick \/ UNCHANGED vars
    <2>1. UNCHANGED <<walks, following>>
        BY <1>6 DEF Receive, Sides, Extract, Record, StoreChunk, StoreFixes, NothingToRecheck, SourceWritten, LlmFlips,
                    AttemptLost, Tick, vars, jobVars, walks
    <2> QED BY <1>1, <2>1 DEF WalksTyped, walks
<1> QED BY <1>2, <1>3, <1>4, <1>5, <1>6 DEF Next, Worker, Pass

\* With nothing to read at hand, what is at hand is typed.
LEMMA NothingAtHand ==
    ASSUME NEW which \in Jobs \cup {None}, job' = which, step' \in Steps,
           step' # "idle" => which \in Jobs,
           batch' \subseteq Securities, due' \subseteq Opened', items' = Empty, partners' = Empty, outcome' = Empty,
           rows' = Empty, DOMAIN fixes' \subseteq Securities,
           \A s \in DOMAIN fixes' : fixes'[s] \in Propositions /\ fixes'[s].hash <= source'[s] /\ stored'[s] # None
    PROVE  JobTyped'
BY EmptyOf DEF JobTyped, PropositionOf

\* A second side says the opposite of its first.
LEMMA OfFirstOf ==
    ASSUME TypeOK, NEW s \in Seconds \cap DOMAIN items, NEW of,
           \A f \in Firsts \cap DOMAIN items : of[f].got = None \/ PropositionOf(f, of[f].got)
    PROVE  OfFirst(s, of).got = None \/ PropositionOf(s, OfFirst(s, of).got)
<1>1. items[s] \in Nat \ {0} /\ items[s] <= source[s] /\ extractor \in Nat /\ FirstOf[s] \in Firsts
    BY ReadingAssumption DEF TypeOK, OutsideTyped, JobTyped, Securities
<1>2. ASSUME NEW p \in Propositions PROVE Negation(p.reading) \in [by : Bys, negated : BOOLEAN]
    BY DEF Propositions, Negation
<1>3. CASE FirstOf[s] \in DOMAIN items
    <2>1. CASE of[FirstOf[s]].got = None
        BY <1>3, <2>1 DEF OfFirst
    <2>2. CASE of[FirstOf[s]].got # None
        <3> DEFINE p == of[FirstOf[s]].got
        <3>1. p \in Propositions
            BY <1>1, <1>3, <2>2 DEF PropositionOf
        <3>2. OfFirst(s, of).got = [p EXCEPT !.hash = items[s], !.reading = Negation(@)]
            BY <1>3, <2>2 DEF OfFirst, Read
        <3> HIDE DEF p
        <3>3. [p EXCEPT !.hash = items[s], !.reading = Negation(@)] \in Propositions
            BY <1>1, <1>2, <3>1 DEF Propositions
        <3>4. [p EXCEPT !.hash = items[s], !.reading = Negation(@)].hash = items[s]
            BY <3>1 DEF Propositions
        <3> QED BY <1>1, <3>2, <3>3, <3>4 DEF PropositionOf
    <2> QED BY <2>1, <2>2
<1>4. CASE FirstOf[s] \notin DOMAIN items /\ s \in DOMAIN partners
    <2>1. partners[s] \in Propositions
        BY <1>4 DEF TypeOK, JobTyped
    <2>2. OfFirst(s, of).got = [reading |-> Negation(partners[s].reading), method |-> partners[s].method,
                                hash |-> items[s], version |-> extractor]
        BY <1>4 DEF OfFirst, Read, Proposition
    <2>3. partners[s].method \in {"VENUE", "LLM"} /\ Negation(partners[s].reading) \in [by : Bys, negated : BOOLEAN]
        BY <1>2, <2>1 DEF Propositions
    <2> QED BY <1>1, <2>2, <2>3 DEF PropositionOf, Propositions
<1>5. CASE FirstOf[s] \notin DOMAIN items /\ s \notin DOMAIN partners
    BY <1>5 DEF OfFirst, Unread
<1> QED BY <1>3, <1>4, <1>5

\* What is planned to be read has a source, and a second side that takes what is stored finds it.
LEMMA SidesFrame ==
    ASSUME TypeOK, Sides
    PROVE  /\ DOMAIN items' \subseteq Opened /\ due \subseteq DOMAIN items' /\ \A s \in DOMAIN items' : items'[s] = source[s]
           /\ DOMAIN partners' \subseteq Seconds /\ \A s \in DOMAIN partners' : partners'[s] \in Propositions
<1> DEFINE withSeconds == due \cup {s \in Seconds : FirstOf[s] \in due /\ source[s] # 0}
           alone == {s \in due : Second(s) /\ FirstOf[s] \notin withSeconds /\ source[FirstOf[s]] # 0}
           held  == {s \in alone : stored[FirstOf[s]] # None /\ stored[FirstOf[s]].hash = source[FirstOf[s]]}
           also  == {f \in {FirstOf[s] : s \in alone \ held} : job = "recheck" \/ ~Waiting(f, source[f], llm)}
<1>1. items' = [s \in withSeconds \cup also |-> source[s]] /\ partners' = [s \in held |-> stored[FirstOf[s]]]
    BY DEF Sides
<1>2. due \subseteq Opened
    BY DEF TypeOK, JobTyped
<1>3. withSeconds \subseteq Opened
    BY <1>2 DEF Opened, Securities
<1>4. \A s \in alone : s \in Seconds /\ FirstOf[s] \in Opened
    BY ReadingAssumption DEF Opened, Securities, Second
<1>5. also \subseteq Opened
    BY <1>4
<1>6. \A s \in held : s \in Seconds /\ stored[FirstOf[s]] \in Propositions
    BY <1>4 DEF TypeOK, StoredTyped, Opened
<1> HIDE DEF withSeconds, also, held
<1>7. DOMAIN items' = withSeconds \cup also /\ DOMAIN partners' = held
    BY <1>1
<1>8. due \subseteq withSeconds
    BY DEF withSeconds
<1> QED BY <1>1, <1>3, <1>5, <1>6, <1>7, <1>8

\* Every step keeps what is at hand in its type.
LEMMA JobStep == TypeOK /\ [Next]_vars => JobTyped'
<1> SUFFICES ASSUME TypeOK, [Next]_vars PROVE JobTyped'
    OBVIOUS
<1>1. JobTyped
    BY DEF TypeOK
<1>2. CASE Receive
    <2>1. PICK S \in SUBSET messages : batch' = S /\ ReadNext("messages", S, {})
        BY <1>2 DEF Receive
    <2>2. UNCHANGED <<stored, source, fixes>>
        BY <1>2 DEF Receive, outside
    <2>3. S \subseteq Securities
        BY DEF TypeOK, OutsideTyped
    <2>4. /\ job' = "messages" /\ step' \in {"sides", "store"} /\ due' \subseteq Opened
          /\ items' = Empty /\ partners' = Empty /\ outcome' = Empty /\ rows' = Empty
        BY <2>1, <2>3, ReadNextFrame DEF Jobs
    <2> QED BY <1>1, <2>1, <2>2, <2>3, <2>4, NothingAtHand DEF JobTyped, PropositionOf, Opened, Steps, Jobs
<1>3. CASE StartBacklog
    <2> DEFINE page == Page({s \in Opened : ~IsCurrent(s)}, BacklogLimit, backlogAfter)
    <2>1. ReadNext("backlog", page, {}) /\ UNCHANGED <<stored, source, batch, fixes>>
        BY <1>3 DEF StartBacklog, Backlog, outside
    <2>2. page \subseteq Securities
        BY DEF Page, Opened
    <2> HIDE DEF page
    <2>3. /\ job' = "backlog" /\ step' \in {"sides", "store"} /\ due' \subseteq Opened
          /\ items' = Empty /\ partners' = Empty /\ outcome' = Empty /\ rows' = Empty
        BY <2>1, <2>2, ReadNextFrame DEF Jobs
    <2> QED BY <1>1, <2>1, <2>3, NothingAtHand DEF JobTyped, PropositionOf, Opened, Steps, Jobs
<1>4. CASE Recheck
    <2> DEFINE page     == Page(Opened, RecheckPage, recheckAfter)
               read(s)  == s \in Firsts /\ Reads[<<readers, s, source[s]>>] # None
               code(s)  == [by |-> Reads[<<readers, s, source[s]>>], negated |-> FALSE]
               changed  == {s \in page : /\ read(s) /\ stored[s] # None
                                         /\ <<stored[s].reading, stored[s].method>> # <<code(s), "VENUE">>}
               fixed(s) == [stored[s] EXCEPT !.reading.by = Corrected[readers]]
               wrong    == {s \in page : /\ ~read(s) /\ stored[s] # None /\ stored[s].method = "LLM"
                                         /\ stored[s].hash = source[s] /\ fixed(s) # stored[s]}
    <2>0. fixes' = [s \in wrong |-> fixed(s)] /\ ReadNext("recheck", changed, changed)
        BY <1>4 DEF Recheck
    <2>1. /\ wrong \subseteq page /\ changed \subseteq page
          /\ \A s \in wrong : stored[s] # None
          /\ fixes' = [s \in wrong |-> [stored[s] EXCEPT !.reading.by = Corrected[readers]]]
          /\ ReadNext("recheck", changed, changed)
        BY <2>0
    <2>9. page \subseteq Securities
        BY DEF Page, Opened
    <2> HIDE DEF page, changed, wrong
    <2>2. UNCHANGED <<stored, source, batch>>
        BY <1>4 DEF Recheck, outside
    <2>3. wrong \subseteq Securities /\ changed \subseteq Securities
        BY <2>1, <2>9
    <2>4. /\ job' = "recheck" /\ step' \in {"sides", "store"} /\ due' \subseteq Opened
          /\ items' = Empty /\ partners' = Empty /\ outcome' = Empty /\ rows' = Empty
        BY <2>1, <2>3, ReadNextFrame DEF Jobs
    <2>5. ASSUME NEW s \in wrong PROVE PropositionOf(s, fixes'[s])
        <3>1. PropositionOf(s, stored[s])
            BY <2>1, <2>3 DEF TypeOK, StoredTyped
        <3>2. Corrected[readers] \in Bys
            BY ReadingAssumption DEF TypeOK, OutsideTyped, Bys, Range
        <3>3. fixes'[s] = [stored[s] EXCEPT !.reading.by = Corrected[readers]]
            BY <2>1
        <3> QED BY <3>1, <3>2, <3>3 DEF PropositionOf, Propositions
    <2>6. DOMAIN fixes' = wrong
        BY <2>1
    <2> QED BY <1>1, <2>1, <2>2, <2>3, <2>4, <2>5, <2>6, NothingAtHand DEF JobTyped, PropositionOf, Opened, Steps, Jobs
<1>5. CASE Sides
    <2>1. /\ UNCHANGED <<stored, source, batch, job, outcome, rows, fixes>> /\ due' = {} /\ step' = "read" /\ step = "sides"
        BY <1>5 DEF Sides, outside
    <2>2. \A s \in Opened : s \in Securities /\ source[s] \in 1..source[s]
        BY DEF Opened, TypeOK, OutsideTyped
    <2> QED BY <1>1, <1>5, <2>1, <2>2, SidesFrame DEF JobTyped, PropositionOf, Steps
<1>6. CASE Extract
    <2>1. /\ UNCHANGED <<stored, source, batch, job, due, items, rows, fixes>> /\ step' = "record" /\ step = "read"
          /\ partners' = Empty
        BY <1>6 DEF Extract, outside
    <2>2. PICK of \in [DOMAIN items \cap Firsts -> UNION {Outcomes(s) : s \in DOMAIN items \cap Firsts}] :
              /\ \A s \in DOMAIN of : of[s] \in Outcomes(s)
              /\ outcome' = [s \in DOMAIN items |-> IF Second(s) THEN OfFirst(s, of) ELSE of[s]]
        BY <1>6 DEF Extract
    <2>3. \A f \in Firsts \cap DOMAIN items : of[f].got = None \/ PropositionOf(f, of[f].got)
        BY <2>2, OutcomesOf
    <2>4. ASSUME NEW s \in DOMAIN items PROVE outcome'[s].got = None \/ PropositionOf(s, outcome'[s].got)
        <3>1. CASE Second(s)
            BY <2>2, <2>3, <3>1, OfFirstOf DEF Second
        <3>2. CASE ~Second(s)
            <4>1. s \in Firsts
                BY <1>1, <3>2 DEF JobTyped, Second, Securities
            <4> QED BY <2>2, <2>3, <3>2, <4>1
        <3> QED BY <3>1, <3>2
    <2>5. DOMAIN outcome' = DOMAIN items
        BY <2>2
    <2>6. \A s, p : PropositionOf(s, p)' = PropositionOf(s, p')
        BY <2>1 DEF PropositionOf
    <2> QED BY <1>1, <2>1, <2>4, <2>5, EmptyOf DEF JobTyped, PropositionOf, Steps, Opened
<1>7. CASE Record
    <2>1. /\ UNCHANGED <<stored, source, batch, job, due, partners, fixes>> /\ step' = "store" /\ step = "record"
          /\ items' = Empty /\ outcome' = Empty
          /\ rows' = [s \in {t \in DOMAIN outcome : outcome[t].got # None} |-> outcome[s].got]
        BY <1>7 DEF Record, outside
    <2>2. DOMAIN rows' \subseteq Securities /\ \A s \in DOMAIN rows' : PropositionOf(s, rows'[s])
        BY <1>1, <2>1 DEF JobTyped
    <2> QED BY <1>1, <2>1, <2>2, EmptyOf DEF JobTyped, PropositionOf, Steps, Opened
<1>8. CASE StoreChunk
    <2>1. PICK chunk : /\ stored' = [s \in Securities |-> IF s \in chunk THEN rows[s] ELSE stored[s]]
                       /\ chunk \subseteq DOMAIN rows /\ rows' = Without(rows, chunk)
        <3>1. Page(DOMAIN rows, ChunkRows, 0) \subseteq DOMAIN rows
            BY DEF Page
        <3> QED BY <1>8, <3>1 DEF StoreChunk
    <2>2. UNCHANGED <<source, step, batch, job, due, items, partners, outcome, fixes>>
        BY <1>8 DEF StoreChunk, outside
    <2>3. DOMAIN rows' \subseteq DOMAIN rows /\ \A s \in DOMAIN rows' : rows'[s] = rows[s]
        BY <2>1 DEF Without
    <2>4. \A s \in DOMAIN fixes : s \in Securities /\ stored'[s] # None
        BY <1>1, <2>1, ReadingAssumption DEF JobTyped, PropositionOf
    <2> QED BY <1>1, <2>2, <2>3, <2>4 DEF JobTyped, PropositionOf, Opened
<1>9. CASE StoreFixes
    <2>1. /\ UNCHANGED <<source, stored, step, batch, job, due, items, partners, outcome>> /\ fixes' = Empty
          /\ rows' = [s \in DOMAIN fixes |-> [fixes[s] EXCEPT !.version = stored[s].version]]
        BY <1>9 DEF StoreFixes, outside
    <2>2. ASSUME NEW s \in DOMAIN fixes PROVE PropositionOf(s, rows'[s])
        <3>1. s \in Securities /\ PropositionOf(s, fixes[s]) /\ stored[s] \in Propositions
            BY <1>1 DEF JobTyped, TypeOK, StoredTyped
        <3>2. rows'[s] = [fixes[s] EXCEPT !.version = stored[s].version]
            BY <2>1
        <3> QED BY <3>1, <3>2 DEF PropositionOf, Propositions
    <2>3. DOMAIN rows' = DOMAIN fixes
        BY <2>1
    <2> QED BY <1>1, <2>1, <2>2, <2>3, EmptyOf DEF JobTyped, PropositionOf, Opened
<1>10. CASE ReadDone
    <2>1. /\ UNCHANGED <<source, stored, job, batch>> /\ Forgotten /\ step = "store" /\ step' \in {"backlog", "recheck", "end"}
        BY <1>10 DEF ReadDone, outside
    <2> QED BY <1>1, <2>1, NothingAtHand, EmptyOf DEF JobTyped, Forgotten, Steps
<1>11. CASE NothingToRecheck
    <2>1. /\ UNCHANGED <<source, stored, job, batch, due, items, partners, outcome, rows, fixes>>
          /\ step = "recheck" /\ step' = "end"
        BY <1>11 DEF NothingToRecheck, outside
    <2> QED BY <1>1, <2>1 DEF JobTyped, PropositionOf, Opened, Steps
<1>12. CASE PassEnds \/ PassFails \/ Restarts
    <2>1. Rest
        BY <1>12 DEF PassEnds, PassFails, Restarts
    <2> QED BY <2>1, NothingAtHand, EmptyOf DEF Rest, Forgotten, Steps, Jobs
<1>13. CASE SourceWritten
    <2>1. UNCHANGED <<stored, jobVars>>
        BY <1>13 DEF SourceWritten
    <2>2. ASSUME NEW s \in Securities
          PROVE  source[s] \in Nat /\ source'[s] \in Nat /\ source[s] <= source'[s]
        BY <1>13, SourcesGrow DEF TypeOK, OutsideTyped
    <2>3. ASSUME NEW s \in Securities, NEW p, PropositionOf(s, p) PROVE PropositionOf(s, p)'
        BY <2>2, <2>3 DEF PropositionOf, Propositions
    <2>4. due' \subseteq Opened'
        BY <1>1, <2>1, <2>2 DEF JobTyped, Opened, jobVars
    <2>5. \A s \in DOMAIN items : items[s] \in 1..source'[s]
        BY <1>1, <2>2 DEF JobTyped
    <2> QED BY <1>1, <2>1, <2>3, <2>4, <2>5 DEF JobTyped, jobVars
<1>14. CASE LlmFlips \/ AttemptLost \/ Tick \/ UNCHANGED vars
    <2>1. UNCHANGED <<source, stored, jobVars>>
        BY <1>14 DEF LlmFlips, AttemptLost, Tick, vars, jobVars
    <2> QED BY <1>1, <2>1 DEF JobTyped, PropositionOf, Opened, jobVars
<1> QED BY <1>2, <1>3, <1>4, <1>5, <1>6, <1>7, <1>8, <1>9, <1>10, <1>11, <1>12, <1>13, <1>14 DEF Next, Worker, Pass

\* At the start the state has its type.
LEMMA InitTypeOK == Init => TypeOK
<1> SUFFICES ASSUME Init PROVE TypeOK
    OBVIOUS
<1>1. OutsideTyped
    BY ReadingAssumption DEF Init, OutsideTyped, Securities
<1>2. StoredTyped /\ WalksTyped
    BY DEF Init, StoredTyped, WalksTyped
<1>3. JobTyped
    BY EmptyOf DEF Init, JobTyped, Steps
<1> QED BY <1>1, <1>2, <1>3 DEF TypeOK

\* Every step keeps the state in its type.
LEMMA NextTypeOK == TypeOK /\ [Next]_vars => TypeOK'
BY OutsideStep, StoredStep, WalksStep, JobStep DEF TypeOK

\* The reading of propositions is well typed: what is stored or about to be stored of a security is of a source it has
\* had, and the bounds on accidents and failures are kept.
THEOREM TypeCorrect == Spec => []TypeOK
BY InitTypeOK, NextTypeOK, PTL DEF Spec

-----------------------------------------------------------------------------
(* Only what was looked at is marked.                                      *)

\* A page of the re-check finds every reading it reaches that is not what the readers make of it.
LEMMA RecheckFinds ==
    ASSUME TypeOK, WalkInv, Recheck
    PROVE  /\ job' = "recheck" /\ recheckAfter # None /\ step' \in {"sides", "store"}
           /\ outcome' = Empty /\ rows' = Empty
           /\ \A f \in Firsts \cap DOMAIN fixes' : Good(f, fixes'[f])
           /\ \A f \in Firsts : Settled(f) /\ (following' = 0 \/ f <= following') =>
                  \/ Good(f, stored[f]) \/ f \in DOMAIN fixes'
                  \/ step' = "sides" /\ f \in due' /\ CodeReads(f)
<1> DEFINE page     == Page(Opened, RecheckPage, recheckAfter)
           read(s)  == s \in Firsts /\ Reads[<<readers, s, source[s]>>] # None
           code(s)  == [by |-> Reads[<<readers, s, source[s]>>], negated |-> FALSE]
           changed  == {s \in page : /\ read(s) /\ stored[s] # None
                                     /\ <<stored[s].reading, stored[s].method>> # <<code(s), "VENUE">>}
           fixed(s) == [stored[s] EXCEPT !.reading.by = Corrected[readers]]
           wrong    == {s \in page : /\ ~read(s) /\ stored[s] # None /\ stored[s].method = "LLM"
                                     /\ stored[s].hash = source[s] /\ fixed(s) # stored[s]}
<1>1. /\ fixes' = [s \in wrong |-> fixed(s)] /\ ReadNext("recheck", changed, changed)
      /\ recheckAfter # None /\ following' = After(page, RecheckPage)
    BY DEF Recheck
<1>2. page \subseteq Securities
    BY DEF Page, Opened
<1>3. /\ job' = "recheck" /\ outcome' = Empty /\ rows' = Empty
      /\ due' = {s \in changed : source[s] # 0} /\ step' = IF due' = {} THEN "store" ELSE "sides"
    BY <1>1 DEF ReadNext
<1>4. ASSUME NEW f \in Firsts, f \in wrong PROVE f \in DOMAIN fixes' /\ Good(f, fixes'[f])
    <2>1. fixes'[f] = [stored[f] EXCEPT !.reading.by = Corrected[readers]] /\ f \in DOMAIN fixes'
        BY <1>1, <1>4
    <2>2. stored[f] \in Propositions /\ stored[f].method = "LLM" /\ stored[f].hash = source[f] /\ ~read(f)
        BY <1>2, <1>4 DEF TypeOK, StoredTyped
    <2>3. fixes'[f].hash = source[f] /\ fixes'[f].reading.by = Corrected[readers]
        BY <2>1, <2>2 DEF Propositions
    <2> QED BY <2>1, <2>2, <2>3 DEF Good
<1>5. ASSUME NEW f \in Firsts, Settled(f), following' = 0 \/ f <= following', ~Good(f, stored[f])
      PROVE  f \in DOMAIN fixes' \/ (step' = "sides" /\ f \in due' /\ CodeReads(f))
    <2>1. stored[f] \in Propositions /\ stored[f].hash = source[f] /\ source[f] # 0 /\ f \in Securities
        BY <1>5 DEF Settled, TypeOK, StoredTyped, Securities, Propositions
    <2>2. f \in Opened /\ f \in Nat /\ recheckAfter \in Nat
        BY <1>1, <2>1, ReadingAssumption DEF Opened, TypeOK, WalksTyped
    <2>3. f > recheckAfter
        <3>1. ~(f <= recheckAfter)
            BY <1>5 DEF WalkInv, PassedIsGood
        <3> QED BY <2>2, <3>1
    <2>4. f \in page
        <3>1. Opened \in SUBSET Nat /\ IsFiniteSet(Opened)
            BY <2>2, PageOf, ReadingAssumption
        <3> QED BY <1>1, <1>5, <2>2, <2>3, <3>1, PageReaches, ReadingAssumption
    <2>5. CASE read(f)
        <3>1. <<stored[f].reading, stored[f].method>> # <<code(f), "VENUE">>
            BY <1>5, <2>1, <2>5 DEF Good
        <3>2. f \in changed
            BY <1>5, <2>4, <2>5, <3>1 DEF Settled
        <3>3. f \in due' /\ step' = "sides"
            BY <1>3, <2>1, <3>2
        <3> QED BY <2>5, <3>3 DEF CodeReads
    <2>6. CASE ~read(f)
        <3>1. stored[f].method = "LLM" /\ stored[f].reading.by # Corrected[readers]
            BY <1>5, <2>1, <2>6 DEF Good
        <3>2. fixed(f).reading.by = Corrected[readers]
            BY <2>1 DEF Propositions
        <3>3. f \in wrong
            BY <1>5, <2>1, <2>4, <2>6, <3>1, <3>2 DEF Settled
        <3> QED BY <1>4, <3>3
    <2> QED BY <2>5, <2>6
<1>6. \A f \in Firsts \cap DOMAIN fixes' : Good(f, fixes'[f])
    BY <1>1, <1>4
<1> HIDE DEF page, changed, wrong
<1> QED BY <1>1, <1>3, <1>5, <1>6

\* A first side that code reads is read.
LEMMA ExtractReads ==
    ASSUME TypeOK, Extract
    PROVE  /\ DOMAIN outcome' = DOMAIN items /\ step = "read" /\ step' = "record"
           /\ \A f \in Firsts \cap DOMAIN items :
                  /\ outcome'[f].got # None => Good(f, outcome'[f].got)
                  /\ Reads[<<readers, f, items[f]>>] # None => outcome'[f].got # None
<1>1. PICK of \in [DOMAIN items \cap Firsts -> UNION {Outcomes(s) : s \in DOMAIN items \cap Firsts}] :
          /\ \A s \in DOMAIN of : of[s] \in Outcomes(s)
          /\ outcome' = [s \in DOMAIN items |-> IF Second(s) THEN OfFirst(s, of) ELSE of[s]]
    BY DEF Extract
<1>2. ASSUME NEW f \in Firsts \cap DOMAIN items PROVE outcome'[f] = of[f] /\ of[f] \in Outcomes(f)
    BY <1>1, ReadingAssumption DEF Second
<1>3. DOMAIN outcome' = DOMAIN items /\ step = "read" /\ step' = "record"
    BY <1>1 DEF Extract
<1> QED BY <1>2, <1>3, OutcomesOf

\* Every step keeps what the walk has passed good.
LEMMA WalkStep == TypeOK /\ WalkInv /\ [Next]_vars => WalkInv'
<1> SUFFICES ASSUME TypeOK, WalkInv, [Next]_vars PROVE WalkInv'
    OBVIOUS
<1> USE EmptyOf
<1>1. /\ marker = readers => recheckAfter = None
      /\ AtHandIsGood /\ PassedIsGood /\ PageIsGood
    BY DEF WalkInv
<1>2. CASE Receive \/ StartBacklog
    <2>1. /\ UNCHANGED <<readers, marker, recheckAfter, source, stored, fixes>>
          /\ job' # "recheck" /\ outcome' = Empty /\ rows' = Empty
        BY <1>2 DEF Receive, StartBacklog, Backlog, ReadNext, outside, walks
    <2>2. AtHandIsGood'
        BY <1>1, <2>1 DEF AtHandIsGood, Good
    <2>3. PassedIsGood'
        BY <1>1, <2>1 DEF PassedIsGood, Good, Settled
    <2> QED BY <1>1, <2>1, <2>2, <2>3 DEF WalkInv, PageIsGood
<1>3. CASE Recheck
    <2>1. UNCHANGED <<readers, marker, recheckAfter, source, stored>>
        BY <1>3 DEF Recheck, outside, walks
    <2>2. AtHandIsGood'
        BY <1>3, <2>1, RecheckFinds DEF AtHandIsGood, Good
    <2>3. PassedIsGood'
        BY <1>1, <2>1 DEF PassedIsGood, Good, Settled
    <2>4. PageIsGood'
        BY <1>3, <2>1, RecheckFinds DEF PageIsGood, Good, Settled, Pending, CodeReads
    <2> QED BY <1>1, <2>1, <2>2, <2>3, <2>4 DEF WalkInv
<1>4. CASE Sides
    <2>1. UNCHANGED <<readers, marker, recheckAfter, source, stored, job, outcome, rows, fixes, following>>
        BY <1>4 DEF Sides, outside, walks
    <2>2. AtHandIsGood'
        BY <1>1, <2>1 DEF AtHandIsGood, Good
    <2>3. PassedIsGood'
        BY <1>1, <2>1 DEF PassedIsGood, Good, Settled
    <2>4. PageIsGood'
        <3>1. step = "sides" /\ step' = "read"
            BY <1>4 DEF Sides
        <3>2. \A f \in due : f \in DOMAIN items' /\ items'[f] = source[f]
            BY <1>4, SidesFrame
        <3>3. \A f : Pending(f) => Pending(f)'
            BY <2>1, <3>1, <3>2 DEF Pending, CodeReads
        <3> QED BY <1>1, <2>1, <3>1, <3>3 DEF PageIsGood, Good, Settled
    <2> QED BY <1>1, <2>1, <2>2, <2>3, <2>4 DEF WalkInv
<1>5. CASE Extract
    <2>1. UNCHANGED <<readers, marker, recheckAfter, source, stored, job, rows, fixes, following>>
        BY <1>5 DEF Extract, outside, walks
    <2>2. AtHandIsGood'
        BY <1>1, <1>5, <2>1, ExtractReads DEF AtHandIsGood, Good
    <2>3. PassedIsGood'
        BY <1>1, <2>1 DEF PassedIsGood, Good, Settled
    <2>4. PageIsGood'
        <3>1. step = "read" /\ step' = "record" /\ DOMAIN outcome' = DOMAIN items
            BY <1>5, ExtractReads
        <3>2. \A f \in Firsts : Pending(f) => Pending(f)'
            BY <1>5, <2>1, <3>1, ExtractReads DEF Pending, CodeReads
        <3> QED BY <1>1, <2>1, <3>1, <3>2 DEF PageIsGood, Good, Settled
    <2> QED BY <1>1, <2>1, <2>2, <2>3, <2>4 DEF WalkInv
<1>6. CASE Record
    <2>1. /\ UNCHANGED <<readers, marker, recheckAfter, source, stored, job, fixes, following>>
          /\ rows' = [s \in {t \in DOMAIN outcome : outcome[t].got # None} |-> outcome[s].got]
          /\ outcome' = Empty /\ step = "record" /\ step' = "store"
        BY <1>6 DEF Record, outside, walks
    <2>2. AtHandIsGood'
        BY <1>1, <2>1 DEF AtHandIsGood, Good
    <2>3. PassedIsGood'
        BY <1>1, <2>1 DEF PassedIsGood, Good, Settled
    <2>4. PageIsGood'
        <3>1. \A f : Pending(f) => Pending(f)'
            BY <2>1 DEF Pending, CodeReads
        <3> QED BY <1>1, <2>1, <3>1 DEF PageIsGood, Good, Settled
    <2> QED BY <1>1, <2>1, <2>2, <2>3, <2>4 DEF WalkInv
<1>7. CASE StoreChunk
    <2>1. PICK chunk : /\ stored' = [s \in Securities |-> IF s \in chunk THEN rows[s] ELSE stored[s]]
                       /\ chunk \subseteq DOMAIN rows /\ rows' = Without(rows, chunk)
        <3>1. Page(DOMAIN rows, ChunkRows, 0) \subseteq DOMAIN rows
            BY DEF Page
        <3> QED BY <1>7, <3>1 DEF StoreChunk
    <2>2. UNCHANGED <<readers, marker, recheckAfter, source, step, job, due, items, outcome, fixes, following>> /\ step = "store"
        BY <1>7 DEF StoreChunk, outside, walks
    <2>3. DOMAIN rows' = DOMAIN rows \ chunk /\ \A s \in DOMAIN rows' : rows'[s] = rows[s]
        BY <2>1 DEF Without
    <2>4. AtHandIsGood'
        BY <1>1, <2>2, <2>3 DEF AtHandIsGood, Good
    <2>5. ASSUME NEW f \in Firsts PROVE IF f \in chunk THEN Good(f, stored'[f]) ELSE stored'[f] = stored[f]
        BY <1>1, <2>1 DEF AtHandIsGood, Securities
    <2>6. PassedIsGood'
        BY <1>1, <2>2, <2>5 DEF PassedIsGood, Good, Settled
    <2>7. PageIsGood'
        BY <1>1, <2>2, <2>3, <2>5 DEF PageIsGood, Good, Settled, Pending, CodeReads
    <2> QED BY <1>1, <2>2, <2>4, <2>6, <2>7 DEF WalkInv
<1>8. CASE StoreFixes
    <2>1. /\ UNCHANGED <<readers, marker, recheckAfter, source, stored, step, job, outcome, following>> /\ step = "store"
          /\ fixes' = Empty /\ rows = Empty
          /\ rows' = [s \in DOMAIN fixes |-> [fixes[s] EXCEPT !.version = stored[s].version]]
        BY <1>8 DEF StoreFixes, outside, walks
    <2>2. ASSUME NEW f \in Firsts \cap DOMAIN fixes PROVE Good(f, rows'[f])
        <3>1. Good(f, fixes[f]) /\ fixes[f] \in Propositions
            BY <1>1 DEF AtHandIsGood, TypeOK, JobTyped, PropositionOf
        <3>2. rows'[f] = [fixes[f] EXCEPT !.version = stored[f].version]
            BY <2>1
        <3>3. rows'[f].reading = fixes[f].reading /\ rows'[f].method = fixes[f].method /\ rows'[f].hash = fixes[f].hash
            BY <3>1, <3>2 DEF Propositions
        <3> QED BY <3>1, <3>3 DEF Good
    <2>3. DOMAIN rows' = DOMAIN fixes
        BY <2>1
    <2>4. AtHandIsGood'
        BY <1>1, <2>1, <2>2, <2>3 DEF AtHandIsGood, Good
    <2>5. PassedIsGood'
        BY <1>1, <2>1 DEF PassedIsGood, Good, Settled
    <2>6. PageIsGood'
        <3>1. ASSUME NEW f, Pending(f) PROVE Pending(f)'
            <4>1. f \in DOMAIN fixes
                BY <2>1, <3>1 DEF Pending
            <4> QED BY <2>1, <2>3, <4>1 DEF Pending
        <3> QED BY <1>1, <2>1, <3>1 DEF PageIsGood, Good, Settled
    <2> QED BY <1>1, <2>1, <2>4, <2>5, <2>6 DEF WalkInv
<1>9. CASE ReadDone
    <2>1. /\ UNCHANGED <<readers, source, stored, job>> /\ Forgotten
          /\ step = "store" /\ rows = Empty /\ fixes = Empty /\ step' \notin {"sides", "read", "record", "store"}
        BY <1>9 DEF ReadDone, outside
    <2>2. AtHandIsGood' /\ PageIsGood'
        BY <2>1 DEF Forgotten, AtHandIsGood, PageIsGood
    <2>3. CASE job # "recheck"
        <3>1. job \in {"messages", "backlog"}
            BY <2>1, <2>3 DEF TypeOK, JobTyped, Jobs
        <3>2. UNCHANGED <<marker, recheckAfter>>
            BY <1>9, <3>1 DEF ReadDone, walks
        <3>3. PassedIsGood'
            BY <1>1, <2>1, <3>2 DEF PassedIsGood, Good, Settled
        <3> QED BY <1>1, <2>1, <2>2, <3>2, <3>3 DEF WalkInv
    <2>4. CASE job = "recheck"
        <3>1. /\ recheckAfter' = IF following = 0 THEN None ELSE following
              /\ marker' = IF following = 0 THEN readers ELSE marker
            BY <1>9, <2>4 DEF ReadDone
        <3>2. recheckAfter # None /\ following \in Nat /\ following # None
            BY <1>1, <2>1, <2>4, ReadingAssumption DEF PageIsGood, TypeOK, WalksTyped
        <3>3. marker' = readers' => recheckAfter' = None
            BY <1>1, <2>1, <3>1, <3>2
        <3>4. \A f : ~Pending(f)
            BY <2>1 DEF Pending
        <3>5. \A f \in Firsts : Settled(f) /\ (following = 0 \/ f <= following) => Good(f, stored[f])
            BY <1>1, <2>1, <2>4, <3>4 DEF PageIsGood
        <3>6. PassedIsGood'
            BY <2>1, <3>1, <3>2, <3>5 DEF PassedIsGood, Good, Settled
        <3> QED BY <2>2, <3>3, <3>6 DEF WalkInv
    <2> QED BY <2>3, <2>4
<1>10. CASE NothingToRecheck
    <2>1. UNCHANGED <<readers, marker, recheckAfter, source, stored, outcome, rows, fixes>> /\ step' = "end"
        BY <1>10 DEF NothingToRecheck, outside, walks
    <2>2. PassedIsGood' /\ AtHandIsGood'
        BY <1>1, <2>1 DEF PassedIsGood, AtHandIsGood, Good, Settled
    <2> QED BY <1>1, <2>1, <2>2 DEF WalkInv, PageIsGood
<1>11. CASE PassEnds \/ PassFails
    <2>1. UNCHANGED <<readers, marker, recheckAfter, source, stored>> /\ Rest
        BY <1>11 DEF PassEnds, PassFails, walks
    <2>2. PassedIsGood'
        BY <1>1, <2>1 DEF PassedIsGood, Good, Settled
    <2> QED BY <1>1, <2>1, <2>2 DEF WalkInv, PageIsGood, AtHandIsGood, Rest, Forgotten
<1>12. CASE Restarts
    <2>1. PICK r \in readers..MaxReaders : readers' = r /\ recheckAfter' = IF marker = r THEN None ELSE 0
        BY <1>12 DEF Restarts
    <2>2. UNCHANGED <<marker, source, stored>> /\ Rest
        BY <1>12 DEF Restarts
    <2>3. CASE marker = r
        <3>1. readers' = readers /\ recheckAfter = None /\ recheckAfter' = None
            BY <1>1, <2>1, <2>3, ReadingAssumption DEF TypeOK, OutsideTyped
        <3>2. PassedIsGood'
            BY <1>1, <2>2, <3>1 DEF PassedIsGood, Good, Settled
        <3> QED BY <2>2, <3>1, <3>2 DEF WalkInv, PageIsGood, AtHandIsGood, Rest, Forgotten
    <2>4. CASE marker # r
        <3>1. recheckAfter' = 0 /\ marker' # readers' /\ 0 # None
            BY <2>1, <2>2, <2>4, ReadingAssumption
        <3>2. \A f \in Firsts : ~(f <= 0)
            BY ReadingAssumption
        <3> QED BY <2>2, <3>1, <3>2 DEF WalkInv, PageIsGood, PassedIsGood, AtHandIsGood, Rest, Forgotten
    <2> QED BY <2>3, <2>4
<1>13. CASE SourceWritten
    <2>1. UNCHANGED <<readers, marker, recheckAfter, stored, step, job, due, items, outcome, rows, fixes, following>>
        BY <1>13 DEF SourceWritten, jobVars, walks
    <2>2. ASSUME NEW f \in Firsts, Settled(f)' PROVE source'[f] = source[f]
        <3>1. source'[f] = source[f] \/ source'[f] = source[f] + 1
            BY <1>13, SourcesGrow
        <3>2. stored[f].hash <= source[f] /\ stored[f].hash \in Nat /\ source[f] \in Nat /\ stored[f].hash = source'[f]
            BY <2>1, <2>2 DEF Settled, TypeOK, StoredTyped, OutsideTyped, PropositionOf, Propositions, Securities
        <3> QED BY <3>1, <3>2
    <2>3. ASSUME NEW f \in Firsts, Settled(f)' PROVE Settled(f) /\ (Pending(f) => Pending(f)')
        BY <2>1, <2>2, <2>3 DEF Settled, Pending, CodeReads
    <2>4. AtHandIsGood'
        BY <1>1, <2>1 DEF AtHandIsGood, Good
    <2>5. PassedIsGood'
        BY <1>1, <2>1, <2>3 DEF PassedIsGood, Good
    <2>6. PageIsGood'
        BY <1>1, <2>1, <2>3 DEF PageIsGood, Good
    <2> QED BY <1>1, <2>1, <2>4, <2>5, <2>6 DEF WalkInv
<1>14. CASE LlmFlips \/ AttemptLost \/ Tick \/ UNCHANGED vars
    <2>1. UNCHANGED <<readers, marker, recheckAfter, source, stored, step, job, due, items, outcome, rows, fixes, following>>
        BY <1>14 DEF LlmFlips, AttemptLost, Tick, vars, jobVars, walks
    <2> QED BY <1>1, <2>1 DEF WalkInv, AtHandIsGood, PassedIsGood, PageIsGood, Good, Settled, Pending, CodeReads
<1> QED BY <1>2, <1>3, <1>4, <1>5, <1>6, <1>7, <1>8, <1>9, <1>10, <1>11, <1>12, <1>13, <1>14 DEF Next, Worker, Pass

\* Once the version of the readers is marked, every stored reading of a market's present source is what that version
\* makes of it, whatever was written, read, switched, released, cut off or restarted meanwhile.
THEOREM MarkedIsChecked == Spec => []MarkedMeansChecked
<1>1. Init => TypeOK /\ WalkInv
    <2> SUFFICES ASSUME Init PROVE WalkInv
        BY InitTypeOK
    <2> QED BY EmptyOf DEF Init, WalkInv, AtHandIsGood, PassedIsGood, PageIsGood, Settled, Securities
<1>2. TypeOK /\ WalkInv /\ [Next]_vars => (TypeOK /\ WalkInv)'
    BY NextTypeOK, WalkStep
<1>3. TypeOK /\ WalkInv => MarkedMeansChecked
    BY DEF WalkInv, PassedIsGood, Settled, Good, MarkedMeansChecked
<1> QED BY <1>1, <1>2, <1>3, PTL DEF Spec

-----------------------------------------------------------------------------
(* Both sides of a binary.                                                 *)

\* What a security's proposition will be once the rows at hand are stored.
Coming(s) == IF s \in DOMAIN rows THEN rows[s] ELSE stored[s]

Fresh(s, p) == p # None /\ p.hash = source[s] /\ p.version = extractor

\* Only a second side's reading is negated.
Sided(s, p) == p.reading.negated <=> s \in Seconds

SameBut(p, q) == p.reading.by = q.reading.by /\ p.method = q.method /\ p.hash = q.hash /\ p.version = q.version

AllSided ==
    /\ \A s \in Securities : stored[s] # None => Sided(s, stored[s]) /\ stored[s].version <= extractor
    /\ \A s \in DOMAIN rows : Sided(s, rows[s]) /\ rows[s].version <= extractor
    /\ \A s \in DOMAIN fixes : Sided(s, fixes[s])

\* Both sides come from one market.
Together == \A s \in Seconds : source[s] = source[FirstOf[s]]

\* What is at hand at each step.
AtStep ==
    /\ step # "store" => rows = Empty
    /\ fixes # Empty => job = "recheck" /\ step \in {"sides", "read", "record", "store"}

\* What is due is not up to date, but for what a re-check reads again; it corrects none of these.
DueIsStale ==
    step = "sides" => IF job = "recheck" THEN due \subseteq Firsts \ DOMAIN fixes ELSE \A s \in due : ~IsCurrent(s)

\* A first side is read with its second side; a second side read alone has an up-to-date first side only if
\* code read that.
PlannedTogether ==
    step = "read" =>
        /\ \A f \in Firsts \cap DOMAIN items : f \notin DOMAIN fixes
        /\ \A s \in Seconds :
               /\ FirstOf[s] \in DOMAIN items => s \in DOMAIN items /\ items[s] = items[FirstOf[s]]
               /\ s \in DOMAIN partners =>
                      partners[s] = stored[FirstOf[s]] /\ partners[s] # None /\ partners[s].hash = items[s]
               /\ s \in DOMAIN items /\ FirstOf[s] \notin DOMAIN items =>
                      job # "recheck" /\ (IsCurrent(FirstOf[s]) => stored[FirstOf[s]].method = "VENUE")

\* So both sides are read, or neither; a second side read alone agrees with its first side.
ReadTogether ==
    step = "record" =>
        /\ \A s \in DOMAIN outcome : outcome[s].got # None =>
               /\ Sided(s, outcome[s].got) /\ outcome[s].got.version = extractor
               /\ job = "recheck" => outcome[s].got.method = "VENUE"
        /\ \A f \in Firsts \cap DOMAIN outcome : f \notin DOMAIN fixes
        /\ \A s \in Seconds :
               /\ FirstOf[s] \in DOMAIN outcome =>
                      /\ s \in DOMAIN outcome
                      /\ outcome[s].got = None <=> outcome[FirstOf[s]].got = None
                      /\ outcome[s].got # None => SameBut(outcome[s].got, outcome[FirstOf[s]].got)
               /\ s \in DOMAIN outcome /\ FirstOf[s] \notin DOMAIN outcome =>
                      /\ job # "recheck"
                      /\ outcome[s].got # None /\ IsCurrent(FirstOf[s]) =>
                             stored[FirstOf[s]].method = "VENUE" /\ SameBut(outcome[s].got, stored[FirstOf[s]])

\* A correction is of what the model said, of the same source; a second side's may be of what the same page
\* has read anew, if code now reads its first side.
FixesFit ==
    /\ \A f \in Firsts \cap DOMAIN fixes :
           /\ f \notin DOMAIN rows /\ stored[f].method = "LLM"
           /\ fixes[f].method = "LLM" /\ fixes[f].hash = stored[f].hash
    /\ \A s \in Seconds \cap DOMAIN fixes :
           /\ fixes[s].method = "LLM" /\ fixes[s].reading.by = Corrected[readers]
           /\ \/ Coming(s) # None /\ Coming(s).hash = fixes[s].hash
              \/ Coming(FirstOf[s]) # None /\ Coming(FirstOf[s]).method = "VENUE"

\* What comes of a binary's first side, a, and of its second side, b, when the walk has passed `to`.
Matches(s, a, b) ==
    Fresh(FirstOf[s], a) =>
        /\ a.method = "LLM" => Fresh(s, b) /\ b.method = "LLM"
        /\ Fresh(s, b) /\ b.method = "VENUE" => b.reading.by = a.reading.by
        /\ Fresh(s, b) /\ b.method = "LLM" /\ (recheckAfter = None \/ s <= recheckAfter) =>
               b.reading.by = Corrected[readers]

SidesMatch == \A s \in Seconds : Matches(s, Coming(FirstOf[s]), Coming(s))

\* A second side that the page reaches has the model's corrected reading, if it has the model's, or gets it.
PageCorrects ==
    job = "recheck" /\ step \in {"sides", "read", "record", "store"} =>
        \A s \in Seconds :
            Fresh(s, Coming(s)) /\ Coming(s).method = "LLM" /\ (following = 0 \/ s <= following) /\
                    Fresh(FirstOf[s], Coming(FirstOf[s])) =>
                s \in DOMAIN fixes \/ Coming(s).reading.by = Corrected[readers]

SidesInv == failures = 0 => /\ AllSided /\ AtStep /\ DueIsStale /\ PlannedTogether /\ ReadTogether
                            /\ FixesFit /\ SidesMatch /\ PageCorrects

\* What will be stored is a proposition of its security.
LEMMA ComingOf ==
    ASSUME TypeOK, NEW s \in Securities
    PROVE  Coming(s) = None \/ (Coming(s) \in Propositions /\ Coming(s) # None /\ Coming(s).hash <= source[s])
BY ReadingAssumption DEF Coming, TypeOK, StoredTyped, JobTyped, PropositionOf

\* A second side's first side is one, and no other second side's.
LEMMA SidesOf ==
    /\ \A s \in Seconds : s \in Securities /\ s \notin Firsts /\ FirstOf[s] \in Firsts
    /\ \A s \in Seconds, t \in Seconds : FirstOf[s] = FirstOf[t] => s = t
    /\ \A f \in Firsts : f \in Securities /\ f \notin Seconds
BY ReadingAssumption DEF Securities, Seconds, IsInjective

\* A market is written for both sides at once.
LEMMA TogetherStep == TypeOK /\ Together /\ [Next]_vars => Together'
<1> SUFFICES ASSUME TypeOK, Together, [Next]_vars PROVE Together'
    OBVIOUS
<1>1. CASE SourceWritten
    <2>1. PICK f \in Firsts :
              source' = [s \in Securities |-> IF s \in {f} \cup {t \in Seconds : FirstOf[t] = f}
                                              THEN source[s] + 1 ELSE source[s]]
        BY <1>1 DEF SourceWritten
    <2> SUFFICES ASSUME NEW s \in Seconds PROVE source'[s] = source'[FirstOf[s]]
        BY DEF Together
    <2>2. s \in Securities /\ s # f /\ FirstOf[s] \in Securities /\ FirstOf[s] \notin Seconds
        BY SidesOf
    <2>3. source[s] = source[FirstOf[s]]
        BY DEF Together
    <2> QED BY <2>1, <2>2, <2>3
<1>2. CASE ~SourceWritten
    <2>1. source' = source
        BY <1>2 DEF Next, Worker, Pass, Receive, StartBacklog, Backlog, Recheck, Sides, Extract, Record, StoreChunk,
                    StoreFixes, ReadDone, NothingToRecheck, PassEnds, PassFails, Restarts, LlmFlips, AttemptLost, Tick,
                    vars, outside
    <2> QED BY <2>1 DEF Together
<1> QED BY <1>1, <1>2

\* What is said of a binary stands while nothing of it changes.
LEMMA SidesSame ==
    ASSUME UNCHANGED <<source, stored, rows, fixes, readers, extractor, recheckAfter>>, AllSided, FixesFit, SidesMatch
    PROVE  AllSided' /\ FixesFit' /\ SidesMatch'
<1>1. \A s : Coming(s)' = Coming(s)
    BY DEF Coming
<1>2. AllSided'
    BY DEF AllSided, Sided
<1>3. FixesFit'
    BY <1>1 DEF FixesFit
<1>4. SidesMatch'
    BY <1>1 DEF SidesMatch, Matches, Fresh
<1> QED BY <1>2, <1>3, <1>4

\* A reading begins.
LEMMA SidesReceive ==
    ASSUME TypeOK, Together, SidesInv, failures = 0, Receive \/ StartBacklog
    PROVE  SidesInv'
<1> USE EmptyOf
<1>1. /\ AllSided /\ AtStep /\ FixesFit /\ SidesMatch
    BY DEF SidesInv
<1>2. /\ UNCHANGED <<source, stored, fixes, readers, extractor, recheckAfter>> /\ rows' = Empty
      /\ job' # "recheck" /\ step' \in {"sides", "store"}
      /\ step \in {"idle", "backlog"}
    BY DEF Receive, StartBacklog, Backlog, ReadNext, outside, walks
<1>3. rows = Empty /\ fixes = Empty
    BY <1>1, <1>2 DEF AtStep
<1>4. \A s \in due' : ~IsCurrent(s)
    BY DEF Receive, StartBacklog, Backlog, ReadNext
<1>5. AllSided' /\ FixesFit' /\ SidesMatch'
    BY <1>1, <1>2, <1>3, SidesSame
<1>6. AtStep' /\ PlannedTogether' /\ ReadTogether' /\ PageCorrects'
    BY <1>2, <1>3 DEF AtStep, PlannedTogether, ReadTogether, PageCorrects
<1>7. DueIsStale'
    BY <1>2, <1>4 DEF DueIsStale, IsCurrent
<1> QED BY <1>5, <1>6, <1>7 DEF SidesInv

\* A page of the re-check corrects every second side it reaches of which the model's reading is stored.
LEMMA SidesRecheck ==
    ASSUME TypeOK, Together, SidesInv, failures = 0, Recheck
    PROVE  SidesInv'
<1> USE EmptyOf
<1> DEFINE page     == Page(Opened, RecheckPage, recheckAfter)
           read(s)  == s \in Firsts /\ Reads[<<readers, s, source[s]>>] # None
           code(s)  == [by |-> Reads[<<readers, s, source[s]>>], negated |-> FALSE]
           changed  == {s \in page : /\ read(s) /\ stored[s] # None
                                     /\ <<stored[s].reading, stored[s].method>> # <<code(s), "VENUE">>}
           fixed(s) == [stored[s] EXCEPT !.reading.by = Corrected[readers]]
           wrong    == {s \in page : /\ ~read(s) /\ stored[s] # None /\ stored[s].method = "LLM"
                                     /\ stored[s].hash = source[s] /\ fixed(s) # stored[s]}
<1>1. /\ fixes' = [s \in wrong |-> fixed(s)] /\ ReadNext("recheck", changed, changed)
      /\ recheckAfter # None /\ following' = After(page, RecheckPage)
    BY DEF Recheck
<1>2. /\ UNCHANGED <<source, stored, readers, extractor, recheckAfter>> /\ rows' = Empty /\ step = "recheck"
      /\ job' = "recheck" /\ due' \subseteq changed /\ step' \in {"sides", "store"}
    BY <1>1 DEF Recheck, outside, walks, ReadNext
<1>3. AllSided /\ AtStep /\ FixesFit /\ SidesMatch
    BY DEF SidesInv
<1>4. rows = Empty
    BY <1>2, <1>3 DEF AtStep
<1>5. page \subseteq Securities
    BY DEF Page, Opened
<1>6. \A s : Coming(s)' = stored[s] /\ Coming(s) = stored[s]
    BY <1>2, <1>4 DEF Coming
<1>7. ASSUME NEW s \in wrong
      PROVE  /\ s \in Securities /\ fixes'[s] \in Propositions /\ Sided(s, fixes'[s])
             /\ stored[s] # None /\ stored[s].method = "LLM" /\ fixes'[s].method = "LLM"
             /\ fixes'[s].hash = stored[s].hash /\ fixes'[s].reading.by = Corrected[readers]
    <2>1. s \in Securities /\ stored[s] \in Propositions /\ stored[s] # None /\ stored[s].method = "LLM"
        BY <1>5 DEF TypeOK, StoredTyped
    <2>2. fixes'[s] = [stored[s] EXCEPT !.reading.by = Corrected[readers]]
        BY <1>1
    <2>3. Corrected[readers] \in Bys
        BY ReadingAssumption DEF Bys, Range, TypeOK, OutsideTyped
    <2>4. Sided(s, stored[s])
        BY <1>3, <2>1 DEF AllSided
    <2>5. /\ fixes'[s] \in Propositions /\ fixes'[s].hash = stored[s].hash /\ fixes'[s].method = stored[s].method
          /\ fixes'[s].reading.by = Corrected[readers] /\ fixes'[s].reading.negated = stored[s].reading.negated
        BY <2>1, <2>2, <2>3 DEF Propositions
    <2> QED BY <2>1, <2>4, <2>5 DEF Sided
<1>8. DOMAIN fixes' = wrong
    BY <1>1
<1>9. changed \subseteq Firsts \ wrong
    OBVIOUS
<1>10. SidesMatch'
    BY <1>2, <1>3, <1>6 DEF SidesMatch, Matches, Fresh
<1>11. PageCorrects'
    <2> SUFFICES ASSUME NEW s \in Seconds, stored[s] # None, stored[s].hash = source[s], stored[s].method = "LLM",
                        Fresh(s, stored[s]), Fresh(FirstOf[s], stored[FirstOf[s]]),
                        following' = 0 \/ s <= following'
                 PROVE  s \in DOMAIN fixes' \/ stored[s].reading.by = Corrected[readers]
        BY <1>2, <1>6 DEF PageCorrects, Fresh
    <2>1. s \in Securities /\ s \notin Firsts
        BY SidesOf
    <2>2. stored[s] \in Propositions
        BY <2>1 DEF TypeOK, StoredTyped
    <2>3. s \in Opened /\ s \in Nat /\ recheckAfter \in Nat
        <3>1. source[s] # 0
            BY <2>2 DEF Propositions
        <3> QED BY <1>1, <2>1, <3>1, ReadingAssumption DEF Opened, TypeOK, WalksTyped, Securities
    <2>4. CASE s <= recheckAfter
        BY <1>3, <1>6, <2>4 DEF SidesMatch, Matches
    <2>5. CASE s > recheckAfter
        <3>1. Opened \in SUBSET Nat /\ IsFiniteSet(Opened)
            BY <2>3, PageOf, ReadingAssumption
        <3>2. s \in page
            BY <1>1, <2>3, <2>5, <3>1, PageReaches, ReadingAssumption
        <3>3. stored[s].reading.by # Corrected[readers] => fixed(s) # stored[s]
            BY <2>2 DEF Propositions
        <3> HIDE DEF page, fixed
        <3> QED BY <1>8, <2>1, <3>2, <3>3
    <2> QED BY <2>3, <2>4, <2>5
<1> HIDE DEF changed, wrong, page
<1>12. AllSided'
    BY <1>2, <1>3, <1>7, <1>8 DEF AllSided, Sided
<1>13. FixesFit'
    BY <1>2, <1>6, <1>7, <1>8 DEF FixesFit
<1>14. AtStep' /\ PlannedTogether' /\ ReadTogether'
    BY <1>2 DEF AtStep, PlannedTogether, ReadTogether
<1>15. DueIsStale'
    BY <1>2, <1>8, <1>9 DEF DueIsStale
<1> QED BY <1>10, <1>11, <1>12, <1>13, <1>14, <1>15 DEF SidesInv

\* A plan takes both sides of a binary together.
LEMMA SidesPlan ==
    ASSUME TypeOK, Together, SidesInv, failures = 0, Sides
    PROVE  SidesInv'
<1> USE EmptyOf
<1> DEFINE withSeconds == due \cup {s \in Seconds : FirstOf[s] \in due /\ source[s] # 0}
           alone == {s \in due : Second(s) /\ FirstOf[s] \notin withSeconds /\ source[FirstOf[s]] # 0}
           held  == {s \in alone : stored[FirstOf[s]] # None /\ stored[FirstOf[s]].hash = source[FirstOf[s]]}
           also  == {f \in {FirstOf[s] : s \in alone \ held} : job = "recheck" \/ ~Waiting(f, source[f], llm)}
<1>1. items' = [s \in withSeconds \cup also |-> source[s]] /\ partners' = [s \in held |-> stored[FirstOf[s]]]
    BY DEF Sides
<1>2. /\ UNCHANGED <<source, stored, rows, fixes, readers, extractor, recheckAfter, following, job>>
      /\ step = "sides" /\ step' = "read"
    BY DEF Sides, outside, walks
<1>3. AllSided /\ AtStep /\ DueIsStale /\ FixesFit /\ SidesMatch /\ PageCorrects
    BY DEF SidesInv
<1>4. rows = Empty /\ \A s : Coming(s) = stored[s]
    BY <1>2, <1>3 DEF AtStep, Coming
<1>5. due \subseteq Opened
    BY DEF TypeOK, JobTyped
<1>6. \A s \in alone : s \in due /\ s \in Seconds /\ job # "recheck"
    BY <1>2, <1>3, SidesOf DEF DueIsStale, Second
<1>7. also \subseteq Firsts
    BY <1>6, SidesOf
<1>8. \A f \in also : \E s \in alone : f = FirstOf[s]
    OBVIOUS
<1>9. DOMAIN items' = withSeconds \cup also /\ DOMAIN partners' = held
    BY <1>1
<1>10. ASSUME NEW f \in Firsts, f \in DOMAIN items' PROVE f \notin DOMAIN fixes
    <2>1. f \in due \/ f \in also
        BY <1>9, <1>10, SidesOf
    <2>2. CASE job = "recheck"
        <3>1. also = {}
            BY <1>6, <1>8, <2>2
        <3> QED BY <1>2, <1>3, <2>1, <2>2, <3>1 DEF DueIsStale
    <2>3. CASE job # "recheck"
        BY <1>3, <2>3 DEF AtStep
    <2> QED BY <2>2, <2>3
<1>11. ASSUME NEW s \in Seconds, FirstOf[s] \in DOMAIN items'
       PROVE  s \in DOMAIN items' /\ items'[s] = items'[FirstOf[s]]
    <2>1. source[s] = source[FirstOf[s]]
        BY DEF Together
    <2>2. FirstOf[s] \in due \/ FirstOf[s] \in also
        BY <1>9, <1>11, SidesOf
    <2>3. CASE FirstOf[s] \in due
        <3>1. source[FirstOf[s]] # 0
            BY <1>5, <2>3 DEF Opened
        <3> QED BY <1>1, <1>9, <1>11, <2>1, <2>3, <3>1
    <2>4. CASE FirstOf[s] \in also
        <3>1. PICK t \in alone : FirstOf[s] = FirstOf[t]
            BY <1>8, <2>4
        <3>2. s \in due
            BY <1>6, <3>1, SidesOf
        <3> QED BY <1>1, <1>9, <1>11, <2>1, <3>2
    <2> QED BY <2>2, <2>3, <2>4
<1>12. ASSUME NEW s \in Seconds, s \in DOMAIN partners'
       PROVE  partners'[s] = stored[FirstOf[s]] /\ partners'[s] # None /\ partners'[s].hash = items'[s]
    <2>1. s \in due /\ source[s] = source[FirstOf[s]]
        BY <1>6, <1>9, <1>12 DEF Together
    <2> QED BY <1>1, <1>9, <1>12, <2>1
<1>13. ASSUME NEW s \in Seconds, s \in DOMAIN items', FirstOf[s] \notin DOMAIN items'
       PROVE  job # "recheck" /\ (IsCurrent(FirstOf[s]) => stored[FirstOf[s]].method = "VENUE")
    <2>1. s \in due
        BY <1>7, <1>9, <1>13, SidesOf
    <2>2. job # "recheck" /\ ~IsCurrent(s)
        BY <1>2, <1>3, <2>1, SidesOf DEF DueIsStale
    <2>3. Matches(s, stored[FirstOf[s]], stored[s])
        BY <1>3, <1>4 DEF SidesMatch
    <2>4. stored[FirstOf[s]] # None => stored[FirstOf[s]].method \in {"VENUE", "LLM"}
        BY SidesOf DEF TypeOK, StoredTyped, Propositions
    <2> QED BY <2>2, <2>3, <2>4 DEF Matches, Fresh, IsCurrent
<1> HIDE DEF withSeconds, alone, held, also
<1>14. PlannedTogether'
    <2>1. \A f \in Firsts : IsCurrent(f)' = IsCurrent(f)
        BY <1>2 DEF IsCurrent
    <2>2. \A s \in Seconds : FirstOf[s] \in Firsts
        BY SidesOf
    <2> QED BY <1>2, <1>10, <1>11, <1>12, <1>13, <2>1, <2>2 DEF PlannedTogether
<1>15. AllSided' /\ FixesFit' /\ SidesMatch'
    BY <1>2, <1>3, SidesSame
<1>16. AtStep' /\ ReadTogether' /\ DueIsStale'
    BY <1>2, <1>3 DEF AtStep, ReadTogether, DueIsStale
<1>17. PageCorrects'
    BY <1>2, <1>3 DEF PageCorrects, Fresh, Coming
<1> QED BY <1>14, <1>15, <1>16, <1>17 DEF SidesInv

\* What may come of a first side is not negated, and read by code if the model is not asked.
LEMMA OutcomesSay ==
    ASSUME TypeOK, NEW f \in Firsts \cap DOMAIN items, NEW o \in Outcomes(f), o.got # None
    PROVE  /\ o.got.reading.negated = FALSE /\ o.got.version = extractor /\ o.got.hash = items[f]
           /\ job = "recheck" => o.got.method = "VENUE"
<1> DEFINE code == Reads[<<readers, f, items[f]>>]
           of(what, method) == Proposition([by |-> what, negated |-> FALSE], method, items[f])
<1>1. \A what, method : /\ of(what, method).reading.negated = FALSE /\ of(what, method).version = extractor
                        /\ of(what, method).hash = items[f] /\ of(what, method).method = method
    BY DEF Proposition
<1>2. \/ o = Read(of(code, "VENUE"))
      \/ job # "recheck" /\ o = Read(of(Corrected[readers], "LLM"))
      \/ \E why : o = Unread(why)
    BY DEF Outcomes, Asks
<1>3. ~\E why : o = Unread(why)
    BY DEF Unread
<1> HIDE DEF of, code
<1>4. \/ o.got = of(code, "VENUE")
      \/ job # "recheck" /\ o.got = of(Corrected[readers], "LLM")
    BY <1>2, <1>3 DEF Read
<1> QED BY <1>1, <1>4

\* A second side that is read with its first side, or from what is stored of it, differs only in what it negates.
LEMMA OfFirstSays ==
    ASSUME TypeOK, NEW s \in Seconds \cap DOMAIN items, NEW of,
           \A f \in Firsts \cap DOMAIN items : of[f].got = None \/ PropositionOf(f, of[f].got)
    PROVE  /\ FirstOf[s] \in DOMAIN items =>
                  /\ OfFirst(s, of).got = None <=> of[FirstOf[s]].got = None
                  /\ of[FirstOf[s]].got # None /\ of[FirstOf[s]].got.hash = items[s] =>
                         /\ SameBut(OfFirst(s, of).got, of[FirstOf[s]].got)
                         /\ OfFirst(s, of).got.reading.negated = ~of[FirstOf[s]].got.reading.negated
           /\ FirstOf[s] \notin DOMAIN items /\ OfFirst(s, of).got # None =>
                  /\ s \in DOMAIN partners
                  /\ OfFirst(s, of).got.reading = Negation(partners[s].reading)
                  /\ OfFirst(s, of).got.method = partners[s].method
                  /\ OfFirst(s, of).got.hash = items[s] /\ OfFirst(s, of).got.version = extractor
<1>1. FirstOf[s] \in Firsts
    BY SidesOf
<1>2. CASE FirstOf[s] \in DOMAIN items /\ of[FirstOf[s]].got = None
    BY <1>2 DEF OfFirst
<1>3. CASE FirstOf[s] \in DOMAIN items /\ of[FirstOf[s]].got # None
    <2> DEFINE p == of[FirstOf[s]].got
               q == [p EXCEPT !.hash = items[s], !.reading = Negation(@)]
    <2>1. p \in Propositions /\ p # None
        BY <1>1, <1>3 DEF PropositionOf
    <2>2. OfFirst(s, of).got = q
        BY <1>3 DEF OfFirst, Read
    <2>3. OfFirst(s, of).got # None
        <3>1. OfFirst(s, of).got = None \/ OfFirst(s, of).got \in Propositions
            BY OfFirstOf DEF PropositionOf
        <3>2. q.hash = items[s] /\ items[s] \in Nat \ {0}
            BY <2>1 DEF Propositions, TypeOK, JobTyped, OutsideTyped
        <3>3. q \in Propositions
            <4>1. Negation(p.reading) \in [by : Bys, negated : BOOLEAN]
                BY <2>1 DEF Propositions, Negation
            <4> QED BY <2>1, <3>2, <4>1 DEF Propositions
        <3> HIDE DEF q
        <3> QED BY <2>2, <3>3, ReadingAssumption
    <2> HIDE DEF p
    <2>4. /\ q.hash = items[s] /\ q.method = p.method /\ q.version = p.version
          /\ q.reading.by = p.reading.by /\ q.reading.negated = ~p.reading.negated
        BY <2>1 DEF Propositions, Negation
    <2> HIDE DEF q
    <2>5. p.hash = items[s] => SameBut(q, p)
        BY <2>4 DEF SameBut
    <2> QED BY <1>3, <2>1, <2>2, <2>3, <2>4, <2>5 DEF p
<1>4. CASE FirstOf[s] \notin DOMAIN items
    <2>1. s \notin DOMAIN partners => OfFirst(s, of).got = None
        BY <1>4 DEF OfFirst, Unread
    <2>2. s \in DOMAIN partners =>
              OfFirst(s, of).got = [reading |-> Negation(partners[s].reading), method |-> partners[s].method,
                                    hash |-> items[s], version |-> extractor]
        BY <1>4 DEF OfFirst, Read, Proposition
    <2> QED BY <1>4, <2>1, <2>2
<1> QED BY <1>2, <1>3, <1>4

\* What is read of the two sides is the same, but for the negation.
LEMMA SidesExtract ==
    ASSUME TypeOK, Together, SidesInv, failures = 0, Extract
    PROVE  SidesInv'
<1> USE EmptyOf
<1>1. PICK of \in [DOMAIN items \cap Firsts -> UNION {Outcomes(s) : s \in DOMAIN items \cap Firsts}] :
          /\ \A s \in DOMAIN of : of[s] \in Outcomes(s)
          /\ outcome' = [s \in DOMAIN items |-> IF Second(s) THEN OfFirst(s, of) ELSE of[s]]
    BY DEF Extract
<1>2. /\ UNCHANGED <<source, stored, rows, fixes, readers, extractor, recheckAfter, following, job, due>>
      /\ step = "read" /\ step' = "record"
    BY DEF Extract, outside, walks
<1>3. AllSided /\ AtStep /\ PlannedTogether /\ FixesFit /\ SidesMatch /\ PageCorrects
    BY DEF SidesInv
<1>4. ASSUME NEW f \in Firsts \cap DOMAIN items
      PROVE  /\ outcome'[f] = of[f] /\ of[f] \in Outcomes(f)
             /\ of[f].got = None \/ PropositionOf(f, of[f].got)
             /\ of[f].got # None =>
                    /\ of[f].got.reading.negated = FALSE /\ of[f].got.version = extractor /\ of[f].got.hash = items[f]
                    /\ job = "recheck" => of[f].got.method = "VENUE"
    <2>1. outcome'[f] = of[f] /\ of[f] \in Outcomes(f)
        BY <1>1, SidesOf DEF Second
    <2> QED BY <2>1, OutcomesOf, OutcomesSay
<1>5. DOMAIN outcome' = DOMAIN items /\ \A s \in Seconds \cap DOMAIN items : outcome'[s] = OfFirst(s, of)
    BY <1>1 DEF Second
<1>6. ASSUME NEW s \in Seconds, FirstOf[s] \in DOMAIN items
      PROVE  /\ s \in DOMAIN items
             /\ outcome'[s].got = None <=> outcome'[FirstOf[s]].got = None
             /\ outcome'[s].got # None => /\ SameBut(outcome'[s].got, outcome'[FirstOf[s]].got)
                                          /\ outcome'[s].got.reading.negated = TRUE
    <2>1. s \in DOMAIN items /\ items[s] = items[FirstOf[s]] /\ FirstOf[s] \in Firsts
        BY <1>2, <1>3, <1>6, SidesOf DEF PlannedTogether
    <2>2. outcome'[s] = OfFirst(s, of) /\ outcome'[FirstOf[s]] = of[FirstOf[s]]
        BY <1>4, <1>5, <1>6, <2>1
    <2>3. of[FirstOf[s]].got # None => of[FirstOf[s]].got.hash = items[s] /\ of[FirstOf[s]].got.reading.negated = FALSE
        BY <1>4, <1>6, <2>1
    <2>4. /\ OfFirst(s, of).got = None <=> of[FirstOf[s]].got = None
          /\ of[FirstOf[s]].got # None /\ of[FirstOf[s]].got.hash = items[s] =>
                 /\ SameBut(OfFirst(s, of).got, of[FirstOf[s]].got)
                 /\ OfFirst(s, of).got.reading.negated = ~of[FirstOf[s]].got.reading.negated
        BY <1>4, <1>6, <2>1, OfFirstSays
    <2> QED BY <2>1, <2>2, <2>3, <2>4
<1>7. ASSUME NEW s \in Seconds \cap DOMAIN items, FirstOf[s] \notin DOMAIN items
      PROVE  /\ job # "recheck"
             /\ outcome'[s].got # None =>
                    /\ outcome'[s].got.reading.negated = TRUE /\ outcome'[s].got.version = extractor
                    /\ IsCurrent(FirstOf[s]) =>
                           stored[FirstOf[s]].method = "VENUE" /\ SameBut(outcome'[s].got, stored[FirstOf[s]])
    <2>1. job # "recheck" /\ (IsCurrent(FirstOf[s]) => stored[FirstOf[s]].method = "VENUE")
        BY <1>2, <1>3, <1>7 DEF PlannedTogether
    <2> SUFFICES ASSUME outcome'[s].got # None
                 PROVE  /\ outcome'[s].got.reading.negated = TRUE /\ outcome'[s].got.version = extractor
                        /\ IsCurrent(FirstOf[s]) => SameBut(outcome'[s].got, stored[FirstOf[s]])
        BY <2>1
    <2>2. /\ s \in DOMAIN partners
          /\ outcome'[s].got.reading = Negation(partners[s].reading) /\ outcome'[s].got.method = partners[s].method
          /\ outcome'[s].got.hash = items[s] /\ outcome'[s].got.version = extractor
        <3>1. \A f \in Firsts \cap DOMAIN items : of[f].got = None \/ PropositionOf(f, of[f].got)
            BY <1>4
        <3>2. outcome'[s] = OfFirst(s, of)
            BY <1>5
        <3> QED BY <1>7, <3>1, <3>2, OfFirstSays
    <2>3. partners[s] = stored[FirstOf[s]] /\ partners[s] # None /\ partners[s].hash = items[s]
        BY <1>2, <1>3, <2>2 DEF PlannedTogether
    <2>4. FirstOf[s] \in Securities /\ FirstOf[s] \notin Seconds /\ partners[s] \in Propositions
        BY <2>2, SidesOf DEF TypeOK, JobTyped
    <2>5. partners[s].reading.negated = FALSE
        BY <1>3, <2>3, <2>4 DEF AllSided, Sided, Propositions
    <2>6. outcome'[s].got.reading.by = partners[s].reading.by /\ outcome'[s].got.reading.negated = TRUE
        BY <2>2, <2>4, <2>5 DEF Negation, Propositions
    <2>7. IsCurrent(FirstOf[s]) => SameBut(outcome'[s].got, stored[FirstOf[s]])
        BY <2>2, <2>3, <2>6 DEF IsCurrent, SameBut
    <2> QED BY <2>2, <2>6, <2>7
<1>8. ASSUME NEW s \in DOMAIN items, outcome'[s].got # None
      PROVE  /\ Sided(s, outcome'[s].got) /\ outcome'[s].got.version = extractor
             /\ job = "recheck" => outcome'[s].got.method = "VENUE"
    <2>1. CASE s \in Firsts
        BY <1>4, <1>8, <2>1, SidesOf DEF Sided
    <2>2. CASE s \in Seconds /\ FirstOf[s] \in DOMAIN items
        <3>1. FirstOf[s] \in Firsts \cap DOMAIN items
            BY <2>2, SidesOf
        <3>2. /\ outcome'[FirstOf[s]].got # None /\ SameBut(outcome'[s].got, outcome'[FirstOf[s]].got)
              /\ outcome'[s].got.reading.negated = TRUE
            BY <1>6, <1>8, <2>2
        <3> QED BY <1>4, <2>2, <3>1, <3>2 DEF Sided, SameBut
    <2>3. CASE s \in Seconds /\ FirstOf[s] \notin DOMAIN items
        BY <1>7, <1>8, <2>3 DEF Sided
    <2>4. s \in Firsts \/ s \in Seconds
        BY DEF TypeOK, JobTyped, Securities
    <2> QED BY <2>1, <2>2, <2>3, <2>4
<1>9. ReadTogether'
    <2>1. \A f \in Firsts : IsCurrent(f)' = IsCurrent(f)
        BY <1>2 DEF IsCurrent
    <2>2. \A f \in Firsts \cap DOMAIN outcome' : f \notin DOMAIN fixes
        BY <1>2, <1>3, <1>5 DEF PlannedTogether
    <2>3. \A s \in Seconds : FirstOf[s] \in Firsts
        BY SidesOf
    <2>4. \A s \in DOMAIN outcome' : outcome'[s].got # None => (outcome'[s].got.reading.negated <=> s \in Seconds)
        BY <1>5, <1>8 DEF Sided
    <2>5. \A s \in DOMAIN outcome' : outcome'[s].got # None =>
              /\ outcome'[s].got.version = extractor'
              /\ job' = "recheck" => outcome'[s].got.method = "VENUE"
        BY <1>2, <1>5, <1>8
    <2>6. ASSUME NEW s \in Seconds, FirstOf[s] \in DOMAIN outcome'
          PROVE  /\ s \in DOMAIN outcome'
                 /\ outcome'[s].got = None <=> outcome'[FirstOf[s]].got = None
                 /\ outcome'[s].got # None => SameBut(outcome'[s].got, outcome'[FirstOf[s]].got)
        BY <1>5, <1>6, <2>6
    <2>7. ASSUME NEW s \in Seconds, s \in DOMAIN outcome', FirstOf[s] \notin DOMAIN outcome'
          PROVE  /\ job' # "recheck"
                 /\ outcome'[s].got # None /\ IsCurrent(FirstOf[s])' =>
                        stored'[FirstOf[s]].method = "VENUE" /\ SameBut(outcome'[s].got, stored'[FirstOf[s]])
        BY <1>2, <1>5, <1>7, <2>1, <2>3, <2>7
    <2> QED BY <1>2, <2>2, <2>4, <2>5, <2>6, <2>7 DEF ReadTogether, SameBut, Sided
<1>10. AllSided' /\ FixesFit' /\ SidesMatch'
    BY <1>2, <1>3, SidesSame
<1>11. AtStep' /\ PlannedTogether' /\ DueIsStale'
    BY <1>2, <1>3 DEF AtStep, PlannedTogether, DueIsStale
<1>12. PageCorrects'
    BY <1>2, <1>3 DEF PageCorrects, Fresh, Coming
<1> QED BY <1>9, <1>10, <1>11, <1>12 DEF SidesInv

\* What was read of the two sides will be stored of both.
LEMMA SidesRecord ==
    ASSUME TypeOK, WalkInv, Together, SidesInv, failures = 0, Record
    PROVE  SidesInv'
<1> USE EmptyOf
<1> DEFINE got(s) == outcome[s].got
<1>1. /\ UNCHANGED <<source, stored, fixes, readers, extractor, recheckAfter, following, job, due>>
      /\ rows' = [s \in {t \in DOMAIN outcome : outcome[t].got # None} |-> outcome[s].got]
      /\ step = "record" /\ step' = "store"
    BY DEF Record, outside, walks
<1>2. AllSided /\ AtStep /\ ReadTogether /\ FixesFit /\ SidesMatch /\ PageCorrects
    BY DEF SidesInv
<1>3. /\ \A s : s \in DOMAIN rows' <=> s \in DOMAIN outcome /\ got(s) # None
      /\ \A s \in DOMAIN rows' : rows'[s] = got(s)
    BY <1>1
<1>4. /\ \A s : Coming(s) = stored[s]
      /\ \A s : Coming(s)' = IF s \in DOMAIN rows' THEN got(s) ELSE stored[s]
    BY <1>1, <1>2, <1>3 DEF AtStep, Coming
<1>5. ASSUME NEW s \in Seconds, FirstOf[s] \in DOMAIN rows'
      PROVE  s \in DOMAIN rows' /\ SameBut(got(s), got(FirstOf[s]))
    BY <1>1, <1>2, <1>3, <1>5 DEF ReadTogether
<1>6. ASSUME NEW s \in Seconds, s \in DOMAIN rows', FirstOf[s] \notin DOMAIN rows'
      PROVE  /\ job # "recheck"
             /\ IsCurrent(FirstOf[s]) =>
                    stored[FirstOf[s]].method = "VENUE" /\ SameBut(got(s), stored[FirstOf[s]])
    BY <1>1, <1>2, <1>3, <1>6 DEF ReadTogether
<1>7. ASSUME NEW s \in DOMAIN rows'
      PROVE  /\ got(s) \in Propositions /\ got(s) # None /\ s \in Securities
             /\ Sided(s, got(s)) /\ got(s).version = extractor /\ (job = "recheck" => got(s).method = "VENUE")
             /\ s \in Firsts => s \notin DOMAIN fixes /\ Good(s, got(s))
    <2>1. s \in DOMAIN outcome /\ got(s) # None
        BY <1>3
    <2>2. got(s) \in Propositions /\ s \in Securities
        BY <2>1 DEF TypeOK, JobTyped, PropositionOf
    <2>3. Sided(s, got(s)) /\ got(s).version = extractor /\ (job = "recheck" => got(s).method = "VENUE")
        BY <1>1, <1>2, <2>1 DEF ReadTogether
    <2>4. s \in Firsts => s \notin DOMAIN fixes /\ Good(s, got(s))
        BY <1>1, <1>2, <2>1 DEF ReadTogether, WalkInv, AtHandIsGood
    <2> QED BY <2>1, <2>2, <2>3, <2>4
<1> HIDE DEF got
<1>8. extractor \in Nat
    BY ReadingAssumption DEF TypeOK, OutsideTyped
<1>9. AllSided'
    BY <1>1, <1>2, <1>3, <1>7, <1>8 DEF AllSided, Sided
<1>10. FixesFit'
    <2>1. \A f \in Firsts \cap DOMAIN fixes : f \notin DOMAIN rows'
        BY <1>7
    <2>2. ASSUME NEW s \in Seconds \cap DOMAIN fixes
          PROVE  \/ Coming(s)' # None /\ Coming(s)'.hash = fixes[s].hash
                 \/ Coming(FirstOf[s])' # None /\ Coming(FirstOf[s])'.method = "VENUE"
        <3>1. job = "recheck"
            BY <1>2, <2>2 DEF AtStep
        <3>2. \/ stored[s] # None /\ stored[s].hash = fixes[s].hash
              \/ stored[FirstOf[s]] # None /\ stored[FirstOf[s]].method = "VENUE"
            BY <1>2, <1>4 DEF FixesFit
        <3>3. CASE FirstOf[s] \in DOMAIN rows'
            BY <1>4, <1>7, <3>1, <3>3
        <3>4. CASE FirstOf[s] \notin DOMAIN rows'
            <4>1. s \notin DOMAIN rows'
                BY <1>6, <3>1, <3>4
            <4> QED BY <1>4, <3>2, <3>4, <4>1
        <3> QED BY <3>3, <3>4
    <2> QED BY <1>1, <1>2, <2>1, <2>2 DEF FixesFit
<1>11. SidesMatch'
    <2> SUFFICES ASSUME NEW s \in Seconds PROVE Matches(s, Coming(FirstOf[s]), Coming(s))'
        BY DEF SidesMatch
    <2>1. source[s] = source[FirstOf[s]] /\ FirstOf[s] \in Firsts
        BY SidesOf DEF Together
    <2>2. Matches(s, stored[FirstOf[s]], stored[s])
        BY <1>2, <1>4 DEF SidesMatch
    <2>3. CASE FirstOf[s] \in DOMAIN rows'
        <3>1. Coming(s)' = got(s) /\ Coming(FirstOf[s])' = got(FirstOf[s]) /\ SameBut(got(s), got(FirstOf[s]))
            BY <1>4, <1>5, <2>3
        <3>2. got(s) # None /\ Good(FirstOf[s], got(FirstOf[s]))
            BY <1>5, <1>7, <2>1, <2>3
        <3>3. got(FirstOf[s]).method = "LLM" => got(FirstOf[s]).reading.by = Corrected[readers]
            BY <3>2 DEF Good
        <3> QED BY <1>1, <2>1, <3>1, <3>2, <3>3 DEF Matches, Fresh, SameBut
    <2>4. CASE FirstOf[s] \notin DOMAIN rows' /\ s \in DOMAIN rows'
        <3>1. Coming(s)' = got(s) /\ Coming(FirstOf[s])' = stored[FirstOf[s]]
            BY <1>4, <2>4
        <3>2. IsCurrent(FirstOf[s]) => stored[FirstOf[s]].method = "VENUE" /\ SameBut(got(s), stored[FirstOf[s]])
            BY <1>6, <2>4
        <3> QED BY <1>1, <3>1, <3>2 DEF Matches, Fresh, SameBut, IsCurrent
    <2>5. CASE FirstOf[s] \notin DOMAIN rows' /\ s \notin DOMAIN rows'
        BY <1>1, <1>4, <2>2, <2>5 DEF Matches, Fresh
    <2> QED BY <2>3, <2>4, <2>5
<1>12. PageCorrects'
    <2> SUFFICES ASSUME NEW s \in Seconds, job = "recheck",
                        Fresh(s, Coming(s))', Coming(s)'.method = "LLM", following = 0 \/ s <= following,
                        Fresh(FirstOf[s], Coming(FirstOf[s]))'
                 PROVE  s \in DOMAIN fixes \/ Coming(s)'.reading.by = Corrected[readers]
        BY <1>1 DEF PageCorrects
    <2>1. s \notin DOMAIN rows'
        BY <1>4, <1>7
    <2>2. FirstOf[s] \notin DOMAIN rows'
        BY <1>5, <2>1
    <2> QED BY <1>1, <1>2, <1>4, <2>1, <2>2 DEF PageCorrects, Fresh
<1>13. AtStep' /\ PlannedTogether' /\ ReadTogether' /\ DueIsStale'
    BY <1>1, <1>2 DEF AtStep, PlannedTogether, ReadTogether, DueIsStale
<1> QED BY <1>9, <1>10, <1>11, <1>12, <1>13 DEF SidesInv

\* Storing some rows leaves what will be stored.
LEMMA SidesStoreChunk ==
    ASSUME TypeOK, Together, SidesInv, failures = 0, StoreChunk
    PROVE  SidesInv'
<1> USE EmptyOf
<1>1. PICK chunk : /\ stored' = [s \in Securities |-> IF s \in chunk THEN rows[s] ELSE stored[s]]
                   /\ chunk \subseteq DOMAIN rows /\ rows' = Without(rows, chunk)
    <2>1. Page(DOMAIN rows, ChunkRows, 0) \subseteq DOMAIN rows
        BY DEF Page
    <2> QED BY <2>1 DEF StoreChunk
<1>2. /\ UNCHANGED <<readers, extractor, recheckAfter, source, step, job, due, fixes, following>>
      /\ step = "store"
    BY DEF StoreChunk, outside, walks
<1>3. AllSided /\ AtStep /\ FixesFit /\ SidesMatch /\ PageCorrects
    BY DEF SidesInv
<1>4. DOMAIN rows' = DOMAIN rows \ chunk /\ \A s \in DOMAIN rows' : rows'[s] = rows[s]
    BY <1>1 DEF Without
<1>5. DOMAIN rows \subseteq Securities
    BY DEF TypeOK, JobTyped
<1>6. ASSUME NEW s \in Securities PROVE Coming(s)' = Coming(s)
    BY <1>1, <1>4 DEF Coming
<1>7. \A s \in Seconds : s \in Securities /\ FirstOf[s] \in Securities
    BY SidesOf
<1>8. AllSided'
    BY <1>1, <1>2, <1>3, <1>4 DEF AllSided, Sided
<1>9. FixesFit'
    <2>1. \A f \in Firsts \cap DOMAIN fixes : stored'[f] = stored[f] /\ f \notin DOMAIN rows'
        BY <1>1, <1>3, <1>4, SidesOf DEF FixesFit
    <2> QED BY <1>2, <1>3, <1>6, <1>7, <2>1 DEF FixesFit
<1>10. SidesMatch'
    BY <1>2, <1>3, <1>6, <1>7 DEF SidesMatch, Matches, Fresh
<1>11. PageCorrects'
    BY <1>2, <1>3, <1>6, <1>7 DEF PageCorrects, Fresh
<1>12. AtStep' /\ PlannedTogether' /\ ReadTogether' /\ DueIsStale'
    BY <1>2, <1>3 DEF AtStep, PlannedTogether, ReadTogether, DueIsStale
<1> QED BY <1>8, <1>9, <1>10, <1>11, <1>12 DEF SidesInv

\* A correction leaves what it corrects as up to date as it was, unless code has read its first side anew.
LEMMA SidesStoreFixes ==
    ASSUME TypeOK, Together, SidesInv, failures = 0, StoreFixes
    PROVE  SidesInv'
<1> USE EmptyOf
<1>1. /\ UNCHANGED <<readers, extractor, recheckAfter, source, stored, step, job, due, following>> /\ step = "store"
      /\ fixes' = Empty /\ rows = Empty
      /\ rows' = [s \in DOMAIN fixes |-> [fixes[s] EXCEPT !.version = stored[s].version]]
    BY DEF StoreFixes, outside, walks
<1>2. AllSided /\ AtStep /\ FixesFit /\ SidesMatch /\ PageCorrects
    BY DEF SidesInv
<1>3. DOMAIN rows' = DOMAIN fixes
    BY <1>1
<1>4. /\ \A s : Coming(s) = stored[s]
      /\ \A s : Coming(s)' = IF s \in DOMAIN fixes THEN rows'[s] ELSE stored[s]
    BY <1>1, <1>3 DEF Coming
<1>5. ASSUME NEW s \in DOMAIN fixes
      PROVE  /\ s \in Securities /\ stored[s] # None /\ rows'[s] # None
             /\ rows'[s].reading = fixes[s].reading /\ rows'[s].method = "LLM" /\ rows'[s].hash = fixes[s].hash
             /\ rows'[s].version = stored[s].version
    <2>1. s \in Securities /\ stored[s] # None /\ fixes[s] \in Propositions /\ stored[s] \in Propositions
        BY DEF TypeOK, JobTyped, StoredTyped, PropositionOf
    <2>2. fixes[s].method = "LLM"
        BY <1>2, <2>1 DEF FixesFit, Securities
    <2>3. rows'[s] = [fixes[s] EXCEPT !.version = stored[s].version]
        BY <1>1
    <2>4. rows'[s] \in Propositions
        BY <2>1, <2>3 DEF Propositions
    <2>5. rows'[s] # None
        BY <2>4, ReadingAssumption
    <2>6. /\ rows'[s].reading = fixes[s].reading /\ rows'[s].method = fixes[s].method /\ rows'[s].hash = fixes[s].hash
          /\ rows'[s].version = stored[s].version
        BY <2>1, <2>3 DEF Propositions
    <2> QED BY <2>1, <2>2, <2>5, <2>6
<1>6. ASSUME NEW f \in Firsts
      PROVE  /\ Fresh(f, Coming(f))' <=> Fresh(f, stored[f])
             /\ f \in DOMAIN fixes => stored[f].method = "LLM"
             /\ f \notin DOMAIN fixes => Coming(f)' = stored[f]
    <2>1. CASE f \in DOMAIN fixes
        <3>1. fixes[f].hash = stored[f].hash /\ stored[f].method = "LLM"
            BY <1>2, <2>1 DEF FixesFit
        <3> QED BY <1>1, <1>4, <1>5, <2>1, <3>1 DEF Fresh
    <2>2. CASE f \notin DOMAIN fixes
        BY <1>1, <1>4, <2>2 DEF Fresh
    <2> QED BY <2>1, <2>2
<1>7. AllSided'
    <2>1. ASSUME NEW s \in DOMAIN rows' PROVE Sided(s, rows'[s]) /\ rows'[s].version <= extractor
        <3>1. s \in DOMAIN fixes
            BY <1>3
        <3> QED BY <1>2, <1>5, <3>1 DEF AllSided, Sided
    <2> QED BY <1>1, <1>2, <2>1 DEF AllSided, Sided
<1>8. FixesFit'
    BY <1>1 DEF FixesFit
<1>9. SidesMatch'
    <2> SUFFICES ASSUME NEW s \in Seconds PROVE Matches(s, Coming(FirstOf[s]), Coming(s))'
        BY DEF SidesMatch
    <2>1. FirstOf[s] \in Firsts
        BY SidesOf
    <2>2. Matches(s, stored[FirstOf[s]], stored[s])
        BY <1>2, <1>4 DEF SidesMatch
    <2>3. Coming(FirstOf[s])'.method = "LLM" => stored[FirstOf[s]].method = "LLM"
        BY <1>6, <2>1
    <2>4. CASE s \in DOMAIN fixes
        <3>1. Coming(s)' = rows'[s] /\ rows'[s].method = "LLM" /\ rows'[s].reading.by = Corrected[readers]
            BY <1>2, <1>4, <1>5, <2>4 DEF FixesFit
        <3>2. Fresh(s, stored[s]) /\ stored[FirstOf[s]].method = "LLM" => Fresh(s, rows'[s])
            <4>1. stored[FirstOf[s]].method = "LLM" => stored[s].hash = fixes[s].hash
                BY <1>2, <1>4, <2>4 DEF FixesFit
            <4> QED BY <1>5, <2>4, <4>1 DEF Fresh
        <3>3. Fresh(FirstOf[s], stored[FirstOf[s]]) /\ stored[FirstOf[s]].method = "LLM" => Fresh(s, rows'[s])
            BY <2>2, <3>2 DEF Matches
        <3>4. Fresh(s, Coming(s))' <=> Fresh(s, rows'[s])
            BY <1>1, <3>1 DEF Fresh
        <3> QED BY <1>1, <1>6, <2>1, <2>3, <3>1, <3>3, <3>4 DEF Matches
    <2>5. CASE s \notin DOMAIN fixes
        <3>1. Coming(s)' = stored[s]
            BY <1>4, <2>5
        <3>2. Fresh(s, Coming(s))' <=> Fresh(s, stored[s])
            BY <1>1, <3>1 DEF Fresh
        <3>3. Fresh(FirstOf[s], Coming(FirstOf[s]))' => Fresh(FirstOf[s], stored[FirstOf[s]])
            BY <1>6, <2>1
        <3>4. FirstOf[s] \in DOMAIN fixes => stored[FirstOf[s]].method = "LLM"
            BY <1>6, <2>1
        <3>5. FirstOf[s] \notin DOMAIN fixes => Coming(FirstOf[s])' = stored[FirstOf[s]]
            BY <1>6, <2>1
        <3> QED BY <1>1, <2>2, <2>3, <3>1, <3>2, <3>3, <3>4, <3>5 DEF Matches
    <2> QED BY <2>4, <2>5
<1>10. PageCorrects'
    <2> SUFFICES ASSUME NEW s \in Seconds, job = "recheck",
                        Fresh(s, Coming(s))', Coming(s)'.method = "LLM", following = 0 \/ s <= following,
                        Fresh(FirstOf[s], Coming(FirstOf[s]))'
                 PROVE  Coming(s)'.reading.by = Corrected[readers]
        BY <1>1 DEF PageCorrects
    <2>1. CASE s \in DOMAIN fixes
        BY <1>2, <1>4, <1>5, <2>1 DEF FixesFit
    <2>2. CASE s \notin DOMAIN fixes
        <3>1. Coming(s)' = stored[s]
            BY <1>4, <2>2
        <3>2. Fresh(FirstOf[s], stored[FirstOf[s]])
            BY <1>6, SidesOf
        <3>3. Fresh(s, stored[s])
            BY <1>1, <3>1 DEF Fresh
        <3> QED BY <1>1, <1>2, <1>4, <2>2, <3>1, <3>2, <3>3 DEF PageCorrects
    <2> QED BY <2>1, <2>2
<1>11. AtStep' /\ PlannedTogether' /\ ReadTogether' /\ DueIsStale'
    BY <1>1, <1>2 DEF AtStep, PlannedTogether, ReadTogether, DueIsStale
<1> QED BY <1>7, <1>8, <1>9, <1>10, <1>11 DEF SidesInv

\* A page that is done has been corrected.
LEMMA SidesReadDone ==
    ASSUME TypeOK, Together, SidesInv, failures = 0, ReadDone
    PROVE  SidesInv'
<1> USE EmptyOf
<1>1. /\ UNCHANGED <<readers, extractor, source, stored, job, following>> /\ Forgotten
      /\ step = "store" /\ rows = Empty /\ fixes = Empty /\ step' \in {"backlog", "recheck", "end"}
    BY DEF ReadDone, outside
<1>2. AllSided /\ SidesMatch /\ PageCorrects
    BY DEF SidesInv
<1>3. /\ fixes' = Empty /\ rows' = Empty
      /\ \A s : Coming(s) = stored[s] /\ Coming(s)' = stored[s]
    BY <1>1 DEF Forgotten, Coming
<1>4. AllSided' /\ FixesFit'
    BY <1>1, <1>2, <1>3 DEF AllSided, Sided, FixesFit
<1>5. AtStep' /\ DueIsStale' /\ PlannedTogether' /\ ReadTogether' /\ PageCorrects'
    BY <1>1, <1>3 DEF AtStep, DueIsStale, PlannedTogether, ReadTogether, PageCorrects
<1>6. SidesMatch'
    <2>1. CASE job # "recheck"
        <3>1. job \in {"messages", "backlog"}
            BY <1>1, <2>1 DEF TypeOK, JobTyped, Jobs
        <3>2. recheckAfter' = recheckAfter
            BY <3>1 DEF ReadDone, walks
        <3> QED BY <1>1, <1>2, <1>3, <3>2 DEF SidesMatch, Matches, Fresh
    <2>2. CASE job = "recheck"
        <3>1. recheckAfter' = IF following = 0 THEN None ELSE following
            BY <2>2 DEF ReadDone
        <3>2. following \in Nat /\ following # None
            BY ReadingAssumption DEF TypeOK, WalksTyped
        <3>3. \A s : recheckAfter' = None \/ s <= recheckAfter' => following = 0 \/ s <= following
            BY <3>1, <3>2
        <3>4. ASSUME NEW s \in Seconds PROVE Matches(s, Coming(FirstOf[s]), Coming(s))'
            <4>1. Matches(s, stored[FirstOf[s]], stored[s])
                BY <1>2, <1>3 DEF SidesMatch
            <4>2. Fresh(s, stored[s]) /\ stored[s].method = "LLM" /\ (following = 0 \/ s <= following)
                  /\ Fresh(FirstOf[s], stored[FirstOf[s]]) => stored[s].reading.by = Corrected[readers]
                BY <1>1, <1>2, <1>3, <2>2 DEF PageCorrects
            <4> QED BY <1>1, <1>3, <3>3, <4>1, <4>2 DEF Matches, Fresh
        <3> QED BY <3>4 DEF SidesMatch
    <2> QED BY <2>1, <2>2
<1> QED BY <1>4, <1>5, <1>6 DEF SidesInv

\* A pass ends with nothing at hand, and so does a process that is told to stop between passes.
LEMMA SidesRest ==
    ASSUME UNCHANGED <<source, stored>>, Rest, rows = Empty, AllSided,
           \A s \in Seconds : Matches(s, stored[FirstOf[s]], stored[s])',
           extractor \in Nat, extractor' \in Nat, extractor <= extractor', StoredTyped
    PROVE  SidesInv'
<1> USE EmptyOf
<1>1. /\ step' = "idle" /\ job' = None /\ due' = {} /\ items' = Empty /\ outcome' = Empty /\ rows' = Empty
      /\ fixes' = Empty
    BY DEF Rest, Forgotten
<1>2. \A s : Coming(s)' = stored'[s]
    BY <1>1 DEF Coming
<1>3. \A s \in Securities : stored[s] # None => stored[s].version \in Nat
    BY DEF StoredTyped, Propositions
<1>4. AllSided' /\ FixesFit'
    BY <1>1, <1>3 DEF AllSided, Sided, FixesFit
<1>5. AtStep' /\ DueIsStale' /\ PlannedTogether' /\ ReadTogether' /\ PageCorrects'
    BY <1>1 DEF AtStep, DueIsStale, PlannedTogether, ReadTogether, PageCorrects
<1>6. SidesMatch'
    BY <1>2 DEF SidesMatch, Matches
<1> QED BY <1>4, <1>5, <1>6 DEF SidesInv

\* What is up to date after a market is written was up to date before: it is another market's.
LEMMA StillFresh ==
    ASSUME TypeOK, SourceWritten, NEW s \in Securities
    PROVE  /\ Fresh(s, Coming(s))' => Fresh(s, Coming(s)) /\ source'[s] = source[s]
           /\ IsCurrent(s)' => IsCurrent(s)
           /\ Coming(s)' = Coming(s)
<1>1. UNCHANGED <<stored, rows, extractor>>
    BY DEF SourceWritten, jobVars
<1>2. Coming(s)' = Coming(s)
    BY <1>1 DEF Coming
<1>3. source[s] \in Nat /\ source'[s] \in Nat /\ source[s] <= source'[s]
    BY SourcesGrow DEF TypeOK, OutsideTyped
<1>4. Coming(s) # None => Coming(s).hash <= source[s] /\ Coming(s).hash \in Nat
    BY ComingOf DEF Propositions
<1>5. stored[s] # None => stored[s].hash <= source[s] /\ stored[s].hash \in Nat
    BY DEF TypeOK, StoredTyped, PropositionOf, Propositions
<1>6. Fresh(s, Coming(s))' => Fresh(s, Coming(s)) /\ source'[s] = source[s]
    BY <1>1, <1>2, <1>3, <1>4 DEF Fresh
<1>7. IsCurrent(s)' => IsCurrent(s)
    BY <1>1, <1>3, <1>5 DEF IsCurrent
<1> QED BY <1>2, <1>6, <1>7

\* A market written meanwhile has neither side up to date.
LEMMA SidesWritten ==
    ASSUME TypeOK, Together, SidesInv, failures = 0, SourceWritten
    PROVE  SidesInv'
<1>1. UNCHANGED <<stored, rows, fixes, readers, extractor, recheckAfter, following, step, job, due, items, partners,
                  outcome>>
    BY DEF SourceWritten, jobVars, walks
<1>2. AllSided /\ AtStep /\ DueIsStale /\ PlannedTogether /\ ReadTogether /\ FixesFit /\ SidesMatch /\ PageCorrects
    BY DEF SidesInv
<1>3. ASSUME NEW s \in Seconds
      PROVE  /\ Fresh(FirstOf[s], Coming(FirstOf[s]))' =>
                    Fresh(FirstOf[s], Coming(FirstOf[s])) /\ source'[s] = source[s]
             /\ Coming(s)' = Coming(s) /\ Coming(FirstOf[s])' = Coming(FirstOf[s])
             /\ IsCurrent(FirstOf[s])' => IsCurrent(FirstOf[s])
             /\ Fresh(s, Coming(s))' => Fresh(s, Coming(s))
    <2>1. s \in Securities /\ FirstOf[s] \in Securities
        BY SidesOf
    <2>2. source[s] = source[FirstOf[s]] /\ source'[s] = source'[FirstOf[s]]
        BY TogetherStep DEF Together, Next
    <2> QED BY <2>1, <2>2, StillFresh
<1>4. AllSided' /\ FixesFit'
    BY <1>1, <1>2, <1>3 DEF AllSided, Sided, FixesFit
<1>5. SidesMatch'
    <2> SUFFICES ASSUME NEW s \in Seconds PROVE Matches(s, Coming(FirstOf[s]), Coming(s))'
        BY DEF SidesMatch
    <2>1. Matches(s, Coming(FirstOf[s]), Coming(s))
        BY <1>2 DEF SidesMatch
    <2>2. /\ Coming(s)' = Coming(s) /\ Coming(FirstOf[s])' = Coming(FirstOf[s])
          /\ Fresh(FirstOf[s], Coming(FirstOf[s]))' => Fresh(FirstOf[s], Coming(FirstOf[s])) /\ source'[s] = source[s]
        BY <1>3
    <2>3. source'[s] = source[s] => (Fresh(s, Coming(s))' <=> Fresh(s, Coming(s)))
        BY <1>1, <2>2 DEF Fresh
    <2> QED BY <1>1, <2>1, <2>2, <2>3 DEF Matches
<1>6. PageCorrects'
    BY <1>1, <1>2, <1>3 DEF PageCorrects
<1>7. DueIsStale'
    <2>1. \A s \in due : s \in Securities
        BY DEF TypeOK, JobTyped, Opened
    <2>2. \A s \in due : IsCurrent(s)' => IsCurrent(s)
        BY <2>1, StillFresh
    <2> QED BY <1>1, <1>2, <2>2 DEF DueIsStale
<1>8. PlannedTogether'
    BY <1>1, <1>2, <1>3 DEF PlannedTogether
<1>9. ReadTogether'
    BY <1>1, <1>2, <1>3 DEF ReadTogether, Sided, SameBut
<1>10. AtStep'
    BY <1>1, <1>2 DEF AtStep
<1> QED BY <1>4, <1>5, <1>6, <1>7, <1>8, <1>9, <1>10 DEF SidesInv

\* Every step keeps what is said of the two sides of a binary, while no pass is cut off.
LEMMA SidesStep == TypeOK /\ WalkInv /\ Together /\ SidesInv /\ [Next]_vars => SidesInv'
<1> SUFFICES ASSUME TypeOK, WalkInv, Together, SidesInv, [Next]_vars, failures' = 0 PROVE SidesInv'
    BY DEF SidesInv
<1>1. failures = 0 /\ failures \in Nat
    <2>1. failures \in Nat
        BY ReadingAssumption DEF TypeOK, OutsideTyped
    <2>2. failures' = failures \/ failures' = failures + 1
        BY DEF Next, Worker, Pass, Receive, StartBacklog, Backlog, Recheck, Sides, Extract, Record, StoreChunk, StoreFixes,
               ReadDone, NothingToRecheck, PassEnds, PassFails, Restarts, SourceWritten, LlmFlips, AttemptLost, Tick,
               vars, outside
    <2> QED BY <2>1, <2>2
<1>2. AllSided /\ AtStep /\ SidesMatch
    BY <1>1 DEF SidesInv
<1>3. extractor \in Nat /\ StoredTyped
    BY ReadingAssumption DEF TypeOK, OutsideTyped
<1>4. rows = Empty => \A s \in Seconds : Matches(s, stored[FirstOf[s]], stored[s])
    <2> SUFFICES ASSUME rows = Empty PROVE \A s \in Seconds : Matches(s, stored[FirstOf[s]], stored[s])
        OBVIOUS
    <2>1. \A s : Coming(s) = stored[s]
        BY EmptyOf DEF Coming
    <2> QED BY <1>2, <2>1 DEF SidesMatch
<1>5. CASE Receive \/ StartBacklog
    BY <1>1, <1>5, SidesReceive
<1>6. CASE Recheck
    BY <1>1, <1>6, SidesRecheck
<1>7. CASE Sides
    BY <1>1, <1>7, SidesPlan
<1>8. CASE Extract
    BY <1>1, <1>8, SidesExtract
<1>9. CASE Record
    BY <1>1, <1>9, SidesRecord
<1>10. CASE StoreChunk
    BY <1>1, <1>10, SidesStoreChunk
<1>11. CASE StoreFixes
    BY <1>1, <1>11, SidesStoreFixes
<1>12. CASE ReadDone
    BY <1>1, <1>12, SidesReadDone
<1>13. CASE SourceWritten
    BY <1>1, <1>13, SidesWritten
<1>14. CASE PassEnds
    <2>1. /\ UNCHANGED <<source, stored, extractor, readers, recheckAfter>> /\ Rest /\ step = "end"
        BY <1>14 DEF PassEnds, walks
    <2>2. rows = Empty
        BY <1>2, <2>1 DEF AtStep
    <2>3. \A s \in Seconds : Matches(s, stored[FirstOf[s]], stored[s])'
        BY <1>4, <2>1, <2>2 DEF Matches, Fresh
    <2> QED BY <1>2, <1>3, <2>1, <2>2, <2>3, SidesRest
<1>15. CASE PassFails
    BY <1>1, <1>15 DEF PassFails
<1>16. CASE Restarts
    <2>1. PICK r \in readers..MaxReaders, e \in extractor..MaxExtractor :
              /\ IF step = "idle" THEN <<r, e>> # <<readers, extractor>> ELSE failures' = failures + 1
              /\ readers' = r /\ extractor' = e /\ recheckAfter' = IF marker = r THEN None ELSE 0
        BY <1>16 DEF Restarts
    <2>2. UNCHANGED <<source, stored>> /\ Rest
        BY <1>16 DEF Restarts
    <2>3. step = "idle" /\ <<r, e>> # <<readers, extractor>>
        BY <1>1, <2>1
    <2>4. rows = Empty
        BY <1>2, <2>3 DEF AtStep
    <2>5. r \in Nat /\ e \in Nat /\ extractor <= e /\ readers <= r /\ marker <= readers /\ marker \in Nat /\ readers \in Nat
        BY <1>3, <2>1, ReadingAssumption DEF TypeOK, OutsideTyped
    <2>6. ASSUME NEW s \in Seconds PROVE Matches(s, stored[FirstOf[s]], stored[s])'
        <3>1. CASE e # extractor
            <4>1. FirstOf[s] \in Securities
                BY SidesOf
            <4>2. stored[FirstOf[s]] # None => stored[FirstOf[s]].version <= extractor /\ stored[FirstOf[s]].version \in Nat
                BY <1>2, <1>3, <4>1 DEF AllSided, StoredTyped, Propositions
            <4>3. ~Fresh(FirstOf[s], stored[FirstOf[s]])'
                BY <1>3, <2>1, <2>2, <2>5, <3>1, <4>2 DEF Fresh
            <4> QED BY <4>3 DEF Matches
        <3>2. CASE e = extractor
            <4>1. r # readers
                BY <2>3, <3>2
            <4>2. recheckAfter' = 0 /\ 0 # None
                BY <2>1, <2>5, <4>1, ReadingAssumption
            <4>3. ~(s <= 0)
                BY ReadingAssumption
            <4>4. extractor' = extractor
                BY <2>1, <3>2
            <4> QED BY <1>4, <2>2, <2>4, <4>2, <4>3, <4>4 DEF Matches, Fresh
        <3> QED BY <3>1, <3>2
    <2> QED BY <1>2, <1>3, <2>1, <2>2, <2>4, <2>5, <2>6, SidesRest
<1>17. CASE NothingToRecheck \/ LlmFlips \/ AttemptLost \/ Tick \/ UNCHANGED vars
    <2>1. /\ UNCHANGED <<source, stored, readers, extractor, recheckAfter, following, job, due, items, partners, outcome,
                         rows, fixes>>
          /\ \/ UNCHANGED step
             \/ step = "recheck" /\ step' = "end"
        BY <1>17 DEF NothingToRecheck, LlmFlips, AttemptLost, Tick, vars, jobVars, walks, outside
    <2>2. DueIsStale /\ PlannedTogether /\ ReadTogether /\ FixesFit /\ PageCorrects
        BY <1>1 DEF SidesInv
    <2>3. AllSided' /\ FixesFit' /\ SidesMatch'
        BY <1>2, <2>1, <2>2, SidesSame
    <2>4. \A s : IsCurrent(s)' = IsCurrent(s)
        BY <2>1 DEF IsCurrent
    <2>5. AtStep' /\ DueIsStale' /\ PlannedTogether'
        BY <1>2, <2>1, <2>2, <2>4 DEF AtStep, DueIsStale, PlannedTogether
    <2>6. ReadTogether'
        BY <2>1, <2>2, <2>4 DEF ReadTogether, Sided, SameBut
    <2>7. PageCorrects'
        BY <2>1, <2>2 DEF PageCorrects, Fresh, Coming
    <2> QED BY <2>3, <2>5, <2>6, <2>7 DEF SidesInv
<1> QED BY <1>5, <1>6, <1>7, <1>8, <1>9, <1>10, <1>11, <1>12, <1>13, <1>14, <1>15, <1>16, <1>17 DEF Next, Worker, Pass

\* If no pass was cut off, the two sides of a binary say the opposite of each other, or the second side has what the
\* model once said of it, corrected, while code has read the first: nothing else sets them apart, however passes, the
\* backlog, the re-check, new sources, releases and restarts interleave.
THEOREM SidesDifferOnlyCorrected == Spec => []SidesAgreeUnlessCorrected
<1>1. Init => TypeOK /\ WalkInv /\ Together /\ SidesInv
    <2> SUFFICES ASSUME Init PROVE WalkInv /\ Together /\ SidesInv
        BY InitTypeOK
    <2>1. \A s \in Seconds : s \in Securities /\ FirstOf[s] \in Securities
        BY SidesOf
    <2>2. WalkInv
        BY EmptyOf DEF Init, WalkInv, AtHandIsGood, PassedIsGood, PageIsGood, Settled, Securities
    <2>3. Together
        BY <2>1 DEF Init, Together
    <2>4. \A s \in Securities : Coming(s) = None
        BY EmptyOf DEF Init, Coming
    <2>5. SidesInv
        BY <2>1, <2>4, EmptyOf DEF Init, SidesInv, AllSided, AtStep, DueIsStale, PlannedTogether, ReadTogether, FixesFit,
                              SidesMatch, Matches, Fresh, PageCorrects
    <2> QED BY <2>2, <2>3, <2>5
<1>2. TypeOK /\ WalkInv /\ Together /\ SidesInv /\ [Next]_vars => (TypeOK /\ WalkInv /\ Together /\ SidesInv)'
    BY NextTypeOK, WalkStep, TogetherStep, SidesStep
<1>3. TypeOK /\ WalkInv /\ SidesInv => SidesAgreeUnlessCorrected
    <2> SUFFICES ASSUME TypeOK, WalkInv, SidesInv, failures = 0, NEW s \in Seconds, SettledPair(s)
                 PROVE  \/ stored[s].reading = Negation(stored[FirstOf[s]].reading)
                        \/ /\ stored[s] = [stored[s] EXCEPT !.method = "LLM", !.reading.by = Corrected[readers]]
                           /\ stored[FirstOf[s]].method = "VENUE"
        BY DEF SidesAgreeUnlessCorrected
    <2> DEFINE a == stored[FirstOf[s]]
               b == stored[s]
    <2>1. AllSided /\ AtStep /\ SidesMatch /\ PassedIsGood
        BY DEF SidesInv, WalkInv
    <2>2. step = "idle" /\ recheckAfter = None /\ IsCurrent(s) /\ IsCurrent(FirstOf[s])
        BY DEF SettledPair
    <2>3. s \in Securities /\ FirstOf[s] \in Securities /\ FirstOf[s] \in Firsts /\ FirstOf[s] \notin Seconds
        BY SidesOf
    <2>4. a \in Propositions /\ b \in Propositions /\ a # None /\ b # None
        BY <2>2, <2>3 DEF IsCurrent, TypeOK, StoredTyped
    <2>5. a.reading.negated = FALSE /\ b.reading.negated = TRUE
        BY <2>1, <2>3, <2>4 DEF AllSided, Sided, Propositions
    <2>6. Coming(s) = b /\ Coming(FirstOf[s]) = a
        BY <2>1, <2>2, EmptyOf DEF AtStep, Coming
    <2>7. Matches(s, a, b)
        <3>1. Matches(s, Coming(FirstOf[s]), Coming(s))
            BY <2>1 DEF SidesMatch
        <3> QED BY <2>6, <3>1
    <2>8. Fresh(s, b) /\ Fresh(FirstOf[s], a)
        BY <2>2 DEF IsCurrent, Fresh
    <2>9. Good(FirstOf[s], a)
        BY <2>1, <2>2, <2>3 DEF PassedIsGood, Settled, IsCurrent
    <2> HIDE DEF a, b
    <2>10. b.reading.by = a.reading.by => b.reading = Negation(a.reading)
        BY <2>4, <2>5 DEF Negation, Propositions
    <2>11. CASE b.method = "VENUE"
        BY <2>7, <2>8, <2>10, <2>11 DEF Matches, a, b
    <2>12. CASE b.method = "LLM"
        <3>1. b.reading.by = Corrected[readers]
            BY <2>2, <2>7, <2>8, <2>12 DEF Matches
        <3>2. b = [b EXCEPT !.method = "LLM", !.reading.by = Corrected[readers]]
            BY <2>4, <2>12, <3>1 DEF Propositions
        <3>3. a.method = "LLM" => a.reading.by = b.reading.by
            BY <2>9, <3>1 DEF Good
        <3>4. a.method \in {"LLM", "VENUE"}
            BY <2>4 DEF Propositions
        <3> QED BY <2>10, <3>2, <3>3, <3>4 DEF a, b
    <2>13. b.method \in {"LLM", "VENUE"}
        BY <2>4 DEF Propositions
    <2> QED BY <2>11, <2>12, <2>13
<1> QED BY <1>1, <1>2, <1>3, PTL DEF Spec

=============================================================================
