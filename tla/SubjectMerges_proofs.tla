------------------------ MODULE SubjectMerges_proofs ------------------------
(***************************************************************************)
(* Proofs about SubjectMerges, for every set of subjects and of pairs that *)
(* are found, every answer of the judge and every outcome of the checks:   *)
(* that the pass keeps what MergeDecisions promises, that a merge rests on *)
(* its verdict, and that a pair held for a person reaches the queue.       *)
(***************************************************************************)
EXTENDS SubjectMerges, FiniteSetTheorems, TLAPS

-----------------------------------------------------------------------------
(* Type correctness.  The counts and volumes a pass sums up are only read  *)
(* to order the pairs, so nothing is said of them.                         *)

Stage  == {"idle", "recall", "judge", "handle", "align", "sweep"}
Queued == {None, "PENDING", "MERGED", "DISMISSED"}

RegistryTyped ==
    /\ canon \in [Subject -> Subject] /\ own \in [Subject -> Nat]
    /\ open \subseteq Subject /\ aligned \subseteq Subject
    /\ queue \in [Pair -> Queued]
    /\ unmerged \subseteq Pair /\ seen \subseteq Pair

HasFields(r) == r = [print |-> r.print, verdict |-> r.verdict, counts |-> r.counts,
                     outcome |-> r.outcome, rules |-> r.rules]

MemoryTyped ==
    /\ memory = [p \in Pair |-> memory[p]]
    /\ \A p \in Pair : memory[p] = None \/ HasFields(memory[p])

\* Of the pairs it handles, a pass knows a verdict.
AllKnown == stage \in {"handle", "align"} => \A p \in job.pairs : HasFields(memory[p])

\* A pass handles pairs of subjects it has summarised.
JobTyped ==
    /\ job = [auto |-> job.auto, pairs |-> job.pairs, print |-> job.print, count |-> job.count,
              volume |-> job.volume, todo |-> job.todo, left |-> job.left, pair |-> job.pair,
              mergedNow |-> job.mergedNow, held |-> job.held, changed |-> job.changed, around |-> job.around]
    /\ job.pairs \subseteq Keyed \cup Near /\ job.held \subseteq Pair
    /\ \A p \in job.pairs : p \subseteq DOMAIN job.print
    /\ stage = "align" => job.pair \in job.pairs

TypeOK ==
    /\ stage \in Stage
    /\ RegistryTyped /\ MemoryTyped
    /\ stage # "idle" => JobTyped
    /\ AllKnown

\* The pairs that are found are pairs.
LEMMA FoundArePairs == Keyed \cup Near \subseteq Pair
BY ConstantsAssumption

\* A pair is two subjects.
LEMMA PairOfTwo ==
    ASSUME NEW p \in Pair
    PROVE  \E a, b \in Subject : a # b /\ p = {a, b}
<1>1. p \subseteq Subject /\ Cardinality(p) = 2 /\ IsFiniteSet(p)
    BY ConstantsAssumption, FS_Subset DEF Pair
<1>2. PICK a : a \in p
    BY <1>1, FS_EmptySet
<1>3. IsFiniteSet(p \ {a}) /\ Cardinality(p \ {a}) = 1
    BY <1>1, <1>2, FS_RemoveElement
<1>4. PICK b : p \ {a} = {b}
    BY <1>3, FS_Singleton
<1> QED BY <1>1, <1>2, <1>4

\* And two subjects are a pair.
LEMMA TwoArePair ==
    ASSUME NEW a \in Subject, NEW b \in Subject, a # b
    PROVE  {a, b} \in Pair
<1>1. IsFiniteSet({a}) /\ Cardinality({a}) = 1
    BY FS_Singleton
<1>2. Cardinality({a} \cup {b}) = 2
    BY <1>1, FS_AddElement
<1>3. {a} \cup {b} = {a, b}
    OBVIOUS
<1> QED BY <1>2, <1>3 DEF Pair

\* One of a pair is kept.
LEMMA KeptOfPair ==
    ASSUME NEW p \in Pair
    PROVE  Kept(p) \in p
<1>1. PICK a, b \in Subject : a # b /\ p = {a, b}
    BY PairOfTwo
<1>2. a \in Nat /\ b \in Nat
    BY ConstantsAssumption
<1>3. First(p) \in p
    BY <1>1, <1>2 DEF First
<1>4. Second(p) \in p
    BY <1>1 DEF Second
<1> QED BY <1>3, <1>4 DEF Kept

\* Subjects are only touched while a pass runs or not; what the pass works on stays.
LEMMA TouchFrame ==
    ASSUME NEW S, JobTyped, stage # "idle", Touch(S)
    PROVE  /\ UNCHANGED stage
           /\ job' = [auto |-> job.auto, pairs |-> job.pairs, print |-> job.print, count |-> job.count,
                      volume |-> job.volume, todo |-> job.todo, left |-> job.left, pair |-> job.pair,
                      mergedNow |-> job.mergedNow, held |-> job.held, changed |-> job.changed \cup S,
                      around |-> job.around \cup S]
BY DEF Touch, JobTyped

\* What happens around a pass leaves it what it works on, and adds to what was changed.
LEMMA AroundFrame ==
    ASSUME TypeOK, Around
    PROVE  /\ UNCHANGED <<stage, aligned, seen>>
           /\ stage # "idle" =>
                 /\ JobTyped' /\ job.around \subseteq job'.around
                 /\ UNCHANGED memory
                 /\ job'.pairs = job.pairs /\ job'.print = job.print /\ job'.pair = job.pair
                 /\ job'.mergedNow = job.mergedNow /\ job'.held = job.held
<1> USE DEF TypeOK, subjectVars, registryVars, redisVars, passVars
<1>1. ASSUME NEW x \in Subject, Reads(x) \/ PersonUnmerges(x)
      PROVE  UNCHANGED <<aligned, seen, memory>> /\ \E S : Touch(S)
    BY <1>1 DEF Reads, PersonUnmerges
<1>2. ASSUME NEW x \in Subject, EventsOpenOrClose(x)
      PROVE  /\ UNCHANGED <<stage, aligned, seen, memory>>
             /\ stage # "idle" => job' = [job EXCEPT !.around = @ \cup {canon[x]}]
    BY <1>2 DEF EventsOpenOrClose
<1>3. ASSUME NEW x \in Subject, VolumeChanges(x)
      PROVE  UNCHANGED <<aligned, seen, memory, stage, job>>
    BY <1>3 DEF VolumeChanges
<1>4. ASSUME NEW p \in Pair, PersonDismisses(p)
      PROVE  UNCHANGED <<aligned, seen, memory, stage, job>>
    BY <1>4 DEF PersonDismisses
<1>5. ASSUME NEW p \in Pair, PersonMerges(p)
      PROVE  UNCHANGED <<aligned, seen, memory>> /\ \E S : Touch(S)
    BY <1>5 DEF PersonMerges
<1>6. ASSUME NEW p \in Pair, Forgets(p)
      PROVE  UNCHANGED <<aligned, seen, stage, job>> /\ stage = "idle"
    BY <1>6 DEF Forgets
<1>7. CASE FlagTurns
    BY <1>7 DEF FlagTurns, JobTyped
<1>8. CASE NewRules
    BY <1>8 DEF NewRules
<1>9. ASSUME NEW S, Touch(S), UNCHANGED <<aligned, seen, memory>>
      PROVE  /\ UNCHANGED <<stage, aligned, seen>>
             /\ stage # "idle" =>
                   /\ JobTyped' /\ job.around \subseteq job'.around
                   /\ UNCHANGED memory
                   /\ job'.pairs = job.pairs /\ job'.print = job.print /\ job'.pair = job.pair
                   /\ job'.mergedNow = job.mergedNow /\ job'.held = job.held
    <2>1. UNCHANGED stage
        BY <1>9 DEF Touch
    <2>2. CASE stage # "idle"
        BY <1>9, <2>1, <2>2, TouchFrame DEF JobTyped
    <2> QED BY <1>9, <2>1, <2>2
<1>10. ASSUME UNCHANGED <<aligned, seen, memory, stage, job>>
       PROVE  /\ UNCHANGED <<stage, aligned, seen>>
              /\ stage # "idle" =>
                    /\ JobTyped' /\ job.around \subseteq job'.around
                    /\ UNCHANGED memory
                    /\ job'.pairs = job.pairs /\ job'.print = job.print /\ job'.pair = job.pair
                    /\ job'.mergedNow = job.mergedNow /\ job'.held = job.held
    BY <1>10 DEF JobTyped
<1>11. ASSUME NEW x \in Subject, EventsOpenOrClose(x), stage # "idle"
       PROVE  /\ JobTyped' /\ job.around \subseteq job'.around
              /\ UNCHANGED memory
              /\ job'.pairs = job.pairs /\ job'.print = job.print /\ job'.pair = job.pair
              /\ job'.mergedNow = job.mergedNow /\ job'.held = job.held
    BY <1>2, <1>11 DEF JobTyped
<1> QED BY <1>1, <1>2, <1>3, <1>4, <1>5, <1>6, <1>7, <1>8, <1>9, <1>10, <1>11 DEF Around

\* What a pass does to what it works on.
LEMMA PassFrame ==
    ASSUME TypeOK, MergePass \/ PassDies
    PROVE  stage' \in Stage /\ (stage' # "idle" => JobTyped') /\ UNCHANGED <<own, open, unmerged>>
<1> USE DEF TypeOK, Stage, subjectVars, registryVars, passVars
<1>1. CASE Summarise
    <2>1. \A p \in CandidatePairs : p \in Keyed \cup Near /\ p \subseteq DOMAIN [s \in Summarised |-> Fingerprint(s)]
        BY DEF CandidatePairs
    <2> QED BY <1>1, <2>1 DEF Summarise, JobTyped
<1>2. CASE Recall
    BY <1>2 DEF Recall, JobTyped
<1>3. CASE Judge
    <2>1. PICK answered, left : job' = [job EXCEPT !.left = left, !.pairs = {p \in @ : p \in answered \/ StillKnown(p)}]
        BY <1>3 DEF Judge
    <2>2. job'.pairs \subseteq job.pairs
        BY <1>3, <2>1 DEF Judge, JobTyped
    <2> QED BY <1>3, <2>1, <2>2 DEF Judge, JobTyped
<1>4. CASE Skip
    BY <1>4 DEF Skip, JobTyped
<1>5. CASE Handle
    <2>1. PICK p \in job.pairs :
              \/ stage' = "align" /\ job' = [job EXCEPT !.pair = p]
              \/ stage' = "handle" /\ \E outcome : job' = [job EXCEPT !.pairs = @ \ {p}, !.held = HeldWith(p, outcome)]
        BY <1>5 DEF Handle
    <2>2. \A outcome : HeldWith(p, outcome) \subseteq job.held \cup {p}
        BY DEF HeldWith
    <2>3. UNCHANGED <<own, open, unmerged>> /\ stage = "handle"
        BY <1>5 DEF Handle
    <2>4. CASE stage' = "align" /\ job' = [job EXCEPT !.pair = p]
        BY <2>3, <2>4 DEF JobTyped
    <2>5. ASSUME NEW outcome, stage' = "handle",
                 job' = [job EXCEPT !.pairs = @ \ {p}, !.held = HeldWith(p, outcome)]
          PROVE  JobTyped'
        BY <2>2, <2>3, <2>5, FoundArePairs DEF JobTyped
    <2> QED BY <2>1, <2>3, <2>4, <2>5
<1>6. CASE Align
    BY <1>6 DEF Align, JobTyped
<1>7. CASE QueueHeld
    BY <1>7 DEF QueueHeld, JobTyped
<1>8. CASE Finish \/ PassDies
    BY <1>8 DEF Finish, PassDies
<1> QED BY <1>1, <1>2, <1>3, <1>4, <1>5, <1>6, <1>7, <1>8 DEF MergePass

\* What is remembered of a pair keeps its fields.
LEMMA MemoryStep == TypeOK /\ Next => MemoryTyped' /\ AllKnown'
<1> SUFFICES ASSUME TypeOK, Next PROVE MemoryTyped' /\ AllKnown'
    OBVIOUS
<1> USE DEF TypeOK, MemoryTyped, AllKnown, redisVars, passVars
<1>1. ASSUME NEW p \in Pair, Forgets(p) PROVE MemoryTyped' /\ AllKnown'
    BY <1>1 DEF Forgets
<1>2. CASE NewRules
    <2>1. memory' = [p \in Pair |-> IF memory[p] = None THEN None ELSE [memory[p] EXCEPT !.rules = FALSE]]
        BY <1>2 DEF NewRules
    <2>2. ASSUME NEW p \in Pair PROVE memory'[p] = None \/ HasFields(memory'[p])
        BY <2>1 DEF HasFields
    <2>3. stage' = "idle"
        BY <1>2 DEF NewRules
    <2> QED BY <2>1, <2>2, <2>3
<1>3. CASE Judge
    <2>1. PICK answer \in JudgeAnswers :
              /\ memory' = [p \in Pair |->
                    IF p \in {q \in job.todo : answer[q] # None}
                    THEN [print |-> Rests(p), verdict |-> answer[p], counts |-> Counts(p), outcome |-> None, rules |-> FALSE]
                    ELSE memory[p]]
              /\ \E left : job' = [job EXCEPT !.left = left,
                    !.pairs = {p \in @ : p \in {q \in job.todo : answer[q] # None} \/ StillKnown(p)}]
        BY <1>3 DEF Judge
    <2>2. ASSUME NEW p \in Pair PROVE memory'[p] = None \/ HasFields(memory'[p])
        BY <2>1 DEF HasFields
    <2>3. job'.pairs = {p \in job.pairs : p \in {q \in job.todo : answer[q] # None} \/ StillKnown(p)}
        BY <1>3, <2>1 DEF Judge, JobTyped
    <2>4. ASSUME NEW p \in job'.pairs PROVE p \in Pair /\ HasFields(memory'[p])
        <3>1. p \in Pair
            BY <1>3, <2>3, FoundArePairs DEF Judge, JobTyped
        <3>2. CASE StillKnown(p) /\ ~(p \in {q \in job.todo : answer[q] # None})
            BY <2>1, <3>1, <3>2 DEF StillKnown
        <3>3. CASE p \in {q \in job.todo : answer[q] # None}
            BY <2>1, <3>1, <3>3 DEF HasFields
        <3> QED BY <2>3, <3>1, <3>2, <3>3
    <2> QED BY <2>1, <2>2, <2>4
<1>4. ASSUME NEW p \in Pair, NEW outcome, Remember(p, outcome), HasFields(memory[p])
      PROVE  MemoryTyped' /\ \A q \in Pair : HasFields(memory[q]) => HasFields(memory'[q])
    <2>1. memory' = [q \in Pair |-> IF q = p THEN [memory[p] EXCEPT !.counts = Counts(p), !.outcome = outcome, !.rules = TRUE]
                                             ELSE memory[q]]
        BY <1>4 DEF Remember, HasFields
    <2>2. HasFields(memory'[p])
        BY <1>4, <2>1 DEF HasFields
    <2> QED BY <2>1, <2>2
<1>5. CASE Handle
    <2>1. PICK p \in job.pairs :
              \/ UNCHANGED memory /\ stage' = "align" /\ job' = [job EXCEPT !.pair = p]
              \/ \E outcome : /\ Remember(p, outcome)
                              /\ job' = [job EXCEPT !.pairs = @ \ {p}, !.held = HeldWith(p, outcome)]
        BY <1>5 DEF Handle
    <2>2. stage = "handle" /\ JobTyped /\ job.pairs \subseteq Pair
        BY <1>5, FoundArePairs DEF Handle, JobTyped
    <2>3. job'.pairs \subseteq job.pairs
        BY <2>1, <2>2 DEF JobTyped
    <2>4. CASE UNCHANGED memory
        BY <2>2, <2>3, <2>4
    <2>5. CASE \E outcome : Remember(p, outcome)
        BY <1>4, <2>2, <2>3, <2>5
    <2> QED BY <2>1, <2>4, <2>5
<1>6. CASE Align
    <2>1. /\ stage = "align" /\ JobTyped /\ job.pairs \subseteq Pair
          /\ Remember(job.pair, "MERGED") /\ job'.pairs \subseteq job.pairs
        BY <1>6, FoundArePairs DEF Align, JobTyped
    <2> QED BY <1>4, <2>1 DEF JobTyped
<1>7. ASSUME UNCHANGED memory, stage' \in {"handle", "align"} => stage' = stage /\ job'.pairs \subseteq job.pairs
      PROVE  MemoryTyped' /\ AllKnown'
    BY <1>7
<1>8. CASE (\E x \in Subject : Reads(x) \/ EventsOpenOrClose(x) \/ VolumeChanges(x) \/ PersonUnmerges(x)) \/ FlagTurns
    <2>1. UNCHANGED memory
        BY <1>8 DEF Reads, EventsOpenOrClose, VolumeChanges, PersonUnmerges, FlagTurns
    <2>2. Around
        BY <1>8 DEF Around
    <2> QED BY <1>7, <2>1, <2>2, AroundFrame
<1>9. CASE \E p \in Pair : PersonDismisses(p) \/ PersonMerges(p)
    <2>1. UNCHANGED memory
        BY <1>9 DEF PersonDismisses, PersonMerges
    <2>2. Around
        BY <1>9 DEF Around
    <2> QED BY <1>7, <2>1, <2>2, AroundFrame
<1>10. CASE Summarise \/ Recall \/ QueueHeld \/ Finish \/ PassDies
    BY <1>7, <1>10 DEF Summarise, Recall, QueueHeld, Finish, PassDies
<1>11. CASE Skip
    BY <1>7, <1>11 DEF Skip, JobTyped
<1> QED BY <1>1, <1>2, <1>3, <1>5, <1>6, <1>8, <1>9, <1>10, <1>11 DEF Next, Around, MergePass

\* Subjects are merged into subjects, and the queue is of pairs.
LEMMA RegistryStep == TypeOK /\ Next => RegistryTyped'
<1> SUFFICES ASSUME TypeOK, Next PROVE RegistryTyped'
    OBVIOUS
<1> USE DEF TypeOK, RegistryTyped, registryVars, subjectVars, Queued
<1>1. ASSUME NEW x \in Subject, Reads(x) \/ EventsOpenOrClose(x) \/ VolumeChanges(x) PROVE RegistryTyped'
    BY <1>1 DEF Reads, EventsOpenOrClose, VolumeChanges
<1>2. ASSUME NEW x \in Subject, PersonUnmerges(x) PROVE RegistryTyped'
    <2>1. {x, canon[x]} \in Pair
        BY <1>2, TwoArePair DEF PersonUnmerges
    <2> QED BY <1>2, <2>1 DEF PersonUnmerges
<1>3. ASSUME NEW p \in Pair, PersonDismisses(p) \/ Forgets(p) PROVE RegistryTyped'
    BY <1>3 DEF PersonDismisses, Forgets
<1>4. ASSUME NEW p \in Pair, PersonMerges(p) PROVE RegistryTyped'
    <2>1. p \subseteq Subject
        BY DEF Pair
    <2> QED BY <1>4, <2>1 DEF PersonMerges
<1>5. CASE FlagTurns \/ NewRules \/ Summarise \/ Judge \/ Skip \/ Finish \/ PassDies
    BY <1>5 DEF FlagTurns, NewRules, Summarise, Judge, Skip, Finish, PassDies
<1>6. CASE Recall
    BY <1>6 DEF Recall, Decided
<1>7. CASE Handle
    <2>1. PICK p \in job.pairs : UNCHANGED canon \/ canon' = [y \in Subject |-> IF canon[y] \in p THEN Kept(p) ELSE canon[y]]
        BY <1>7 DEF Handle
    <2>2. p \in Pair /\ p \subseteq Subject
        BY <1>7, FoundArePairs DEF Handle, JobTyped, Pair
    <2>3. Kept(p) \in Subject
        BY <2>2, KeptOfPair
    <2>4. canon' \in [Subject -> Subject]
        BY <2>1, <2>3
    <2> QED BY <1>7, <2>4 DEF Handle
<1>8. CASE Align
    <2>1. job.pair \subseteq Subject
        BY <1>8, FoundArePairs DEF Align, JobTyped, Pair
    <2> QED BY <1>8, <2>1 DEF Align
<1>9. CASE QueueHeld
    BY <1>9 DEF QueueHeld
<1> QED BY <1>1, <1>2, <1>3, <1>4, <1>5, <1>6, <1>7, <1>8, <1>9 DEF Next, Around, MergePass

\* Every step keeps the type.
LEMMA NextTypeOK == TypeOK /\ [Next]_vars => TypeOK'
<1> SUFFICES ASSUME TypeOK, [Next]_vars PROVE TypeOK'
    OBVIOUS
<1>1. CASE UNCHANGED vars
    BY <1>1 DEF vars, subjectVars, registryVars, redisVars, passVars, TypeOK, RegistryTyped, MemoryTyped, AllKnown, JobTyped
<1>2. CASE Around
    BY <1>2, AroundFrame, MemoryStep, RegistryStep DEF TypeOK, Next
<1>3. CASE MergePass \/ PassDies
    BY <1>3, PassFrame, MemoryStep, RegistryStep DEF TypeOK, Next
<1> QED BY <1>1, <1>2, <1>3 DEF Next

\* The state always has its type: a pass works on pairs of subjects it has summarised, and what is
\* remembered of a pair has all its fields.
THEOREM TypeCorrect == Spec => []TypeOK
<1>1. Init => TypeOK
    BY DEF Init, TypeOK, Stage, RegistryTyped, MemoryTyped, AllKnown, Queued
<1> QED BY <1>1, NextTypeOK, PTL DEF Spec

-----------------------------------------------------------------------------
(* The pass implements MergeDecisions.  What it has in hand after it read  *)
(* the decisions is apart from them, however far it has come since.        *)

ApartFromSeen ==
    /\ stage \in {"judge", "handle", "align"} => job.pairs \cap seen = {}
    /\ stage # "idle" => job.held \cap seen = {}
    /\ stage = "recall" => job.held = {}

\* Pairs leave the pass, and none enters it once it has read the decisions.
LEMMA ApartStep == TypeOK /\ ApartFromSeen /\ [Next]_vars => ApartFromSeen'
<1> SUFFICES ASSUME TypeOK, ApartFromSeen, [Next]_vars PROVE ApartFromSeen'
    OBVIOUS
<1> USE DEF ApartFromSeen, TypeOK, registryVars, passVars
<1>1. CASE UNCHANGED vars
    BY <1>1 DEF vars
<1>2. CASE Around
    BY <1>2, AroundFrame DEF Stage
<1>3. CASE Summarise
    BY <1>3 DEF Summarise
<1>4. CASE Recall
    <2>1. PICK todo, left : job' = [job EXCEPT !.pairs = job.pairs \ Settled, !.todo = todo, !.left = left]
        BY <1>4 DEF Recall
    <2>2. /\ stage = "recall" /\ stage' = "judge" /\ seen' = Settled
        BY <1>4 DEF Recall, Settled
    <2>3. job'.pairs = job.pairs \ Settled /\ job'.held = job.held
        BY <2>1, <2>2 DEF JobTyped
    <2> QED BY <2>2, <2>3
<1>5. CASE Judge
    <2>1. PICK answered, left : job' = [job EXCEPT !.left = left, !.pairs = {p \in @ : p \in answered \/ StillKnown(p)}]
        BY <1>5 DEF Judge
    <2>2. stage = "judge" /\ stage' = "handle" /\ UNCHANGED seen
        BY <1>5 DEF Judge
    <2>3. job'.pairs \subseteq job.pairs /\ job'.held = job.held
        BY <2>1, <2>2 DEF JobTyped
    <2> QED BY <2>2, <2>3
<1>6. CASE Skip \/ Align
    BY <1>6 DEF Skip, Align, JobTyped
<1>7. CASE Handle
    <2>1. PICK p \in job.pairs :
              \/ stage' = "align" /\ job' = [job EXCEPT !.pair = p]
              \/ \E outcome : job' = [job EXCEPT !.pairs = @ \ {p}, !.held = HeldWith(p, outcome)]
        BY <1>7 DEF Handle
    <2>2. \A outcome : HeldWith(p, outcome) \subseteq job.held \cup {p}
        BY DEF HeldWith
    <2>3. stage = "handle" /\ UNCHANGED seen /\ stage' \in {"align", "handle"}
        BY <1>7 DEF Handle
    <2>4. CASE job' = [job EXCEPT !.pair = p]
        BY <2>3, <2>4 DEF JobTyped
    <2>5. ASSUME NEW outcome, job' = [job EXCEPT !.pairs = @ \ {p}, !.held = HeldWith(p, outcome)]
          PROVE  job'.pairs \subseteq job.pairs /\ job'.held \subseteq job.held \cup {p}
        BY <2>2, <2>3, <2>5 DEF JobTyped
    <2> QED BY <2>1, <2>3, <2>4, <2>5
<1>8. CASE QueueHeld \/ Finish \/ PassDies
    BY <1>8 DEF QueueHeld, Finish, PassDies
<1> QED BY <1>1, <1>2, <1>3, <1>4, <1>5, <1>6, <1>7, <1>8 DEF Next, MergePass

\* A step around the pass, of a person or of what subjects hold, is a decision or none.
LEMMA AroundDecides ==
    ASSUME TypeOK, Around
    PROVE  Decisions!Next \/ UNCHANGED Decisions!vars
<1> DEFINE waiting == {p \in Pair : queue[p] = "PENDING"}
<1> USE DEF TypeOK, RegistryTyped, registryVars, Decisions!vars, Decided
<1>1. ASSUME UNCHANGED <<queue, unmerged, merging, seen>>
      PROVE  UNCHANGED Decisions!vars
    BY <1>1
<1>2. ASSUME NEW x \in Subject, Reads(x) \/ EventsOpenOrClose(x) \/ VolumeChanges(x)
      PROVE  UNCHANGED Decisions!vars
    BY <1>1, <1>2 DEF Reads, EventsOpenOrClose, VolumeChanges
<1>3. ASSUME NEW p \in Pair, Forgets(p)
      PROVE  UNCHANGED Decisions!vars
    BY <1>1, <1>3 DEF Forgets
<1>4. CASE FlagTurns \/ NewRules
    BY <1>1, <1>4 DEF FlagTurns, NewRules
<1>5. ASSUME NEW p \in Pair, PersonDismisses(p) \/ PersonMerges(p)
      PROVE  Decisions!Next
    <2>1. PICK verdict \in {"MERGED", "DISMISSED"} :
              queue[p] = "PENDING" /\ queue' = [queue EXCEPT ![p] = verdict] /\ UNCHANGED <<unmerged, merging, seen>>
        BY <1>5 DEF PersonDismisses, PersonMerges
    <2>2. waiting' = waiting \ {p} /\ Decided' = Decided \cup {p}
        BY <2>1
    <2>3. Decisions!Decide(p)
        BY <2>1, <2>2 DEF Decisions!Decide
    <2> QED BY <2>3 DEF Decisions!Next
<1>6. ASSUME NEW x \in Subject, PersonUnmerges(x)
      PROVE  Decisions!Next
    <2> DEFINE p == {x, canon[x]}
    <2>1. p \in Pair
        BY <1>6, TwoArePair DEF PersonUnmerges
    <2>2. /\ merging' = merging \ {p} /\ unmerged' = unmerged \cup {p}
          /\ queue' = [queue EXCEPT ![p] = IF @ = "PENDING" THEN "DISMISSED" ELSE @]
          /\ UNCHANGED seen
        BY <1>6 DEF PersonUnmerges
    <2> HIDE DEF p
    <2>3. waiting' = waiting \ {p} /\ Decided' = Decided \cup {p}
        BY <2>1, <2>2
    <2>4. PICK P \in SUBSET Pair : P = {p}
        BY <2>1
    <2>5. Decisions!Unmerge(P)
        BY <2>2, <2>3, <2>4 DEF Decisions!Unmerge
    <2> QED BY <2>5 DEF Decisions!Next
<1> QED BY <1>2, <1>3, <1>4, <1>5, <1>6 DEF Around

\* A step of the pass looks at the decisions, merges or queues what it does not know decided, or
\* does nothing to them.
LEMMA PassDecides ==
    ASSUME TypeOK, ApartFromSeen, MergePass \/ PassDies
    PROVE  Decisions!Next \/ UNCHANGED Decisions!vars
<1> DEFINE waiting == {p \in Pair : queue[p] = "PENDING"}
<1> USE DEF TypeOK, RegistryTyped, registryVars, Decisions!vars, Decided
<1>1. CASE Summarise \/ Judge \/ Skip \/ Align \/ Finish \/ PassDies
    BY <1>1 DEF Summarise, Judge, Skip, Align, Finish, PassDies
<1>2. CASE Recall
    <2>1. Decisions!Look
        BY <1>2 DEF Recall, Decisions!Look
    <2> QED BY <2>1 DEF Decisions!Next
<1>3. CASE Handle
    <2>1. PICK p \in job.pairs : merging' = merging \cup {p} \/ UNCHANGED merging
        BY <1>3 DEF Handle
    <2>2. stage = "handle" /\ UNCHANGED <<queue, unmerged, seen>>
        BY <1>3 DEF Handle
    <2>3. p \in Pair /\ p \notin seen
        BY <2>2, FoundArePairs DEF JobTyped, ApartFromSeen
    <2>4. merging' = merging \cup {p} => Decisions!Merge(p)
        BY <2>2, <2>3 DEF Decisions!Merge
    <2> QED BY <2>1, <2>2, <2>3, <2>4 DEF Decisions!Next
<1>4. CASE QueueHeld
    <2> DEFINE new == {p \in job.held : queue[p] = None}
    <2>1. /\ queue' = [p \in Pair |-> IF p \in job.held /\ queue[p] = None THEN "PENDING" ELSE queue[p]]
          /\ stage = "handle" /\ UNCHANGED <<unmerged, merging, seen>>
        BY <1>4 DEF QueueHeld
    <2>2. job.held \subseteq Pair /\ job.held \cap seen = {}
        BY <2>1 DEF JobTyped, ApartFromSeen
    <2>3. waiting' = waiting \cup new /\ Decided' = Decided
        BY <2>1, <2>2, ConstantsAssumption
    <2>4. PICK P \in SUBSET Pair : P = new
        BY <2>2
    <2>5. Decisions!Queue(P)
        BY <2>1, <2>2, <2>3, <2>4 DEF Decisions!Queue
    <2> QED BY <2>5 DEF Decisions!Next
<1> QED BY <1>1, <1>2, <1>3, <1>4 DEF MergePass

\* Whatever subjects change, people decide and calls fail while a pass runs, it never merges or queues
\* a pair against a decision it has read: a pair a person merged, dismissed or took apart stays theirs.
THEOREM PromiseKept == Spec => KeepsItsPromise
<1>1. Init => Decisions!Init /\ ApartFromSeen
    BY ConstantsAssumption DEF Init, Decisions!Init, Decided, ApartFromSeen
<1>2. UNCHANGED vars => UNCHANGED Decisions!vars
    BY DEF vars, registryVars, Decisions!vars, Decided
<1>3. TypeOK /\ ApartFromSeen /\ [Next]_vars => [Decisions!Next]_(Decisions!vars)
    BY <1>2, AroundDecides, PassDecides DEF Next
<1> QED BY <1>1, <1>3, TypeCorrect, ApartStep, PTL DEF Spec, KeepsItsPromise, Decisions!Spec

-----------------------------------------------------------------------------
(* A pair held for a person reaches the queue.                             *)

Swept == stage = "sweep" => \A p \in job.held : queue[p] # None
HeldInv == QueuedUnlessDied /\ Swept

\* A pair once queued stays on the queue, whatever comes of it.
LEMMA QueueKeeps ==
    ASSUME TypeOK, [Next]_vars, NEW p \in Pair
    PROVE  (queue[p] # None => queue'[p] # None) /\ (p \in unmerged => p \in unmerged')
<1> USE DEF TypeOK, RegistryTyped, registryVars
<1>1. CASE Around
    <2>1. ASSUME NEW x \in Subject, Reads(x) \/ EventsOpenOrClose(x) \/ VolumeChanges(x) PROVE UNCHANGED <<queue, unmerged>>
        BY <2>1 DEF Reads, EventsOpenOrClose, VolumeChanges
    <2>2. ASSUME NEW q \in Pair, Forgets(q) PROVE UNCHANGED <<queue, unmerged>>
        BY <2>2 DEF Forgets
    <2>3. CASE FlagTurns \/ NewRules
        BY <2>3 DEF FlagTurns, NewRules
    <2>4. ASSUME NEW q \in Pair, PersonDismisses(q) \/ PersonMerges(q)
          PROVE  (queue[p] # None => queue'[p] # None) /\ (p \in unmerged => p \in unmerged')
        BY <2>4, ConstantsAssumption DEF PersonDismisses, PersonMerges
    <2>5. ASSUME NEW x \in Subject, PersonUnmerges(x)
          PROVE  (queue[p] # None => queue'[p] # None) /\ (p \in unmerged => p \in unmerged')
        BY <2>5, ConstantsAssumption DEF PersonUnmerges
    <2> QED BY <1>1, <2>1, <2>2, <2>3, <2>4, <2>5 DEF Around
<1>2. CASE MergePass \/ PassDies \/ UNCHANGED vars
    BY <1>2 DEF MergePass, Summarise, Recall, Judge, Skip, Handle, Align, QueueHeld, Finish, PassDies, vars
<1> QED BY <1>1, <1>2 DEF Next

\* An outcome that holds a pair is remembered with the pair in hand, which is let go only once queued.
LEMMA HeldStep == TypeOK /\ HeldInv /\ [Next]_vars => HeldInv'
<1> SUFFICES ASSUME TypeOK, HeldInv, [Next]_vars PROVE HeldInv'
    OBVIOUS
<1> USE DEF TypeOK, registryVars, redisVars, passVars, boundVars, HeldInv, Swept, Held
\* What stays remembered as held, in hand, lost or on the queue.
<1>3. ASSUME \A p \in Pair : Held(p)' => Held(p) \/ (stage' # "idle" /\ p \in job'.held),
             stage # "idle" /\ stage' # "idle" => job.held \subseteq job'.held,
             stage # "idle" /\ stage' = "idle" => \A p \in job.held : queue[p] # None \/ p \in lost',
             \A p \in lost \ lost' : Held(p)' => stage' # "idle" /\ p \in job'.held
      PROVE  QueuedUnlessDied'
    <2> SUFFICES ASSUME NEW p \in Pair, Held(p)', ~(stage' # "idle" /\ p \in job'.held)
                 PROVE  queue'[p] # None \/ p \in unmerged' \/ p \in lost'
        BY DEF QueuedUnlessDied
    <2>1. Held(p)
        BY <1>3
    <2>2. queue[p] # None \/ p \in unmerged \/ (stage # "idle" /\ p \in job.held) \/ p \in lost
        BY <2>1 DEF QueuedUnlessDied
    <2>3. stage # "idle" /\ p \in job.held => queue[p] # None \/ p \in lost'
        BY <1>3
    <2>4. p \in lost => p \in lost'
        BY <1>3
    <2> QED BY <2>2, <2>3, <2>4, QueueKeeps
<1>4. CASE Around
    <2>1. \A p \in Pair : Held(p)' => Held(p)
        <3>1. CASE \E p \in Pair : Forgets(p)
            BY <3>1 DEF Forgets, MemoryTyped
        <3>2. CASE NewRules
            BY <3>2 DEF NewRules, MemoryTyped, HasFields
        <3>3. CASE UNCHANGED memory
            BY <3>3
        <3> QED BY <1>4, <3>1, <3>2, <3>3 DEF Around, Reads, EventsOpenOrClose, VolumeChanges, PersonUnmerges,
                PersonDismisses, PersonMerges, FlagTurns
    <2>2. UNCHANGED stage /\ (stage # "idle" => job'.held = job.held)
        BY <1>4, AroundFrame
    <2>3. UNCHANGED lost
        <3>1. ASSUME NEW kind, Change(kind) PROVE UNCHANGED lost
            BY <3>1 DEF Change
        <3>2. ASSUME NEW p \in Pair, Forgets(p) PROVE UNCHANGED lost
            BY <3>2 DEF Forgets
        <3> QED BY <1>4, <3>1, <3>2 DEF Around, Reads, EventsOpenOrClose, VolumeChanges, PersonUnmerges,
                PersonDismisses, PersonMerges, FlagTurns, NewRules
    <2>4. stage = "sweep" => job.held \subseteq Pair
        BY DEF JobTyped
    <2>5. Swept'
        BY <2>2, <2>4, QueueKeeps
    <2>6. QueuedUnlessDied'
        BY <1>3, <2>1, <2>2, <2>3
    <2> QED BY <2>5, <2>6
<1>5. CASE UNCHANGED vars
    BY <1>5 DEF vars, QueuedUnlessDied
<1>6. CASE Summarise \/ Recall \/ Skip
    <2>1. UNCHANGED <<memory, lost>> /\ stage' \in {"recall", "judge", "handle"}
        BY <1>6 DEF Summarise, Recall, Skip
    <2>2. stage # "idle" => job.held \subseteq job'.held
        BY <1>6 DEF Summarise, Recall, Skip, JobTyped
    <2> QED BY <1>3, <2>1, <2>2
<1>7. CASE Judge
    <2>1. \A p \in Pair : Held(p)' => Held(p)
        BY <1>7, ConstantsAssumption DEF Judge
    <2>2. \E left, new : job' = [job EXCEPT !.left = left, !.pairs = new]
        BY <1>7 DEF Judge
    <2>3. UNCHANGED lost /\ stage = "judge" /\ stage' = "handle"
        BY <1>7 DEF Judge
    <2>4. job'.held = job.held
        BY <2>2, <2>3 DEF JobTyped
    <2> QED BY <1>3, <2>1, <2>3, <2>4
<1>8. CASE Handle
    <2>0. stage = "handle" /\ stage' \in {"handle", "align"} /\ JobTyped
        BY <1>8 DEF Handle
    <2>1. PICK p \in job.pairs :
              \/ UNCHANGED <<memory, lost>> /\ job' = [job EXCEPT !.pair = p]
              \/ \E outcome : /\ Remember(p, outcome) /\ lost' = lost \ {p}
                              /\ job' = [job EXCEPT !.pairs = @ \ {p}, !.held = HeldWith(p, outcome)]
        BY <1>8 DEF Handle
    <2>2. CASE UNCHANGED <<memory, lost>> /\ job' = [job EXCEPT !.pair = p]
        BY <1>3, <2>0, <2>2 DEF JobTyped
    <2>3. ASSUME NEW outcome, Remember(p, outcome), lost' = lost \ {p},
                 job' = [job EXCEPT !.pairs = @ \ {p}, !.held = HeldWith(p, outcome)]
          PROVE  QueuedUnlessDied'
        <3>1. job'.held = HeldWith(p, outcome)
            BY <2>0, <2>3 DEF JobTyped
        <3>2. p \in Pair /\ HasFields(memory[p])
            BY <2>0, FoundArePairs DEF JobTyped, AllKnown
        <3>3. /\ \A q \in Pair : q # p => memory'[q] = memory[q]
              /\ memory'[p].outcome = outcome
            BY <2>3, <3>2 DEF Remember, MemoryTyped, HasFields
        <3>4. \A q \in Pair : Held(q)' => Held(q) \/ q \in job'.held
            BY <3>1, <3>3 DEF HeldWith
        <3>5. job.held \subseteq job'.held
            BY <3>1 DEF HeldWith
        <3>6. Held(p)' => p \in job'.held
            BY <3>1, <3>3 DEF HeldWith
        <3> QED BY <1>3, <2>0, <2>3, <3>4, <3>5, <3>6
    <2> QED BY <2>0, <2>1, <2>2, <2>3
<1>9. CASE Align
    <2>1. /\ stage = "align" /\ JobTyped /\ stage' = "handle" /\ Remember(job.pair, "MERGED")
          /\ job'.held = job.held /\ UNCHANGED lost
        BY <1>9 DEF Align, JobTyped
    <2>2. job.pair \in Pair /\ HasFields(memory[job.pair])
        BY <2>1, FoundArePairs DEF JobTyped, AllKnown
    <2>3. \A p \in Pair : Held(p)' => Held(p)
        BY <2>1, <2>2 DEF Remember, MemoryTyped, HasFields
    <2> QED BY <1>3, <2>1, <2>3
<1>10. CASE QueueHeld
    <2>1. UNCHANGED <<memory, lost, job>> /\ stage = "handle" /\ stage' = "sweep" /\ JobTyped
        BY <1>10 DEF QueueHeld
    <2>2. Swept'
        BY <1>10, <2>1, ConstantsAssumption DEF QueueHeld, JobTyped
    <2> QED BY <1>3, <2>1, <2>2
<1>11. CASE Finish
    <2>1. UNCHANGED <<memory, lost>> /\ stage = "sweep" /\ stage' = "idle"
        BY <1>11 DEF Finish
    <2> QED BY <1>3, <2>1
<1>12. CASE PassDies
    <2>1. /\ UNCHANGED memory /\ stage' = "idle"
          /\ lost' = lost \cup {p \in job.held : queue[p] = None}
        BY <1>12 DEF PassDies
    <2> QED BY <1>3, <2>1
<1> QED BY <1>4, <1>5, <1>6, <1>7, <1>8, <1>9, <1>10, <1>11, <1>12 DEF Next, MergePass

\* Whichever passes are cut short, a pair remembered as waiting for a person is in front of one, or
\* about to be, but for the pairs a pass that died had in hand: nothing else is remembered as queued
\* that is not.
THEOREM HeldReachPeople == Spec => []QueuedUnlessDied
<1>1. Init => HeldInv
    BY DEF Init, HeldInv, QueuedUnlessDied, Held, Swept
<1>2. HeldInv => QueuedUnlessDied
    BY DEF HeldInv
<1> QED BY <1>1, <1>2, TypeCorrect, HeldStep, PTL DEF Spec

-----------------------------------------------------------------------------
(* A merge rests on its verdict.  What is remembered of a pair in hand is  *)
(* about what the pass summarised; that is still what the subject holds,   *)
(* unless the subject was changed around the pass or merged by it.         *)

KnownRests == stage \in {"handle", "align"} => \A p \in job.pairs : memory[p].print = Rests(p)

Canonical == \A x \in Subject : canon[canon[x]] = canon[x]

PairStays == stage = "align" => \A x \in job.pair : canon[x] \in job.pair \cup job.around

PrintsAreCurrent ==
    stage # "idle" =>
        \A s \in DOMAIN job.print :
            \/ s \in job.around \cup job.mergedNow
            \/ stage = "align" /\ s \in job.pair
            \/ job.print[s] = Fingerprint(s)

VerdictInv == KnownRests /\ Canonical /\ PairStays /\ PrintsAreCurrent

\* A subject's fingerprint stays while its members do, and what is read onto them.
LEMMA FingerprintStays ==
    ASSUME NEW s,
           \A x \in open \cup open' : (x \in open' /\ canon'[x] = s) <=> (x \in open /\ canon[x] = s),
           \A x \in Members(s) : own'[x] = own[x] /\ (x \in aligned' <=> x \in aligned)
    PROVE  Fingerprint(s)' = Fingerprint(s)
<1>1. Members(s)' = Members(s)
    BY DEF Members
<1>2. ASSUME NEW x \in Members(s)
      PROVE  <<x, own'[x], x \in aligned'>> = <<x, own[x], x \in aligned>>
    <2>1. (x \in aligned') = (x \in aligned)
        OBVIOUS
    <2> QED BY <2>1
<1> QED BY <1>1, <1>2 DEF Fingerprint

\* What the judge is asked about, or what is still known, is what the pass summarised.
LEMMA KnownStep == TypeOK /\ KnownRests /\ [Next]_vars => KnownRests'
<1> SUFFICES ASSUME TypeOK, KnownRests, [Next]_vars PROVE KnownRests'
    OBVIOUS
<1> USE DEF TypeOK, MemoryTyped, AllKnown, redisVars, passVars
<1>1. ASSUME UNCHANGED memory,
             stage' \in {"handle", "align"} => /\ stage \in {"handle", "align"}
                                               /\ job'.pairs \subseteq job.pairs /\ job'.print = job.print
      PROVE  KnownRests'
    BY <1>1 DEF KnownRests, Rests
<1>2. CASE Around
    BY <1>1, <1>2, AroundFrame DEF KnownRests
<1>3. CASE Judge
    <2>1. PICK answer \in JudgeAnswers :
              /\ memory' = [p \in Pair |->
                    IF p \in {q \in job.todo : answer[q] # None}
                    THEN [print |-> Rests(p), verdict |-> answer[p], counts |-> Counts(p), outcome |-> None, rules |-> FALSE]
                    ELSE memory[p]]
              /\ \E left : job' = [job EXCEPT !.left = left,
                    !.pairs = {p \in @ : p \in {q \in job.todo : answer[q] # None} \/ StillKnown(p)}]
        BY <1>3 DEF Judge
    <2>2. stage = "judge" /\ JobTyped
        BY <1>3 DEF Judge
    <2>3. /\ job'.pairs = {p \in job.pairs : p \in {q \in job.todo : answer[q] # None} \/ StillKnown(p)}
          /\ job'.print = job.print
        BY <2>1, <2>2 DEF JobTyped
    <2>4. ASSUME NEW p \in job'.pairs PROVE memory'[p].print = Rests(p)
        <3>1. p \in Pair
            BY <2>2, <2>3, FoundArePairs DEF JobTyped
        <3>2. CASE StillKnown(p) /\ ~(p \in {q \in job.todo : answer[q] # None})
            BY <2>1, <3>1, <3>2 DEF StillKnown
        <3>3. CASE p \in {q \in job.todo : answer[q] # None}
            BY <2>1, <3>1, <3>3
        <3> QED BY <2>3, <3>1, <3>2, <3>3
    <2>5. \A p : Rests(p)' = Rests(p)
        BY <2>3 DEF Rests
    <2> QED BY <2>4, <2>5 DEF KnownRests
<1>4. ASSUME NEW p \in Pair, NEW outcome, Remember(p, outcome), HasFields(memory[p])
      PROVE  \A q \in Pair : memory'[q].print = memory[q].print
    BY <1>4 DEF Remember, HasFields
<1>5. ASSUME \A q \in Pair : memory'[q].print = memory[q].print,
             stage \in {"handle", "align"}, job'.pairs \subseteq job.pairs, job'.print = job.print
      PROVE  KnownRests'
    BY <1>5, FoundArePairs DEF KnownRests, Rests, JobTyped
<1>6. CASE Handle
    <2>1. PICK p \in job.pairs :
              \/ UNCHANGED memory /\ stage' = "align" /\ job' = [job EXCEPT !.pair = p]
              \/ \E outcome : /\ Remember(p, outcome)
                              /\ job' = [job EXCEPT !.pairs = @ \ {p}, !.held = HeldWith(p, outcome)]
        BY <1>6 DEF Handle
    <2>2. stage = "handle" /\ JobTyped /\ job.pairs \subseteq Pair
        BY <1>6, FoundArePairs DEF Handle, JobTyped
    <2>3. job'.pairs \subseteq job.pairs /\ job'.print = job.print
        BY <2>1, <2>2 DEF JobTyped
    <2>4. \A q \in Pair : memory'[q].print = memory[q].print
        BY <1>4, <2>1, <2>2
    <2> QED BY <1>5, <2>2, <2>3, <2>4
<1>7. CASE Align
    <2>1. /\ stage = "align" /\ JobTyped /\ Remember(job.pair, "MERGED")
          /\ job'.pairs \subseteq job.pairs /\ job'.print = job.print
        BY <1>7 DEF Align, JobTyped
    <2>2. \A q \in Pair : memory'[q].print = memory[q].print
        BY <1>4, <2>1, FoundArePairs DEF JobTyped
    <2> QED BY <1>5, <2>1, <2>2
<1>8. CASE Skip
    BY <1>1, <1>8 DEF Skip, JobTyped
<1>9. CASE Summarise \/ Recall \/ QueueHeld \/ Finish \/ PassDies \/ UNCHANGED vars
    BY <1>1, <1>9 DEF Summarise, Recall, QueueHeld, Finish, PassDies, vars
<1> QED BY <1>2, <1>3, <1>6, <1>7, <1>8, <1>9 DEF Next, MergePass

\* A pair that is merged in the pass is of two subjects that have members, so of canonical ones.
LEMMA HandleMerges ==
    ASSUME TypeOK, Canonical, NEW p \in Pair, NEW check \in {"COLLISION", "NO_GAIN", "PRICE", "SOUND"},
           Handled(p, check) = "MERGED"
    PROVE  \A s \in p : s \in Subject /\ canon[s] = s
<1>1. \A s \in p : Members(s) # {}
    BY ConstantsAssumption DEF Handled
<1>2. ASSUME NEW s \in p PROVE s \in Subject /\ canon[s] = s
    <2>1. PICK y \in open : canon[y] = s
        BY <1>1, <1>2 DEF Members
    <2> QED BY <2>1 DEF TypeOK, RegistryTyped, Canonical
<1> QED BY <1>2

\* What Handle does when it merges.
LEMMA HandleFrame ==
    ASSUME TypeOK, Handle
    PROVE  /\ stage = "handle" /\ JobTyped /\ UNCHANGED <<own, open, aligned>>
           /\ \/ /\ UNCHANGED <<canon, merging, stage>>
                 /\ job'.print = job.print /\ job'.around = job.around /\ job'.mergedNow = job.mergedNow
              \/ \E p \in job.pairs, check \in {"COLLISION", "NO_GAIN", "PRICE", "SOUND"} :
                    /\ IsDue(memory[p], Counts(p), job.auto) /\ ~LeftAlone(p) /\ Handled(p, check) = "MERGED"
                    /\ canon' = [y \in Subject |-> IF canon[y] \in p THEN Kept(p) ELSE canon[y]]
                    /\ merging' = merging \cup {p} /\ stage' = "align"
                    /\ job'.pair = p /\ job'.print = job.print /\ job'.around = job.around
                    /\ job'.mergedNow = job.mergedNow
<1>1. PICK p \in job.pairs :
          /\ IsDue(memory[p], Counts(p), job.auto) /\ ~LeftAlone(p)
          /\ \E check \in Checks[p] :
                \/ /\ Handled(p, check) = "MERGED"
                   /\ canon' = [y \in Subject |-> IF canon[y] \in p THEN Kept(p) ELSE canon[y]]
                   /\ merging' = merging \cup {p}
                   /\ stage' = "align" /\ job' = [job EXCEPT !.pair = p]
                \/ /\ \E outcome : job' = [job EXCEPT !.pairs = @ \ {p}, !.held = HeldWith(p, outcome)]
                   /\ UNCHANGED <<canon, merging, stage>>
    BY DEF Handle
<1>2. stage = "handle" /\ JobTyped /\ UNCHANGED <<own, open, aligned>>
    BY DEF Handle, TypeOK
<1>3. Checks[p] \subseteq {"COLLISION", "NO_GAIN", "PRICE", "SOUND"}
    BY <1>2, ConstantsAssumption DEF JobTyped
<1>4. CASE UNCHANGED <<canon, merging, stage>> /\ \E outcome : job' = [job EXCEPT !.pairs = @ \ {p}, !.held = HeldWith(p, outcome)]
    BY <1>2, <1>4 DEF JobTyped
<1>5. ASSUME NEW check \in Checks[p], Handled(p, check) = "MERGED",
             canon' = [y \in Subject |-> IF canon[y] \in p THEN Kept(p) ELSE canon[y]],
             merging' = merging \cup {p}, stage' = "align", job' = [job EXCEPT !.pair = p]
      PROVE  \E q \in job.pairs, c \in {"COLLISION", "NO_GAIN", "PRICE", "SOUND"} :
                    /\ IsDue(memory[q], Counts(q), job.auto) /\ ~LeftAlone(q) /\ Handled(q, c) = "MERGED"
                    /\ canon' = [y \in Subject |-> IF canon[y] \in q THEN Kept(q) ELSE canon[y]]
                    /\ merging' = merging \cup {q} /\ stage' = "align"
                    /\ job'.pair = q /\ job'.print = job.print /\ job'.around = job.around
                    /\ job'.mergedNow = job.mergedNow
    <2>1. job'.pair = p /\ job'.print = job.print /\ job'.around = job.around /\ job'.mergedNow = job.mergedNow
        BY <1>2, <1>5 DEF JobTyped
    <2> QED BY <1>1, <1>3, <1>5, <2>1
<1> QED BY <1>1, <1>2, <1>4, <1>5

\* A subject is merged into a canonical one, whatever the pass and people do.
LEMMA CanonicalStep == TypeOK /\ Canonical /\ [Next]_vars => Canonical'
<1> SUFFICES ASSUME TypeOK, Canonical, [Next]_vars PROVE Canonical'
    OBVIOUS
<1> USE DEF TypeOK, RegistryTyped, Canonical, subjectVars
<1>1. ASSUME NEW p \in Pair, PersonMerges(p) PROVE Canonical'
    <2>1. PICK s \in p, x \in p :
              s # x /\ canon[s] = s /\ canon[x] = x /\ canon' = [y \in Subject |-> IF canon[y] = x THEN s ELSE canon[y]]
        BY <1>1 DEF PersonMerges
    <2>2. s \in Subject /\ x \in Subject
        BY DEF Pair
    <2> QED BY <2>1, <2>2
<1>2. ASSUME NEW x \in Subject, PersonUnmerges(x) PROVE Canonical'
    BY <1>2 DEF PersonUnmerges
<1>3. CASE Handle
    <2>1. ASSUME NEW p \in job.pairs, NEW check \in {"COLLISION", "NO_GAIN", "PRICE", "SOUND"},
                 Handled(p, check) = "MERGED",
                 canon' = [y \in Subject |-> IF canon[y] \in p THEN Kept(p) ELSE canon[y]]
          PROVE  Canonical'
        <3>1. p \in Pair
            BY <1>3, HandleFrame, FoundArePairs DEF JobTyped
        <3>2. Kept(p) \in p /\ \A s \in p : s \in Subject /\ canon[s] = s
            BY <2>1, <3>1, KeptOfPair, HandleMerges
        <3>3. ASSUME NEW x \in Subject PROVE canon'[canon'[x]] = canon'[x]
            <4>1. CASE canon[x] \in p
                BY <2>1, <3>2, <4>1
            <4>2. CASE canon[x] \notin p
                BY <2>1, <4>2
            <4> QED BY <4>1, <4>2
        <3> QED BY <3>3
    <2> QED BY <1>3, <2>1, HandleFrame
<1>4. CASE UNCHANGED canon
    BY <1>4
<1> QED BY <1>1, <1>2, <1>3, <1>4 DEF Next, Around, Reads, EventsOpenOrClose, VolumeChanges, PersonDismisses, Forgets,
        FlagTurns, NewRules, MergePass, Summarise, Recall, Judge, Skip, Align, QueueHeld, Finish, PassDies, vars

\* Around the pass a subject is merged or taken apart only as it is touched, and what it holds changes
\* only so.
LEMMA AroundTouches ==
    ASSUME TypeOK, Around, stage # "idle"
    PROVE  /\ \A x \in Subject : canon'[x] \in {canon[x]} \cup job'.around
           /\ \A s : s \notin job'.around => Fingerprint(s)' = Fingerprint(s)
<1> USE DEF TypeOK, RegistryTyped, subjectVars, passVars
<1>1. UNCHANGED aligned
    BY AroundFrame
<1>2. ASSUME NEW x \in Subject, Reads(x)
      PROVE  /\ UNCHANGED canon
             /\ \A s : s \notin job'.around => Fingerprint(s)' = Fingerprint(s)
    <2>1. /\ UNCHANGED <<canon, open>> /\ Touch({canon[x]})
          /\ \A y \in Subject : y # x => own'[y] = own[y]
        BY <1>2 DEF Reads
    <2>2. canon[x] \in job'.around
        BY <2>1, TouchFrame
    <2>3. ASSUME NEW s, s \notin job'.around PROVE Fingerprint(s)' = Fingerprint(s)
        <3>1. \A y \in Members(s) : own'[y] = own[y]
            BY <2>1, <2>2, <2>3 DEF Members
        <3> QED BY <1>1, <2>1, <3>1, FingerprintStays
    <2> QED BY <2>1, <2>3
<1>3. ASSUME NEW x \in Subject, EventsOpenOrClose(x)
      PROVE  /\ UNCHANGED canon
             /\ \A s : s \notin job'.around => Fingerprint(s)' = Fingerprint(s)
    <2>1. /\ UNCHANGED <<canon, own>> /\ open' \subseteq Subject
          /\ \A y \in Subject : y # x => (y \in open' <=> y \in open)
          /\ job' = [job EXCEPT !.around = @ \cup {canon[x]}]
        BY <1>3 DEF EventsOpenOrClose
    <2>2. canon[x] \in job'.around
        BY <2>1 DEF JobTyped
    <2>3. ASSUME NEW s, s \notin job'.around PROVE Fingerprint(s)' = Fingerprint(s)
        <3>1. \A y \in open \cup open' : (y \in open' /\ canon'[y] = s) <=> (y \in open /\ canon[y] = s)
            BY <2>1, <2>2, <2>3
        <3> QED BY <1>1, <2>1, <3>1, FingerprintStays
    <2> QED BY <2>1, <2>3
<1>4. ASSUME NEW p \in Pair, PersonMerges(p)
      PROVE  /\ \A x \in Subject : canon'[x] \in {canon[x]} \cup job'.around
             /\ \A s : s \notin job'.around => Fingerprint(s)' = Fingerprint(s)
    <2>1. UNCHANGED <<own, open>> /\ Touch(p)
        BY <1>4 DEF PersonMerges
    <2>2. PICK k \in p, m \in p : k # m /\ canon' = [y \in Subject |-> IF canon[y] = m THEN k ELSE canon[y]]
        BY <1>4 DEF PersonMerges
    <2>3. p \subseteq job'.around
        BY <2>1, TouchFrame
    <2>4. ASSUME NEW s, s \notin job'.around PROVE Fingerprint(s)' = Fingerprint(s)
        <3>1. \A y \in open \cup open' : (y \in open' /\ canon'[y] = s) <=> (y \in open /\ canon[y] = s)
            BY <2>1, <2>2, <2>3, <2>4
        <3> QED BY <1>1, <2>1, <3>1, FingerprintStays
    <2>5. \A x \in Subject : canon'[x] \in {canon[x]} \cup job'.around
        BY <2>2, <2>3
    <2> QED BY <2>4, <2>5
<1>5. ASSUME NEW x \in Subject, PersonUnmerges(x)
      PROVE  /\ \A y \in Subject : canon'[y] \in {canon[y]} \cup job'.around
             /\ \A s : s \notin job'.around => Fingerprint(s)' = Fingerprint(s)
    <2>1. UNCHANGED <<own, open>> /\ Touch({x, canon[x]}) /\ canon' = [canon EXCEPT ![x] = x]
        BY <1>5 DEF PersonUnmerges
    <2>2. x \in job'.around /\ canon[x] \in job'.around
        BY <2>1, TouchFrame
    <2>3. ASSUME NEW s, s \notin job'.around PROVE Fingerprint(s)' = Fingerprint(s)
        <3>1. \A y \in open \cup open' : (y \in open' /\ canon'[y] = s) <=> (y \in open /\ canon[y] = s)
            BY <2>1, <2>2, <2>3
        <3> QED BY <1>1, <2>1, <3>1, FingerprintStays
    <2> QED BY <2>1, <2>2, <2>3
<1>6. ASSUME UNCHANGED <<canon, own, open>>
      PROVE  /\ UNCHANGED canon
             /\ \A s : Fingerprint(s)' = Fingerprint(s)
    BY <1>1, <1>6 DEF Fingerprint, Members
<1> QED BY <1>2, <1>3, <1>4, <1>5, <1>6 DEF Around, VolumeChanges, PersonDismisses, Forgets, FlagTurns, NewRules

\* Between the merge and the renaming of its keys, the pair's subjects stay each other's.
LEMMA PairStep == TypeOK /\ Canonical /\ PairStays /\ [Next]_vars => PairStays'
<1> SUFFICES ASSUME TypeOK, Canonical, PairStays, [Next]_vars PROVE PairStays'
    OBVIOUS
<1> USE DEF PairStays
<1>1. CASE Around
    <2>1. CASE stage = "align"
        <3>1. /\ UNCHANGED stage /\ job'.pair = job.pair /\ job.around \subseteq job'.around
              /\ job.pair \subseteq Subject
            BY <1>1, <2>1, AroundFrame, FoundArePairs DEF TypeOK, JobTyped, Pair
        <3> QED BY <1>1, <2>1, <3>1, AroundTouches
    <2> QED BY <1>1, <2>1, AroundFrame
<1>2. CASE Handle
    <2>1. ASSUME NEW p \in job.pairs, NEW check \in {"COLLISION", "NO_GAIN", "PRICE", "SOUND"},
                 Handled(p, check) = "MERGED", job'.pair = p,
                 canon' = [y \in Subject |-> IF canon[y] \in p THEN Kept(p) ELSE canon[y]]
          PROVE  PairStays'
        <3>1. p \in Pair
            BY <1>2, HandleFrame, FoundArePairs DEF JobTyped
        <3>2. Kept(p) \in p /\ \A s \in p : s \in Subject /\ canon[s] = s
            BY <2>1, <3>1, KeptOfPair, HandleMerges
        <3> QED BY <2>1, <3>2
    <2> QED BY <1>2, <2>1, HandleFrame
<1>3. CASE UNCHANGED vars
    BY <1>3 DEF vars, subjectVars, passVars
<1> QED BY <1>1, <1>2, <1>3 DEF Next, MergePass, Summarise, Recall, Judge, Skip, Align, QueueHeld, Finish, PassDies, passVars

\* What the pass summarised is what there is, but for what was changed around it or by it.
LEMMA PrintStep == TypeOK /\ Canonical /\ PairStays /\ PrintsAreCurrent /\ [Next]_vars => PrintsAreCurrent'
<1> SUFFICES ASSUME TypeOK, Canonical, PairStays, PrintsAreCurrent, [Next]_vars PROVE PrintsAreCurrent'
    OBVIOUS
<1> USE DEF PrintsAreCurrent, subjectVars, passVars
<1>1. CASE Around
    <2>1. CASE stage # "idle"
        <3>1. /\ UNCHANGED stage /\ job'.pair = job.pair /\ job.around \subseteq job'.around
              /\ job'.print = job.print /\ job'.mergedNow = job.mergedNow
            BY <1>1, <2>1, AroundFrame
        <3> QED BY <1>1, <2>1, <3>1, AroundTouches
    <2> QED BY <1>1, <2>1, AroundFrame
<1>2. CASE Summarise
    BY <1>2 DEF Summarise, Fingerprint, Members
<1>3. ASSUME UNCHANGED <<canon, own, open, aligned>>, stage # "idle", stage = "align" => stage' = "align",
             stage' # "idle" => /\ job'.print = job.print /\ job'.around = job.around
                                /\ job'.mergedNow = job.mergedNow /\ job'.pair = job.pair
      PROVE  PrintsAreCurrent'
    <2>1. \A s : Fingerprint(s)' = Fingerprint(s)
        BY <1>3 DEF Fingerprint, Members
    <2> QED BY <1>3, <2>1
<1>4. CASE Recall
    <2>1. PICK pairs, todo, left : job' = [job EXCEPT !.pairs = pairs, !.todo = todo, !.left = left]
        BY <1>4 DEF Recall
    <2> QED BY <1>3, <1>4, <2>1 DEF Recall, TypeOK, JobTyped
<1>5. CASE Judge
    <2>1. PICK left, pairs : job' = [job EXCEPT !.left = left, !.pairs = pairs]
        BY <1>5 DEF Judge
    <2>2. UNCHANGED <<canon, own, open, aligned>> /\ stage = "judge" /\ JobTyped
        BY <1>5 DEF Judge, TypeOK
    <2>3. /\ job'.print = job.print /\ job'.around = job.around
          /\ job'.mergedNow = job.mergedNow /\ job'.pair = job.pair
        BY <2>1, <2>2 DEF JobTyped
    <2> QED BY <1>3, <2>2, <2>3
<1>6. CASE Skip
    BY <1>3, <1>6 DEF Skip, TypeOK, JobTyped
<1>7. CASE Handle
    <2>1. CASE UNCHANGED <<canon, stage>> /\ job'.print = job.print /\ job'.around = job.around /\ job'.mergedNow = job.mergedNow
        <3>1. \A s : Fingerprint(s)' = Fingerprint(s)
            BY <1>7, <2>1, HandleFrame DEF Fingerprint, Members
        <3> QED BY <1>7, <2>1, <3>1, HandleFrame
    <2>2. ASSUME NEW p \in job.pairs, stage' = "align",
                 canon' = [y \in Subject |-> IF canon[y] \in p THEN Kept(p) ELSE canon[y]],
                 job'.pair = p, job'.print = job.print, job'.around = job.around, job'.mergedNow = job.mergedNow
          PROVE  PrintsAreCurrent'
        <3>1. p \in Pair
            BY <1>7, HandleFrame, FoundArePairs DEF JobTyped
        <3>2. Kept(p) \in p
            BY <3>1, KeptOfPair
        <3>3. open \subseteq Subject /\ UNCHANGED <<own, open, aligned>> /\ stage # "align" /\ stage # "idle"
            BY <1>7, HandleFrame DEF TypeOK, RegistryTyped
        <3>4. ASSUME NEW s, s \notin p PROVE Fingerprint(s)' = Fingerprint(s)
            <4>1. \A y \in open \cup open' : (y \in open' /\ canon'[y] = s) <=> (y \in open /\ canon[y] = s)
                BY <2>2, <3>2, <3>3, <3>4
            <4> QED BY <3>3, <4>1, FingerprintStays
        <3> QED BY <2>2, <3>3, <3>4
    <2> QED BY <1>7, <2>1, <2>2, HandleFrame
<1>8. CASE Align
    <2>1. /\ stage = "align" /\ JobTyped /\ stage' = "handle" /\ UNCHANGED <<canon, own, open>>
          /\ aligned' = aligned \cup (job.pair \ {Kept(job.pair)})
          /\ job'.print = job.print /\ job'.around = job.around
          /\ job'.mergedNow = job.mergedNow \cup job.pair
        BY <1>8 DEF Align, TypeOK, JobTyped
    <2>2. ASSUME NEW s, s \notin job.around, s \notin job.pair PROVE Fingerprint(s)' = Fingerprint(s)
        <3>1. \A x \in Members(s) : x \notin job.pair
            BY <2>1, <2>2 DEF PairStays, Members
        <3> QED BY <2>1, <3>1, FingerprintStays
    <2> QED BY <2>1, <2>2
<1>9. CASE QueueHeld
    BY <1>3, <1>9 DEF QueueHeld
<1>10. CASE Finish \/ PassDies
    BY <1>10 DEF Finish, PassDies
<1>11. CASE UNCHANGED vars
    BY <1>11 DEF vars, Fingerprint, Members
<1> QED BY <1>1, <1>2, <1>4, <1>5, <1>6, <1>7, <1>8, <1>9, <1>10, <1>11 DEF Next, MergePass

\* No pair is newly merged around the pass.
LEMMA OnlyHandleMerges == TypeOK /\ [Next]_vars => merging' \subseteq merging \/ Handle
BY DEF Next, Around, Reads, EventsOpenOrClose, VolumeChanges, PersonUnmerges, PersonDismisses, PersonMerges, Forgets,
       FlagTurns, NewRules, MergePass, Summarise, Recall, Judge, Skip, Align, QueueHeld, Finish, PassDies, vars,
       registryVars

\* A merge rests on a verdict about what its subjects hold as they are merged, unless someone else
\* changed one of them while the pass ran: what was merged earlier in the pass is left alone.
THEOREM VerdictIsCurrent == Spec => RestsOnItsVerdict
<1> DEFINE Rested ==
        \A p \in merging' \ merging :
            /\ memory[p].verdict = "SAME"
            /\ p \cap job.around = {} => memory[p].print = [s \in p |-> Fingerprint(s)]
<1>1. Init => VerdictInv
    BY DEF Init, VerdictInv, KnownRests, Canonical, PairStays, PrintsAreCurrent
<1>2. TypeOK /\ VerdictInv /\ [Next]_vars => VerdictInv'
    BY KnownStep, CanonicalStep, PairStep, PrintStep DEF VerdictInv
<1>3. TypeOK /\ VerdictInv /\ [Next]_vars => [Rested]_vars
    <2> SUFFICES ASSUME TypeOK, VerdictInv, [Next]_vars, NEW p \in merging' \ merging
                 PROVE  /\ memory[p].verdict = "SAME"
                        /\ p \cap job.around = {} => memory[p].print = [s \in p |-> Fingerprint(s)]
        OBVIOUS
    <2>1. Handle
        BY OnlyHandleMerges
    <2>2. /\ stage = "handle" /\ JobTyped /\ p \in job.pairs
          /\ IsDue(memory[p], Counts(p), job.auto) /\ ~LeftAlone(p)
        BY <2>1, HandleFrame
    <2>3. memory[p].verdict = "SAME"
        BY <2>2 DEF IsDue
    <2>4. ASSUME p \cap job.around = {} PROVE memory[p].print = [s \in p |-> Fingerprint(s)]
        <3>1. memory[p].print = [s \in p |-> job.print[s]]
            BY <2>2 DEF VerdictInv, KnownRests, Rests
        <3>2. ASSUME NEW s \in p PROVE job.print[s] = Fingerprint(s)
            BY <2>2, <2>4 DEF VerdictInv, PrintsAreCurrent, LeftAlone, JobTyped
        <3> QED BY <3>1, <3>2
    <2> QED BY <2>3, <2>4
<1> QED BY <1>1, <1>2, <1>3, TypeCorrect, PTL DEF Spec, RestsOnItsVerdict

=============================================================================
