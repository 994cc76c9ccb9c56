---------------------------- MODULE SubjectMerges ----------------------------
(***************************************************************************)
(* The subject merge pass: it finds pairs of subjects that may name one    *)
(* thing, has a model judge them, and merges the pairs that pass every     *)
(* check or queues them for a person, while subjects change, people        *)
(* decide, the auto-merge flag is turned, Redis forgets and the worker     *)
(* dies between two calls.                                                 *)
(*                                                                         *)
(* A subject is what its extracted subjects bring: own[x] stands for the   *)
(* venues, entities and measures read onto x, size[x] for how many open    *)
(* propositions.  What checking a merge finds (a collision, no gain, a     *)
(* contradicted price) is a choice of the environment, in Checks: the      *)
(* check itself is CheckMerge of the module Implication.                   *)
(***************************************************************************)
EXTENDS Naturals, FiniteSets, Functions

CONSTANTS
    Subject,     \* subject ids, in the order of their keys
    Keyed,       \* pairs found from their keys, deadlines and entities
    Near,        \* pairs found only by embedding
    Season,      \* subjects whose key is a team's or player's season
    None,
    Answers,     \* [Keyed \cup Near -> what the judge may say]: verdicts, None when it never answers
    Checks,      \* [Keyed \cup Near -> what checking the merge may find]
    Volumes,     \* [Subject -> Nat]: 24h volume at the start
    MinVolume,   \* subject_merge_min_volume
    JudgeLimit,  \* subject_merge_judge_limit
    Changes,     \* "contracts", "entities", "close", "volume", "flag", "rules"
    MaxChanges,  \* bound: such changes in a behaviour
    Faults,      \* "dies", "forget", "unanswered"
    MaxFaults    \* bound: faults in a behaviour

Pair == {p \in SUBSET Subject : Cardinality(p) = 2}

ASSUME ConstantsAssumption ==
    /\ Subject \subseteq Nat /\ IsFiniteSet(Subject) /\ Season \subseteq Subject
    /\ Keyed \subseteq Pair /\ Near \subseteq Pair
    /\ Checks \in [Keyed \cup Near -> SUBSET {"COLLISION", "NO_GAIN", "PRICE", "SOUND"}]
    /\ Volumes \in [Subject -> Nat] /\ MinVolume \in Nat
    /\ None \notin {"PENDING", "MERGED", "DISMISSED", "QUEUED_COLLISION", "QUEUED_PRICE"}
    /\ JudgeLimit \in Nat \ {0} /\ MaxChanges \in Nat /\ MaxFaults \in Nat

VARIABLES
    canon,    \* the subject each subject is merged into, or itself
    own, size, open, volume, \* what was read onto each subject: entities, propositions, open ones, volume
    aligned,  \* merged subjects whose keys were renamed to the kept subject's
    queue,    \* subject_merge_candidates: [Pair -> None, "PENDING", "MERGED" or "DISMISSED"]
    unmerged, \* the merge log's UNMERGE pairs
    memory,   \* Redis: [Pair -> None or Remembered]
    swept,    \* Redis: merge:last-sweep is set
    fresh,    \* subjects changed since the last complete sweep started
    auto,     \* subject_auto_merge_enabled
    stage,    \* where the pass is, or "idle"
    job,      \* what the pass that runs has at hand
    merging,  \* history: pairs the merger merged, and no one has taken apart
    seen,     \* the decisions the last pass read
    lost,     \* history: pairs a pass that died was about to queue, and none has handled since
    woke,     \* history: a pair came to need judging though neither subject was modified
    changes,  \* history: changes so far
    faults    \* history: faults so far

subjectVars  == <<canon, own, size, open, volume, aligned>>
registryVars == <<queue, unmerged, merging, seen>>
redisVars    == <<memory, swept, fresh>>
boundVars    == <<lost, woke, changes, faults>>
passVars     == <<stage, job>>
vars == <<subjectVars, registryVars, redisVars, auto, passVars, boundVars>>

-----------------------------------------------------------------------------
Members(s)  == {x \in open : canon[x] = s}
Summarised  == {s \in Subject : Members(s) # {}}

\* fingerprint: what the judge's answer about s rests on.
Fingerprint(s) == {<<x, own[x], x \in aligned>> : x \in Members(s)}
Count(s)       == SumFunctionOnSet(size, Members(s))
Volume(s)      == SumFunctionOnSet(volume, Members(s))

Decided == {p \in Pair : queue[p] \in {"MERGED", "DISMISSED"}} \cup unmerged

Rests(p) == [s \in p |-> job.print[s]]
Counts(p) == [s \in p |-> job.count[s]]

\* A pair judged SAME is handled once, and again when what held it back has changed.
IsDue(r, counts, autoMerge) ==
    /\ r.verdict = "SAME"
    /\ \/ r.outcome = None
       \/ r.outcome = "NO_GAIN" /\ (r.counts # counts \/ ~r.rules)
       \/ r.outcome = "WOULD_MERGE" /\ autoMerge

-----------------------------------------------------------------------------
Init ==
    /\ canon = [s \in Subject |-> s]
    /\ own = [s \in Subject |-> 0] /\ size = [s \in Subject |-> s]
    /\ open = Subject /\ volume = Volumes /\ aligned = {}
    /\ queue = [p \in Pair |-> None] /\ unmerged = {} /\ merging = {} /\ seen = {}
    /\ memory = [p \in Pair |-> None] /\ swept = FALSE /\ fresh = Subject
    /\ auto \in BOOLEAN
    /\ stage = "idle" /\ job = None
    /\ lost = {} /\ woke = FALSE /\ changes = 0 /\ faults = 0

Change(kind) ==
    /\ kind \in Changes /\ changes < MaxChanges /\ changes' = changes + 1
    /\ woke' = (woke \/ kind \in {"close", "volume"})
    /\ UNCHANGED <<lost, faults>>

Fault(kind) ==
    /\ kind \in Faults /\ faults < MaxFaults /\ faults' = faults + 1
    /\ woke' = (woke \/ kind = "forget")
    /\ UNCHANGED changes

\* The subjects S change now: after the running pass started, if one runs.
Touch(S) ==
    /\ fresh' = fresh \cup S
    /\ job' = IF stage = "idle" THEN job ELSE [job EXCEPT !.changed = @ \cup S, !.around = @ \cup S]
    /\ UNCHANGED stage

-----------------------------------------------------------------------------
(* Around the pass *)

\* A proposition is read onto x, with entities the subject had or with new ones.
Reads(x) ==
    /\ \/ Change("contracts") /\ UNCHANGED own
       \/ Change("entities") /\ own' = [own EXCEPT ![x] = @ + 1]
    /\ size' = [size EXCEPT ![x] = @ + 1]
    /\ Touch({canon[x]})
    /\ UNCHANGED <<canon, open, volume, aligned, registryVars, memory, swept, auto>>

\* The events of x resolve, or open again; propositions are not modified.
EventsOpenOrClose(x) ==
    /\ Change("close")
    /\ open' = IF x \in open THEN open \ {x} ELSE open \cup {x}
    /\ job' = IF stage = "idle" THEN job ELSE [job EXCEPT !.around = @ \cup {canon[x]}]
    /\ UNCHANGED <<canon, own, size, volume, aligned, registryVars, redisVars, auto, stage>>

VolumeChanges(x) ==
    /\ Change("volume")
    /\ volume' = [volume EXCEPT ![x] = IF @ = 0 THEN MinVolume ELSE 0]
    /\ UNCHANGED <<canon, own, size, open, aligned, registryVars, redisVars, auto, passVars>>

FlagTurns ==
    /\ Change("flag")
    /\ auto' = ~auto
    /\ UNCHANGED <<subjectVars, registryVars, redisVars, passVars>>

\* A worker starts with a new MERGE_RULES_VERSION: another sweep key, and outcomes of older rules.
NewRules ==
    /\ stage = "idle"
    /\ Change("rules")
    /\ swept' = FALSE
    /\ memory' = [p \in Pair |-> IF memory[p] = None THEN None ELSE [memory[p] EXCEPT !.rules = FALSE]]
    /\ UNCHANGED <<subjectVars, registryVars, fresh, auto, passVars>>

\* A pair's key expires: between passes, since a pass goes on with what it recalled.
Forgets(p) ==
    /\ stage = "idle"
    /\ memory[p] # None
    /\ Fault("forget")
    /\ memory' = [memory EXCEPT ![p] = None]
    /\ UNCHANGED <<subjectVars, registryVars, swept, fresh, auto, passVars, lost>>

PersonDismisses(p) ==
    /\ queue[p] = "PENDING"
    /\ queue' = [queue EXCEPT ![p] = "DISMISSED"]
    /\ UNCHANGED <<subjectVars, unmerged, merging, seen, redisVars, auto, passVars, boundVars>>

PersonMerges(p) ==
    /\ queue[p] = "PENDING"
    /\ \A s \in p : canon[s] = s
    /\ queue' = [queue EXCEPT ![p] = "MERGED"]
    /\ \E s \in p : \E x \in p \ {s} : canon' = [y \in Subject |-> IF canon[y] = x THEN s ELSE canon[y]]
    /\ Touch(p)
    /\ UNCHANGED <<own, size, open, volume, aligned, unmerged, merging, seen, memory, swept, auto, boundVars>>

PersonUnmerges(x) ==
    /\ Change("unmerge")
    /\ canon[x] # x
    /\ canon' = [canon EXCEPT ![x] = x]
    /\ unmerged' = unmerged \cup {{x, canon[x]}}
    /\ merging' = merging \ {{x, canon[x]}}
    /\ queue' = [queue EXCEPT ![{x, canon[x]}] = IF @ = "PENDING" THEN "DISMISSED" ELSE @]
    /\ Touch({x, canon[x]})
    /\ UNCHANGED <<own, size, open, volume, aligned, seen, memory, swept, auto>>

-----------------------------------------------------------------------------
(* The pass: run_merge_pass *)

\* Subjects whose neighbours are looked up, as the pass starts: not those changed in the hour before the last sweep
\* too (SWEEP_OVERLAP), who would only be looked up once more.
LookedUp == {s \in Summarised : Volume(s) >= MinVolume /\ (~swept \/ s \in fresh)}

CandidatePairs ==
    {p \in Keyed \cup Near :
        /\ p \subseteq Summarised
        /\ p \in Keyed \/ p \cap LookedUp # {}
        /\ \E s \in p : Volume(s) >= MinVolume}

Summarise ==
    /\ stage = "idle" /\ stage' = "recall"
    /\ job' = [auto |-> auto, pairs |-> CandidatePairs,
               print |-> [s \in Summarised |-> Fingerprint(s)], count |-> [s \in Summarised |-> Count(s)],
               volume |-> [s \in Summarised |-> Volume(s)],
               todo |-> {}, left |-> 0, pair |-> None, mergedNow |-> {}, held |-> {}, changed |-> {}, around |-> {}]
    /\ UNCHANGED <<subjectVars, registryVars, redisVars, auto, boundVars>>

\* Busiest first, and in key order.
Busy(p)   == CHOOSE v \in {job.volume[s] : s \in p} : \A s \in p : job.volume[s] <= v
First(p)  == CHOOSE s \in p : \A t \in p : s <= t
Second(p) == CHOOSE s \in p : s # First(p)

Ahead(p, q) ==
    \/ Busy(p) > Busy(q)
    \/ Busy(p) = Busy(q) /\ (First(p) < First(q) \/ (First(p) = First(q) /\ Second(p) < Second(q)))

\* The pair whose turn it is.
IsNext(p) == \A q \in job.pairs \ {p} : Ahead(p, q)

\* What is remembered rests on the contents the pass summarised.
StillKnown(p) == memory[p] # None /\ memory[p].print = Rests(p)

\* Mutant of Settled: what a person unmerged is left out.
SettledOnQueue == {p \in Pair : queue[p] \in {"MERGED", "DISMISSED"}}

Settled == Decided

\* A person's decision is final; what is remembered of the rest is recalled.
Recall ==
    /\ stage = "recall"
    /\ LET pairs    == job.pairs \ Settled
           unjudged == {p \in pairs : ~StillKnown(p)}
           todo     == {p \in unjudged : Cardinality({q \in unjudged : Ahead(q, p)}) < JudgeLimit}
       IN  job' = [job EXCEPT !.pairs = pairs, !.todo = todo, !.left = Cardinality(unjudged)]
    /\ stage' = "judge"
    /\ seen' = Decided
    /\ UNCHANGED <<subjectVars, queue, unmerged, merging, redisVars, auto, boundVars>>

\* What the judge makes of the pairs asked; None for those it did not answer.
JudgeAnswers ==
    {a \in [job.todo -> (UNION {Answers[p] : p \in job.todo}) \cup {None}] :
        \A p \in job.todo : a[p] \in Answers[p] \/ (a[p] = None /\ "unanswered" \in Faults /\ faults < MaxFaults)}

Judge ==
    /\ stage = "judge"
    /\ \E answer \in JudgeAnswers :
          LET answered == {p \in job.todo : answer[p] # None}
          IN  /\ memory' = [p \in Pair |->
                    IF p \in answered
                    THEN [print |-> Rests(p), verdict |-> answer[p], counts |-> Counts(p), outcome |-> None, rules |-> FALSE]
                    ELSE memory[p]]
              /\ job' = [job EXCEPT !.left = @ - Cardinality(answered),
                                    !.pairs = {p \in @ : p \in answered \/ StillKnown(p)}]
              /\ faults' = IF \E p \in job.todo \ answered : None \notin Answers[p] THEN faults + 1 ELSE faults
    /\ stage' = "handle"
    /\ UNCHANGED <<subjectVars, registryVars, swept, fresh, auto, lost, woke, changes>>

\* What _handle comes to: what the pass knew of the two subjects, and their contracts as they are now.
Handled(p, check) ==
    IF Cardinality(p \cap Season) = 1 THEN "SEASON_KEY"
    ELSE IF \E s \in p : Members(s) = {} THEN None
    ELSE CASE check = "COLLISION" -> "QUEUED_COLLISION"
           [] check = "NO_GAIN"   -> "NO_GAIN"
           [] check = "PRICE"     -> "QUEUED_PRICE"
           [] check = "SOUND"     -> IF job.auto THEN "MERGED" ELSE "WOULD_MERGE"

Remember(p, outcome) ==
    memory' = [memory EXCEPT ![p].counts = Counts(p), ![p].outcome = outcome, ![p].rules = TRUE]

\* The kept subject has more propositions, and the smaller key when they are even.
Kept(p) == IF job.count[First(p)] >= job.count[Second(p)] THEN First(p) ELSE Second(p)

\* Mutant of HeldWith: only the last pair held is queued.
HeldLast(p, outcome) == IF outcome \in {"QUEUED_COLLISION", "QUEUED_PRICE"} THEN {p} ELSE job.held

HeldWith(p, outcome) == IF outcome \in {"QUEUED_COLLISION", "QUEUED_PRICE"} THEN job.held \cup {p} ELSE job.held

\* Mutant of LeftAlone: a subject merged earlier in the pass is handled again.
NothingLeftAlone(p) == FALSE

\* A pair with a subject merged in this pass, or not due: the next pass handles it.
LeftAlone(p) == p \cap job.mergedNow # {}

Skip ==
    /\ stage = "handle"
    /\ \E p \in job.pairs :
          /\ IsNext(p)
          /\ ~IsDue(memory[p], Counts(p), job.auto) \/ LeftAlone(p)
          /\ job' = [job EXCEPT !.pairs = @ \ {p}]
    /\ UNCHANGED <<stage, subjectVars, registryVars, redisVars, auto, boundVars>>

Handle ==
    /\ stage = "handle"
    /\ \E p \in job.pairs :
          /\ IsNext(p)
          /\ IsDue(memory[p], Counts(p), job.auto) /\ ~LeftAlone(p)
          /\ \E check \in Checks[p] :
                LET outcome == Handled(p, check)
                IN  IF outcome = "MERGED"
                    THEN /\ canon' = [y \in Subject |-> IF canon[y] \in p THEN Kept(p) ELSE canon[y]]
                         /\ fresh' = fresh \cup p
                         /\ merging' = merging \cup {p}
                         /\ stage' = "align" /\ job' = [job EXCEPT !.pair = p]
                         /\ UNCHANGED <<memory, lost>>
                    ELSE /\ Remember(p, outcome)
                         /\ job' = [job EXCEPT !.pairs = @ \ {p}, !.held = HeldWith(p, outcome)]
                         /\ lost' = lost \ {p}
                         /\ UNCHANGED <<canon, fresh, merging, stage>>
    /\ UNCHANGED <<own, size, open, volume, aligned, queue, unmerged, seen, swept, auto, woke, changes, faults>>

\* After a merge: the merged subject's keys are renamed, then what the pair came to is kept.
Align ==
    /\ stage = "align"
    /\ aligned' = aligned \cup (job.pair \ {Kept(job.pair)})
    /\ Remember(job.pair, "MERGED")
    /\ job' = [job EXCEPT !.pairs = @ \ {job.pair}, !.pair = None, !.mergedNow = @ \cup job.pair]
    /\ stage' = "handle"
    /\ UNCHANGED <<canon, own, size, open, volume, registryVars, swept, fresh, auto, boundVars>>

\* The held pairs go on the queue, in one call at the end; a decided one stays decided.
QueueHeld ==
    /\ stage = "handle" /\ job.pairs = {}
    /\ queue' = [p \in Pair |-> IF p \in job.held /\ queue[p] = None THEN "PENDING" ELSE queue[p]]
    /\ stage' = "sweep"
    /\ UNCHANGED <<job, subjectVars, unmerged, merging, seen, redisVars, auto, boundVars>>

\* Mutant of SweepIsComplete: a sweep is complete though pairs were left to judge.
EverySweepIsComplete == TRUE

SweepIsComplete == job.left = 0

Finish ==
    /\ stage = "sweep"
    /\ IF SweepIsComplete THEN swept' = TRUE /\ fresh' = job.changed \cup job.mergedNow ELSE UNCHANGED <<swept, fresh>>
    /\ stage' = "idle" /\ job' = None
    /\ UNCHANGED <<subjectVars, registryVars, memory, auto, boundVars>>

\* A call of the pass raises, or the worker dies: nothing after it is done.
PassDies ==
    /\ stage # "idle"
    /\ Fault("dies")
    /\ stage' = "idle" /\ job' = None
    /\ lost' = lost \cup {p \in job.held : queue[p] = None}
    /\ UNCHANGED <<subjectVars, registryVars, redisVars, auto>>

-----------------------------------------------------------------------------
Around ==
    \/ \E x \in Subject : Reads(x) \/ EventsOpenOrClose(x) \/ VolumeChanges(x) \/ PersonUnmerges(x)
    \/ \E p \in Pair : PersonDismisses(p) \/ PersonMerges(p) \/ Forgets(p)
    \/ FlagTurns
    \/ NewRules

MergePass == Summarise \/ Recall \/ Judge \/ Skip \/ Handle \/ Align \/ QueueHeld \/ Finish

Next == Around \/ MergePass \/ PassDies

Spec == Init /\ [][Next]_vars

\* An idle worker runs the pass every interval.
FairSpec == Spec /\ WF_vars(MergePass)

-----------------------------------------------------------------------------
(* Properties *)

\* The pass implements what the merger promises: no decision it has read is acted against.
Decisions == INSTANCE MergeDecisions WITH
    waiting <- {p \in Pair : queue[p] = "PENDING"},
    decided <- Decided

KeepsItsPromise == Decisions!Spec

\* A merge rests on a verdict about what the two subjects hold, and not only what they held when
\* it was given: unless someone else changed one of them since the pass began.
RestsOnItsVerdict ==
    [][\A p \in merging' \ merging :
          /\ memory[p].verdict = "SAME"
          /\ p \cap job.around = {} => memory[p].print = [s \in p |-> Fingerprint(s)]]_vars

Held(p) == memory[p] # None /\ memory[p].outcome \in {"QUEUED_PRICE", "QUEUED_COLLISION"}

\* A pair remembered as waiting for a person is on the queue they look at, or about to be, whichever passes were cut
\* short: but for the pairs a pass that died had in hand, until one of them is due again and handled to the end.
QueuedUnlessDied ==
    \A p \in Pair :
        Held(p) => queue[p] # None \/ p \in unmerged \/ (stage # "idle" /\ p \in job.held) \/ p \in lost

Findable(p) ==
    /\ p \notin Decided /\ \A s \in p : Members(s) # {}
    /\ \E s \in p : Volume(s) >= MinVolume

AnswerableGetsJudged ==
    \A p \in {q \in Keyed \cup Near : None \notin Answers[q]} :
        Findable(p) ~> memory[p] # None \/ ~Findable(p) \/ (p \notin Keyed /\ woke)

Unanswerable == {q \in Keyed \cup Near : None \in Answers[q]}

\* Every pair the judge can answer is judged in the end, found again by the passes after one that left it past the
\* limit, though passes die and embedding neighbours are looked up only for changed subjects (one found only so needs
\* one of its subjects modified): as long as the busiest pairs, which every pass asks about first, are not as many as
\* the limit and never answered.  As many take every pass, and the rest never have their turn.
FindableGetsJudged == Cardinality(Unanswerable) < JudgeLimit => AnswerableGetsJudged
=============================================================================
