----------------------------- MODULE Derivation -----------------------------
(***************************************************************************)
(* Deriving the relationships of the subjects that are due (the second     *)
(* half of the relationships worker's pass), against everything else that  *)
(* writes what it reads: the normalize worker storing a contract's source, *)
(* the worker's own re-reading of propositions, events resolving and       *)
(* opening again, and people merging subjects.                             *)
(*                                                                         *)
(* A reading is [subject, unit, rank, source]: a contract's place in a     *)
(* ladder.  Two contracts are related when they are in one unit of one     *)
(* subject, the lower rank implying the higher (equal ranks: equivalent).  *)
(* What the rules make of two real propositions is the module Implication. *)
(* Rows are stored reduced (minimal_rows): consecutive contracts only.     *)
(*                                                                         *)
(* Times are only compared with derived_at, so they are kept as the sets   *)
(* of what is later than it: changed (propositions) and due (subjects),    *)
(* and, while a subject is derived, since and touched (later than its      *)
(* read_at).                                                               *)
(***************************************************************************)
EXTENDS Naturals, Sequences, FiniteSets, SequencesExt, Missing

CONSTANTS
    Contract,    \* security_ids
    Subject,
    Unit,        \* derivation units of a subject
    NoUnit,      \* what no rule can use
    Placed,      \* [Contract -> places]: [subject, unit, rank] at the start
    Places,      \* the places a contract can be read into again
    Failing,     \* subjects whose reconcile never succeeds
    ChunkRows,   \* RECONCILE_CHUNK_ROWS
    DeriveLimit, \* relationships_derive_limit
    Changes,     \* what happens around: "source", "withdraw", "resolve", "reopen", "merge"
    MaxChanges,  \* bound: such changes in a behaviour
    Faults,      \* "reconcile", "crash", "version"
    MaxFaults    \* bound: faults in a behaviour

ASSUME ConstantsAssumption ==
    /\ Contract \subseteq Nat /\ IsFiniteSet(Contract) /\ IsFiniteSet(Subject)
    /\ NoUnit \notin Unit
    /\ Places \subseteq [subject : Subject, unit : Unit \cup {NoUnit}, rank : Nat]
    /\ Placed \in [Contract -> Places]
    /\ Failing \subseteq Subject
    /\ ChunkRows \in Nat /\ DeriveLimit \in Nat \ {0}
    /\ MaxChanges \in Nat /\ MaxFaults \in Nat
    /\ None \notin Nat /\ None \notin [subject : Subject, unit : Unit \cup {NoUnit}, rank : Nat, source : Nat]

VARIABLES
    source,   \* each contract's source_hash, as a version; None when it has no source
    open,     \* contracts of unresolved events
    reading,  \* each contract's stored proposition: [subject, unit, rank, source], or None
    canon,    \* the subject each subject is merged into, or itself
    rows,     \* contract_relationship: [a, b, same], derived rows only
    changed,  \* contracts whose proposition changed after their subject's derived_at
    due,      \* subjects changed after their derived_at
    order,    \* all subjects by date_modified
    todo,     \* the worker: subjects its pass has still to derive
    job,      \* the worker: [subject, units, rows] it is reconciling, or None
    since,    \* contracts changed after the job's read_at
    touched,  \* subjects changed after the job's read_at
    back,     \* history: contracts whose event resolved and opened again
    left,     \* history: some contract left a unit, or came back to it, without being read again
    changes,  \* history: changes so far
    faults    \* history: faults so far

contractVars == <<source, open, reading, canon>>
dueVars      == <<changed, due, order, since, touched>>
vars == <<contractVars, rows, dueVars, todo, job, left, back, changes, faults>>

-----------------------------------------------------------------------------
SubjectOf(c) == canon[reading[c].subject]

\* Open contracts whose proposition was read from their current source.
Derivable == {c \in open : reading[c] # None /\ reading[c].source = source[c]}

\* Open contracts with a source the worker has not read.
Unread == {c \in open : source[c] # None} \ Derivable

Members(s)   == {c \in Derivable : SubjectOf(c) = s}
InUnit(s, u) == {c \in Members(s) : reading[c].unit = u}

\* The contracts that share a derivation unit with c, itself included.
Mates(c) == {d \in Derivable : SubjectOf(d) = SubjectOf(c) /\ reading[d].unit = reading[c].unit}

Before(a, b) ==
    \/ reading[a].rank < reading[b].rank
    \/ reading[a].rank = reading[b].rank /\ a < b

\* derive_unit and minimal_rows: the fewest rows that give back every pair of the ladder.
MinimalRows(members) ==
    LET next == {p \in members \X members :
                    Before(p[1], p[2]) /\ ~\E c \in members : Before(p[1], c) /\ Before(c, p[2])}
    IN  {[a |-> p[1], b |-> p[2], same |-> reading[p[1]].rank = reading[p[2]].rank] : p \in next}

Touching(ids, R) == {r \in R : r.a \in ids \/ r.b \in ids}

\* Mutant of RowsFor: a row between two chunks goes in the first only.
RowsOnce(ids, R) == {r \in R : r.a \in ids}

\* A request carries every row that touches its securities.
RowsFor(ids, R) == Touching(ids, R)

\* _chunks: as many securities per request as their rows allow, in order, and one at least.
Fits(ids, R) == Cardinality(ids) <= 1 \/ Cardinality(Touching(ids, R)) <= ChunkRows

Chunks(unit, R) ==
    LET first == {ids \in SUBSET unit : \A c \in ids, d \in unit \ ids : c < d}
    IN  {ids \in first : Fits(ids, R) /\ \A more \in first : Fits(more, R) => more \subseteq ids}

\* The units with a changed contract.  (As a mutant of UnitsToReplace: contracts no rule can use are
\* left as they are.)
ChangedUnits(s) == {InUnit(s, u) : u \in {v \in Unit : InUnit(s, v) \cap changed # {}}}

\* Each unit with a changed contract is replaced whole; a changed contract no rule can use loses its rows.
UnitsToReplace(s) == ChangedUnits(s) \cup ({changed \cap InUnit(s, NoUnit)} \ {{}})

RowsToStore(s) == UNION {MinimalRows(InUnit(s, u)) : u \in Unit}

-----------------------------------------------------------------------------
Init ==
    /\ source = [c \in Contract |-> 0] /\ open = Contract
    /\ reading = [c \in Contract |-> [subject |-> Placed[c].subject, unit |-> Placed[c].unit,
                                      rank |-> Placed[c].rank, source |-> 0]]
    /\ canon = [s \in Subject |-> s]
    /\ rows = {} /\ changed = Contract /\ due = {Placed[c].subject : c \in Contract}
    /\ order = SetToSeq(Subject)
    /\ todo = <<>> /\ job = None /\ since = {} /\ touched = {}
    /\ left = FALSE /\ back = {} /\ changes = 0 /\ faults = 0

Fault(kind) == kind \in Faults /\ faults < MaxFaults /\ faults' = faults + 1
Change(kind) == kind \in Changes /\ changes < MaxChanges /\ changes' = changes + 1

\* The propositions of C and the subjects S change now.
Modify(C, S) ==
    /\ changed' = changed \cup C
    /\ due' = due \cup S
    /\ order' = SelectSeq(order, LAMBDA s : s \notin S) \o SetToSeq(S)
    /\ since' = IF job = None THEN since ELSE since \cup C
    /\ touched' = IF job = None THEN touched ELSE touched \cup S

NotModified == UNCHANGED dueVars

\* The worker's thread is between passes: it reads propositions only then.
Idle == todo = <<>> /\ job = None

\* _sync_contract_sources: a source that differs drops the contract's derived rows at once.
SourceChanges(c) ==
    /\ Change("source")
    /\ source' = [source EXCEPT ![c] = changes']
    /\ rows' = IF source[c] = None THEN rows ELSE rows \ Touching({c}, rows)
    /\ NotModified
    /\ UNCHANGED <<open, reading, canon, todo, job, left, back, faults>>

\* A null source (the security may be several markets): its proposition goes too.
SourceWithdrawn(c) ==
    /\ Change("withdraw")
    /\ source' = [source EXCEPT ![c] = None]
    /\ reading' = [reading EXCEPT ![c] = None]
    /\ rows' = rows \ Touching({c}, rows)
    /\ Modify({}, IF reading[c] = None THEN {} ELSE {SubjectOf(c)})
    /\ left' = TRUE
    /\ UNCHANGED <<open, canon, todo, job, back, faults>>

EventResolves(c) ==
    /\ Change("resolve")
    /\ c \in open
    /\ open' = open \ {c}
    /\ left' = TRUE
    /\ NotModified
    /\ UNCHANGED <<source, reading, canon, rows, todo, job, back, faults>>

EventReopens(c) ==
    /\ Change("reopen")
    /\ c \notin open
    /\ open' = open \cup {c}
    /\ left' = TRUE /\ back' = back \cup {c}
    /\ NotModified
    /\ UNCHANGED <<source, reading, canon, rows, todo, job, faults>>

\* A person merges a subject into another, or undoes it; the registry moves the propositions
\* and marks both subjects changed.
SubjectMerged(s, t) ==
    /\ Change("merge")
    /\ s # t /\ canon[s] = s /\ canon[t] = t
    /\ canon' = [x \in Subject |-> IF canon[x] = s THEN t ELSE canon[x]]
    /\ Modify({c \in Contract : reading[c] # None /\ SubjectOf(c) = s}, {s, t})
    /\ left' = TRUE
    /\ UNCHANGED <<source, open, reading, rows, todo, job, back, faults>>

SubjectUnmerged(s) ==
    /\ Change("merge")
    /\ canon[s] # s
    /\ canon' = [canon EXCEPT ![s] = s]
    /\ Modify({c \in Contract : reading[c] # None /\ reading[c].subject = s}, {s, canon[s]})
    /\ left' = TRUE
    /\ UNCHANGED <<source, open, reading, rows, todo, job, back, faults>>

\* read_propositions stores what a contract's current source now reads as.
Reread(c) ==
    /\ Idle
    /\ c \in Unread
    /\ \E place \in Places :
          LET new == [subject |-> place.subject, unit |-> place.unit, rank |-> place.rank, source |-> source[c]]
              was == reading[c]
          IN  /\ reading' = [reading EXCEPT ![c] = new]
              /\ Modify({c}, {canon[new.subject]} \cup IF was = None THEN {} ELSE {SubjectOf(c)})
              /\ left' = (left \/ was = None \/ <<was.subject, was.unit>> # <<new.subject, new.unit>>)
    /\ UNCHANGED <<source, open, canon, rows, todo, job, changes, back, faults>>

-----------------------------------------------------------------------------
(* derive_due_subjects *)

\* dirty_subjects: canonical, due, longest unchanged first.
Dirty == SelectSeq(order, LAMBDA s : s \in due /\ canon[s] = s)

StartPass ==
    /\ Idle
    /\ Dirty # <<>>
    /\ todo' = SubSeq(Dirty, 1, IF Len(Dirty) < DeriveLimit THEN Len(Dirty) ELSE DeriveLimit)
    /\ NotModified
    /\ UNCHANGED <<contractVars, rows, job, left, back, changes, faults>>

\* get_subject_contracts and the derivation itself, as of now.
ReadSubject ==
    /\ todo # <<>> /\ job = None
    /\ job' = [subject |-> Head(todo), units |-> UnitsToReplace(Head(todo)), rows |-> RowsToStore(Head(todo))]
    /\ todo' = Tail(todo)
    /\ since' = {} /\ touched' = {}
    /\ UNCHANGED <<contractVars, rows, changed, due, order, left, back, changes, faults>>

\* Mutant of MarkDerived: a subject changed meanwhile is derived too.
MarkDerivedAnyway(s) ==
    /\ changed' = {c \in changed : c \in since \/ (reading[c] # None => SubjectOf(c) # s)}
    /\ due' = due \ {s} /\ touched' = touched \ {s}
    /\ UNCHANGED <<order, since>>

\* derived_at is the job's read_at: what changed after it is still to be derived.
MarkDerived(s) ==
    /\ changed' = {c \in changed : c \in since \/ (reading[c] # None => SubjectOf(c) # s)}
    /\ due' = IF s \in touched THEN due ELSE due \ {s}
    /\ UNCHANGED <<order, since, touched>>

OnRequest(s, last) == IF last THEN MarkDerived(s) ELSE NotModified

\* One reconcile request, for some of one unit (the units come in no order), or for no one when
\* there is no unit to replace: the rows of its securities are replaced.
Reconcile ==
    /\ job # None /\ job.subject \notin Failing
    /\ \E unit \in IF job.units = {} THEN {{}} ELSE job.units : \E ids \in Chunks(unit, job.rows) :
          LET unsent == (job.units \ {unit}) \cup ({unit \ ids} \ {{}})
          IN  /\ rows' = (rows \ Touching(ids, rows)) \cup RowsFor(ids, job.rows)
              /\ OnRequest(job.subject, unsent = {})
              /\ job' = IF unsent = {} THEN None ELSE [job EXCEPT !.units = unsent]
    /\ UNCHANGED <<contractVars, todo, left, back, changes, faults>>

\* Mutant of LeftToDerive: one subject that cannot be derived ends the pass.
PassEnds == <<>>

LeftToDerive == todo

\* A request fails: the subject stays due, the pass goes on with the next.
ReconcileFails ==
    /\ job # None
    /\ \/ job.subject \in Failing /\ UNCHANGED faults
       \/ job.subject \notin Failing /\ Fault("reconcile")
    /\ job' = None
    /\ todo' = LeftToDerive
    /\ NotModified
    /\ UNCHANGED <<contractVars, rows, left, back, changes>>

Crash ==
    /\ ~Idle
    /\ Fault("crash")
    /\ todo' = <<>> /\ job' = None
    /\ NotModified
    /\ UNCHANGED <<contractVars, rows, left, back, changes>>

\* The worker starts with a new DERIVATION_VERSION: every derived_at is cleared.
NewVersion ==
    /\ Fault("version")
    /\ changed' = Contract /\ due' = Subject
    /\ todo' = <<>> /\ job' = None
    /\ UNCHANGED <<contractVars, rows, order, since, touched, left, back, changes>>

-----------------------------------------------------------------------------
Around ==
    \/ \E c \in Contract : SourceChanges(c) \/ SourceWithdrawn(c) \/ EventResolves(c) \/ EventReopens(c)
    \/ \E s, t \in Subject : SubjectMerged(s, t)
    \/ \E s \in Subject : SubjectUnmerged(s)

DerivePass == StartPass \/ ReadSubject \/ Reconcile \/ ReconcileFails

Next == Around \/ (\E c \in Contract : Reread(c)) \/ DerivePass \/ Crash \/ NewVersion

Spec == Init /\ [][Next]_vars

GoesOn == todo # <<>> /\ job = None /\ todo' = Tail(todo)

\* The worker polls its queue or is idle for ever, and every poll ends in a pass.
FairSpec ==
    /\ Spec
    /\ WF_vars(StartPass)
    /\ WF_todo(GoesOn)   \* ReadSubject, by what it does to todo
    /\ WF_vars(Reconcile \/ ReconcileFails)

-----------------------------------------------------------------------------
(* Properties *)

Row == [a : Contract, b : Contract, same : BOOLEAN]

\* What the rows say: <<a, b>> when a implies b.
Arrows == {<<r.a, r.b>> : r \in rows} \cup {<<r.b, r.a>> : r \in {x \in rows : x.same}}

\* What consumers rebuild from them, through any number of contracts: <<a, b>> when every set that holds a,
\* and what the rows say its members imply, holds b.
Rebuilt ==
    LET closed == {S \in SUBSET Contract : \A p \in Arrows : p[1] \in S => p[2] \in S}
    IN  {p \in Contract \X Contract : p[1] # p[2] /\ \A S \in closed : p[1] \in S => p[2] \in S}

\* What holds of the propositions as they are now.
Implied ==
    {p \in Derivable \X Derivable :
        /\ p[1] # p[2] /\ p[2] \in Mates(p[1]) /\ reading[p[1]].unit # NoUnit
        /\ reading[p[1]].rank <= reading[p[2]].rank}

Current == Derivable \ back

\* Nothing is due and every open contract has been read from its current source.
UpToDate == job = None /\ due = {} /\ Unread = {}

\* Once the worker has caught up, no row between two derivable contracts says what their
\* propositions do not, whatever changed while it derived and whichever request failed: unless
\* an event resolved before its contract was derived again and opened after.
NothingWrongLeft == UpToDate => {p \in Arrows : p[1] \in Current /\ p[2] \in Current} \subseteq Implied

\* Once the worker has caught up, the stored rows give back exactly the relationships the
\* propositions have, as long as every contract stayed in the unit it was in.
ExactlyRebuilt == UpToDate /\ ~left => Rebuilt = Implied

\* A derivable contract whose proposition changed keeps its subject due until it is derived,
\* also when it changes while its subject is being derived.
ChangedKeepsDue == \A c \in changed \cap Derivable : SubjectOf(c) \in due

\* A subject that is due is derived in the end, or merged away, though others before it fail on
\* every pass.
DueGetsDerived == \A s \in Subject \ Failing : s \in due ~> s \notin due \/ canon[s] # s
=============================================================================
