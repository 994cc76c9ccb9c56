------------------------- MODULE Derivation_proofs -------------------------
(***************************************************************************)
(* Proofs about Derivation, for every set of contracts, ladder and chunk   *)
(* size, and whatever happens while a subject is derived: what has changed *)
(* stays due, and once nothing is due no row is wrong and none is missing. *)
(* And about the rules rows are derived by, for every two propositions and *)
(* every set of worlds: what they say without a caveat is so, and between  *)
(* two readings of a price nothing that is so is left unsaid.              *)
(* And about the fee rows two syncs leave, for every history they can      *)
(* follow: they give the fee that was charged.  And about what a batch of  *)
(* events keeps of the answers it got.                                     *)
(***************************************************************************)
EXTENDS Derivation, Rules, FiniteSetTheorems, WellFoundedInduction, TLAPS

-----------------------------------------------------------------------------
(* Type correctness.  The pass's queue of subjects is only taken from.     *)

Reading == [subject : Subject, unit : Unit \cup {NoUnit}, rank : Nat, source : Nat]

JobTyped ==
    /\ job = [subject |-> job.subject, units |-> job.units, rows |-> job.rows]
    /\ job.units \subseteq SUBSET Contract /\ job.rows \subseteq Row

\* A source that changes is one no proposition was read from.
Fresh ==
    /\ source = [c \in Contract |-> source[c]]
    /\ \A c \in Contract : source[c] # None => source[c] \in 0..changes
    /\ \A c \in Contract : reading[c] # None => reading[c].source \in 0..changes

TypeOK ==
    /\ reading \in [Contract -> Reading \cup {None}]
    /\ canon \in [Subject -> Subject]
    /\ open \subseteq Contract /\ rows \subseteq Row
    /\ changed \subseteq Contract /\ since \subseteq changed
    /\ changes \in Nat
    /\ job # None => JobTyped
    /\ Fresh

\* What Modify does, but for the order of the subjects.
LEMMA ModifyFrame ==
    ASSUME NEW C, NEW S, Modify(C, S)
    PROVE  /\ changed' = changed \cup C /\ due' = due \cup S
           /\ job # None => since' = since \cup C /\ touched' = touched \cup S
           /\ job = None => UNCHANGED <<since, touched>>
BY DEF Modify

\* A minimal row is between two different contracts of the unit.
LEMMA MinimalRowsOf ==
    ASSUME NEW unit, unit \subseteq Contract, NEW r \in MinimalRows(unit)
    PROVE  \E a, b \in unit : Before(a, b) /\ r = [a |-> a, b |-> b, same |-> reading[a].rank = reading[b].rank]
BY DEF MinimalRows

\* What a subject's units are replaced with is rows between contracts of a unit.
LEMMA RowsToStoreOf ==
    ASSUME TypeOK, NEW s, NEW r \in RowsToStore(s)
    PROVE  \E u \in Unit : \E a, b \in InUnit(s, u) :
              Before(a, b) /\ r = [a |-> a, b |-> b, same |-> reading[a].rank = reading[b].rank]
<1>1. PICK u \in Unit : r \in MinimalRows(InUnit(s, u))
    BY DEF RowsToStore
<1>2. InUnit(s, u) \subseteq Contract
    BY DEF InUnit, Members, Derivable, TypeOK
<1> QED BY <1>1, <1>2, MinimalRowsOf

\* What Reconcile does.
LEMMA ReconcileFrame ==
    ASSUME Reconcile, TypeOK
    PROVE  /\ job # None /\ JobTyped /\ UNCHANGED <<contractVars, order, since, touched, left, back, changes>>
           /\ \E unit \in job.units \cup {{}}, ids \in SUBSET Contract :
                 /\ ids \subseteq unit
                 /\ rows' = (rows \ Touching(ids, rows)) \cup RowsFor(ids, job.rows)
                 /\ \/ /\ MarkDerived(job.subject) /\ job' = None
                       /\ job.units \ {unit} = {} /\ unit \subseteq ids
                    \/ /\ UNCHANGED <<changed, due>>
                       /\ job' = [job EXCEPT !.units = (job.units \ {unit}) \cup ({unit \ ids} \ {{}})]
<1>1. PICK unit \in job.units \cup {{}} : \E ids \in Chunks(unit, job.rows) :
          LET unsent == (job.units \ {unit}) \cup ({unit \ ids} \ {{}})
          IN  /\ rows' = (rows \ Touching(ids, rows)) \cup RowsFor(ids, job.rows)
              /\ OnRequest(job.subject, unsent = {})
              /\ job' = IF unsent = {} THEN None ELSE [job EXCEPT !.units = unsent]
    BY DEF Reconcile
<1>2. PICK ids \in Chunks(unit, job.rows) :
          /\ rows' = (rows \ Touching(ids, rows)) \cup RowsFor(ids, job.rows)
          /\ OnRequest(job.subject, (job.units \ {unit}) \cup ({unit \ ids} \ {{}}) = {})
          /\ job' = IF (job.units \ {unit}) \cup ({unit \ ids} \ {{}}) = {} THEN None
                    ELSE [job EXCEPT !.units = (job.units \ {unit}) \cup ({unit \ ids} \ {{}})]
    BY <1>1
<1>3. job # None /\ JobTyped /\ UNCHANGED <<contractVars, left, back, changes>>
    BY DEF Reconcile, TypeOK
<1>4. ids \subseteq unit /\ ids \in SUBSET Contract
    BY <1>3 DEF Chunks, JobTyped
<1>5. CASE (job.units \ {unit}) \cup ({unit \ ids} \ {{}}) = {}
    <2>1. MarkDerived(job.subject) /\ job' = None
        BY <1>2, <1>5 DEF OnRequest
    <2>2. job.units \ {unit} = {} /\ unit \subseteq ids
        BY <1>5
    <2>3. UNCHANGED <<order, since, touched>>
        BY <2>1 DEF MarkDerived
    <2> QED BY <1>2, <1>3, <1>4, <2>1, <2>2, <2>3
<1>6. CASE ~((job.units \ {unit}) \cup ({unit \ ids} \ {{}}) = {})
    <2>1. NotModified /\ job' = [job EXCEPT !.units = (job.units \ {unit}) \cup ({unit \ ids} \ {{}})]
        BY <1>2, <1>6 DEF OnRequest
    <2>2. UNCHANGED <<changed, due, order, since, touched>>
        BY <2>1 DEF NotModified, dueVars
    <2> QED BY <1>2, <1>3, <1>4, <2>1, <2>2
<1> QED BY <1>5, <1>6

\* Every step keeps the type.
LEMMA NextTypeOK == TypeOK /\ [Next]_vars => TypeOK'
<1> SUFFICES ASSUME TypeOK, [Next]_vars PROVE TypeOK'
    OBVIOUS
<1> USE ConstantsAssumption DEF TypeOK, contractVars
<1>1. ASSUME NEW c \in Contract, SourceChanges(c) PROVE TypeOK'
    <2>1. /\ source' = [source EXCEPT ![c] = changes'] /\ changes' = changes + 1 /\ rows' \subseteq rows
          /\ UNCHANGED <<reading, canon, open, changed, since, job>>
        BY <1>1 DEF SourceChanges, Change, NotModified, dueVars
    <2>2. Fresh'
        BY <2>1 DEF Fresh
    <2> QED BY <2>1, <2>2 DEF JobTyped
<1>2. ASSUME NEW c \in Contract, EventResolves(c) \/ EventReopens(c) PROVE TypeOK'
    <2>1. /\ changes' = changes + 1 /\ open' \subseteq open \cup {c}
          /\ UNCHANGED <<source, reading, canon, rows, changed, since, job>>
        BY <1>2 DEF EventResolves, EventReopens, Change, NotModified, dueVars
    <2>2. Fresh'
        BY <2>1 DEF Fresh
    <2> QED BY <2>1, <2>2 DEF JobTyped
<1>3. ASSUME NEW c \in Contract, SourceWithdrawn(c) PROVE TypeOK'
    <2>1. /\ changes' = changes + 1 /\ source' = [source EXCEPT ![c] = None] /\ reading' = [reading EXCEPT ![c] = None]
          /\ rows' \subseteq rows /\ UNCHANGED <<open, canon, job>>
          /\ \E S : Modify({}, S)
        BY <1>3 DEF SourceWithdrawn, Change
    <2>2. PICK S : Modify({}, S)
        BY <2>1
    <2>3. changed' = changed \cup {} /\ since' \subseteq since \cup {}
        BY <2>2, ModifyFrame
    <2>4. Fresh'
        BY <2>1 DEF Fresh
    <2> QED BY <2>1, <2>3, <2>4 DEF JobTyped
<1>4. ASSUME NEW s \in Subject, NEW t \in Subject, SubjectMerged(s, t) \/ SubjectUnmerged(s) PROVE TypeOK'
    <2>1. /\ changes' = changes + 1 /\ canon' \in [Subject -> Subject]
          /\ UNCHANGED <<source, open, reading, rows, job>>
          /\ \E C \in SUBSET Contract : \E S : Modify(C, S)
        BY <1>4 DEF SubjectMerged, SubjectUnmerged, Change
    <2>2. PICK C \in SUBSET Contract : \E S : Modify(C, S)
        BY <2>1
    <2>3. changed' = changed \cup C /\ since' \subseteq since \cup C
        BY <2>2, ModifyFrame
    <2>4. Fresh'
        BY <2>1 DEF Fresh
    <2> QED BY <2>1, <2>3, <2>4 DEF JobTyped
<1>5. ASSUME NEW c \in Contract, Reread(c) PROVE TypeOK'
    <2>1. PICK place \in Places :
              /\ reading' = [reading EXCEPT ![c] = [subject |-> place.subject, unit |-> place.unit,
                                                    rank |-> place.rank, source |-> source[c]]]
              /\ \E S : Modify({c}, S)
        BY <1>5 DEF Reread
    <2>2. changed' = changed \cup {c} /\ since' \subseteq since \cup {c}
        BY <2>1, ModifyFrame
    <2>3. source[c] \in 0..changes /\ UNCHANGED <<source, open, canon, rows, job, changes>>
        BY <1>5 DEF Reread, Unread, Fresh
    <2>4. reading' \in [Contract -> Reading \cup {None}]
        <3>1. source[c] \in Nat
            BY <2>3
        <3>2. [subject |-> place.subject, unit |-> place.unit, rank |-> place.rank, source |-> source[c]] \in Reading
            BY <3>1 DEF Reading
        <3>3. PICK new \in Reading : reading' = [reading EXCEPT ![c] = new]
            BY <2>1, <3>2
        <3> QED BY <3>3
    <2>5. Fresh'
        BY <2>1, <2>3 DEF Fresh
    <2> QED BY <2>2, <2>3, <2>4, <2>5 DEF JobTyped
<1>6. CASE StartPass \/ ReconcileFails \/ Crash
    BY <1>6 DEF StartPass, ReconcileFails, Crash, NotModified, dueVars, Idle, JobTyped, Fresh
<1>7. CASE NewVersion
    BY <1>7 DEF NewVersion, Fresh
<1>8. CASE ReadSubject
    <2>1. UnitsToReplace(Head(todo)) \subseteq SUBSET Contract
        BY DEF UnitsToReplace, ChangedUnits, InUnit, Members, Derivable
    <2>2. ASSUME NEW r \in RowsToStore(Head(todo)) PROVE r \in Row
        <3>1. PICK u \in Unit : \E a, b \in InUnit(Head(todo), u) :
                  r = [a |-> a, b |-> b, same |-> reading[a].rank = reading[b].rank]
            BY <2>2, RowsToStoreOf
        <3>2. PICK a, b \in Contract : r = [a |-> a, b |-> b, same |-> reading[a].rank = reading[b].rank]
            BY <3>1 DEF InUnit, Members, Derivable
        <3>3. (reading[a].rank = reading[b].rank) \in BOOLEAN
            OBVIOUS
        <3> QED BY <3>2, <3>3 DEF Row
    <2>3. /\ job' = [subject |-> Head(todo), units |-> UnitsToReplace(Head(todo)), rows |-> RowsToStore(Head(todo))]
          /\ since' = {} /\ UNCHANGED <<source, open, reading, canon, rows, changed, changes>>
        BY <1>8 DEF ReadSubject
    <2>4. JobTyped'
        BY <2>1, <2>2, <2>3 DEF JobTyped
    <2> QED BY <2>3, <2>4 DEF Fresh
<1>9. CASE Reconcile
    <2>1. /\ UNCHANGED <<source, open, reading, canon, changes, since>> /\ JobTyped
          /\ rows' \subseteq rows \cup job.rows
          /\ changed' \subseteq changed /\ since \subseteq changed'
        BY <1>9, ReconcileFrame DEF MarkDerived, RowsFor, Touching
    <2>2. job' # None => JobTyped'
        BY <1>9, <2>1, ReconcileFrame DEF JobTyped
    <2> QED BY <2>1, <2>2 DEF JobTyped, Fresh
<1>10. CASE UNCHANGED vars
    BY <1>10 DEF vars, dueVars, JobTyped, Fresh
<1> QED BY <1>1, <1>2, <1>3, <1>4, <1>5, <1>6, <1>7, <1>8, <1>9, <1>10 DEF Next, Around, DerivePass

\* The state always has its type, and no proposition was read from a source yet to come.
THEOREM TypeCorrect == Spec => []TypeOK
<1>1. Init => TypeOK
    BY ConstantsAssumption DEF Init, TypeOK, Reading, Fresh
<1> QED BY <1>1, NextTypeOK, PTL DEF Spec

-----------------------------------------------------------------------------
(* What happens around the job.  A contract outside M keeps what the rules *)
(* see of it, or is no longer seen; M is marked changed.                   *)

Undisturbed(M) ==
    /\ \A c \in Contract \ M : c \in Current' => /\ c \in Current
                                                /\ reading'[c] = reading[c] /\ SubjectOf(c)' = SubjectOf(c)
    /\ rows' \subseteq rows
    /\ changed' = changed \cup M
    /\ job # None => since' = since \cup M
    /\ job' = job

\* Whatever happens around the pass and whatever it reads again leaves the rest undisturbed.
LEMMA AroundDisturbs ==
    ASSUME TypeOK, Around \/ \E c \in Contract : Reread(c)
    PROVE  \E M \in SUBSET Contract : Undisturbed(M)
<1> USE DEF TypeOK, Undisturbed, Current, Derivable, SubjectOf
<1>1. ASSUME NEW c \in Contract, SourceChanges(c) PROVE Undisturbed({})
    <2>1. /\ source' = [source EXCEPT ![c] = changes'] /\ changes' = changes + 1 /\ rows' \subseteq rows
          /\ UNCHANGED <<reading, canon, open, back, changed, since, job>>
        BY <1>1 DEF SourceChanges, Change, NotModified, dueVars
    <2>2. c \notin Current'
        BY <2>1 DEF Fresh
    <2> QED BY <2>1, <2>2 DEF Fresh
<1>2. ASSUME NEW c \in Contract, EventResolves(c) \/ EventReopens(c) PROVE Undisturbed({})
    BY <1>2 DEF EventResolves, EventReopens, NotModified, dueVars
<1>3. ASSUME NEW c \in Contract, SourceWithdrawn(c) PROVE Undisturbed({})
    <2>1. /\ source' = [source EXCEPT ![c] = None] /\ reading' = [reading EXCEPT ![c] = None]
          /\ rows' \subseteq rows /\ UNCHANGED <<open, canon, job, back>>
          /\ \E S : Modify({}, S)
        BY <1>3 DEF SourceWithdrawn
    <2>2. PICK S : Modify({}, S)
        BY <2>1
    <2>3. changed' = changed \cup {} /\ (job # None => since' = since \cup {})
        BY <2>2, ModifyFrame
    <2> QED BY <2>1, <2>3 DEF Fresh
<1>4. ASSUME NEW s \in Subject, NEW t \in Subject, SubjectMerged(s, t)
      PROVE  \E M \in SUBSET Contract : Undisturbed(M)
    <2> DEFINE M == {c \in Contract : reading[c] # None /\ SubjectOf(c) = s}
    <2>1. /\ canon' = [x \in Subject |-> IF canon[x] = s THEN t ELSE canon[x]]
          /\ UNCHANGED <<source, open, reading, rows, job, back>>
          /\ Modify(M, {s, t})
        BY <1>4 DEF SubjectMerged
    <2>2. changed' = changed \cup M /\ (job # None => since' = since \cup M)
        BY <2>1, ModifyFrame
    <2>3. Undisturbed(M)
        BY <2>1, <2>2 DEF Reading
    <2> QED BY <2>3
<1>5. ASSUME NEW s \in Subject, SubjectUnmerged(s)
      PROVE  \E M \in SUBSET Contract : Undisturbed(M)
    <2> DEFINE M == {c \in Contract : reading[c] # None /\ reading[c].subject = s}
    <2>1. /\ canon' = [canon EXCEPT ![s] = s]
          /\ UNCHANGED <<source, open, reading, rows, job, back>>
          /\ Modify(M, {s, canon[s]})
        BY <1>5 DEF SubjectUnmerged
    <2>2. changed' = changed \cup M /\ (job # None => since' = since \cup M)
        BY <2>1, ModifyFrame
    <2>3. Undisturbed(M)
        BY <2>1, <2>2 DEF Reading
    <2> QED BY <2>3
<1>6. ASSUME NEW c \in Contract, Reread(c) PROVE Undisturbed({c})
    <2>1. /\ \E new : reading' = [reading EXCEPT ![c] = new]
          /\ \E S : Modify({c}, S)
          /\ UNCHANGED <<source, open, canon, rows, job, back>> /\ job = None
        BY <1>6 DEF Reread, Idle
    <2>2. changed' = changed \cup {c}
        BY <2>1, ModifyFrame
    <2> QED BY <2>1, <2>2
<1>7. {} \in SUBSET Contract /\ \A c \in Contract : {c} \in SUBSET Contract
    OBVIOUS
<1> HIDE DEF Undisturbed
<1> QED BY <1>1, <1>2, <1>3, <1>4, <1>5, <1>6, <1>7 DEF Around

-----------------------------------------------------------------------------
(* What has changed stays due: also what changes while its subject is      *)
(* derived, which the job's read_at does not cover.                        *)

Due     == \A c \in changed : reading[c] # None => SubjectOf(c) \in due
Touched == job # None => \A c \in since : reading[c] # None => SubjectOf(c) \in touched

\* Every step keeps due what it changes, and what was changed.
LEMMA DueStep == TypeOK /\ Due /\ Touched /\ [Next]_vars => Due' /\ Touched'
<1> SUFFICES ASSUME TypeOK, Due, Touched, [Next]_vars PROVE Due' /\ Touched'
    OBVIOUS
<1> USE DEF TypeOK, Due, Touched, SubjectOf, contractVars
<1>1. ASSUME NEW c \in Contract, SourceChanges(c) \/ EventResolves(c) \/ EventReopens(c) PROVE Due' /\ Touched'
    BY <1>1 DEF SourceChanges, EventResolves, EventReopens, NotModified, dueVars
<1>2. ASSUME NEW C, NEW S, Modify(C, S), UNCHANGED job,
             \A c \in changed \cup C : reading'[c] # None => SubjectOf(c)' \in S \/ (c \in changed /\ reading[c] # None /\ SubjectOf(c)' = SubjectOf(c)),
             \A c \in since \cup C : reading'[c] # None => SubjectOf(c)' \in S \/ (c \in since /\ reading[c] # None /\ SubjectOf(c)' = SubjectOf(c))
      PROVE  Due' /\ Touched'
    BY <1>2, ModifyFrame
<1>3. ASSUME NEW c \in Contract, SourceWithdrawn(c) PROVE Due' /\ Touched'
    <2>1. /\ reading' = [reading EXCEPT ![c] = None] /\ UNCHANGED <<canon, job>>
          /\ \E S : Modify({}, S)
        BY <1>3 DEF SourceWithdrawn
    <2> QED BY <1>2, <2>1
<1>4. ASSUME NEW s \in Subject, NEW t \in Subject, SubjectMerged(s, t) PROVE Due' /\ Touched'
    <2> DEFINE C == {c \in Contract : reading[c] # None /\ SubjectOf(c) = s}
    <2>1. /\ canon' = [x \in Subject |-> IF canon[x] = s THEN t ELSE canon[x]]
          /\ UNCHANGED <<reading, job>> /\ Modify(C, {s, t})
        BY <1>4 DEF SubjectMerged
    <2>2. \A c \in Contract : reading[c] # None => SubjectOf(c)' \in {t, SubjectOf(c)}
        BY <2>1 DEF Reading
    <2>3. \A c \in C : SubjectOf(c)' = t
        BY <2>1 DEF Reading
    <2> QED BY <1>2, <2>1, <2>2, <2>3
<1>5. ASSUME NEW s \in Subject, SubjectUnmerged(s) PROVE Due' /\ Touched'
    <2> DEFINE C == {c \in Contract : reading[c] # None /\ reading[c].subject = s}
    <2>1. /\ canon' = [canon EXCEPT ![s] = s]
          /\ UNCHANGED <<reading, job>> /\ Modify(C, {s, canon[s]})
        BY <1>5 DEF SubjectUnmerged
    <2>2. \A c \in Contract : reading[c] # None => SubjectOf(c)' \in {s, SubjectOf(c)}
        BY <2>1 DEF Reading
    <2>3. \A c \in C : SubjectOf(c)' = s
        BY <2>1 DEF Reading
    <2> QED BY <1>2, <2>1, <2>2, <2>3
<1>6. ASSUME NEW c \in Contract, Reread(c) PROVE Due' /\ Touched'
    <2>1. PICK place \in Places :
              LET new == [subject |-> place.subject, unit |-> place.unit, rank |-> place.rank, source |-> source[c]]
                  was == reading[c]
              IN  /\ reading' = [reading EXCEPT ![c] = new]
                  /\ Modify({c}, {canon[new.subject]} \cup IF was = None THEN {} ELSE {SubjectOf(c)})
        BY <1>6 DEF Reread
    <2>2. PICK new : new = [subject |-> place.subject, unit |-> place.unit, rank |-> place.rank, source |-> source[c]]
        OBVIOUS
    <2>3. PICK S : S = {canon[new.subject]} \cup IF reading[c] = None THEN {} ELSE {SubjectOf(c)}
        OBVIOUS
    <2>4. reading' = [reading EXCEPT ![c] = new] /\ Modify({c}, S)
        BY <2>1, <2>2, <2>3 DEF SubjectOf
    <2>5. UNCHANGED <<canon, job>> /\ job = None
        BY <1>6 DEF Reread, Idle
    <2>6. changed' = changed \cup {c} /\ due' = due \cup S /\ canon[new.subject] \in S
        BY <2>3, <2>4, ModifyFrame
    <2> QED BY <2>4, <2>5, <2>6
<1>7. CASE StartPass \/ ReconcileFails \/ Crash
    BY <1>7 DEF StartPass, ReconcileFails, Crash, NotModified, dueVars, Idle
<1>8. CASE ReadSubject
    BY <1>8 DEF ReadSubject
<1>9. CASE NewVersion
    BY <1>9 DEF NewVersion, Reading
<1>10. CASE Reconcile
    <2>1. job # None /\ UNCHANGED <<reading, canon, since, touched>>
        BY <1>10, ReconcileFrame
    <2>2. CASE MarkDerived(job.subject)
        BY <2>1, <2>2 DEF MarkDerived
    <2>3. CASE UNCHANGED <<changed, due>>
        BY <2>1, <2>3
    <2> QED BY <1>10, <2>2, <2>3, ReconcileFrame
<1>11. CASE UNCHANGED vars
    BY <1>11 DEF vars, dueVars
<1> QED BY <1>1, <1>3, <1>4, <1>5, <1>6, <1>7, <1>8, <1>9, <1>10, <1>11 DEF Next, Around, DerivePass

\* A derivable contract whose proposition changed keeps its subject due until it is derived, also when
\* it changes, or its subject is merged, while the subject is being derived.
THEOREM ChangedStaysDue == Spec => []ChangedKeepsDue
<1>1. Init => Due /\ Touched
    BY ConstantsAssumption DEF Init, Due, Touched, SubjectOf
<1>2. TypeOK /\ Due => ChangedKeepsDue
    BY DEF Due, ChangedKeepsDue, Derivable
<1> QED BY <1>1, <1>2, TypeCorrect, DueStep, PTL DEF Spec

-----------------------------------------------------------------------------
(* No row is wrong once nothing is due.  Until then a row may be wrong of  *)
(* contracts that changed; the job under way carries rows that are right   *)
(* of what has not changed since it read its subject, and covers every     *)
(* contract it will mark derived.                                          *)

\* The row says what the propositions of its contracts do.
Right(r) ==
    /\ r.a # r.b
    /\ SubjectOf(r.a) = SubjectOf(r.b)
    /\ reading[r.a].unit = reading[r.b].unit /\ reading[r.a].unit # NoUnit
    /\ reading[r.a].rank <= reading[r.b].rank
    /\ r.same => reading[r.b].rank <= reading[r.a].rank

\* Between contracts that are derivable and not in the set S of changed ones.
Apart(r, S) == r.a \in Current \ S /\ r.b \in Current \ S

RowsRight == \A r \in rows : Apart(r, changed) => Right(r)

JobRight == job # None => \A r \in job.rows : Apart(r, since) => Right(r)

JobCovers ==
    job # None =>
        \A c \in changed \ since : c \in Current /\ SubjectOf(c) = job.subject =>
            \/ \E unit \in job.units : c \in unit
            \/ \A r \in Touching({c}, rows) : Apart(r, since) => Right(r)

RowInv == RowsRight /\ JobRight /\ JobCovers

\* A row of a job is right as its subject is read.
LEMMA StoredRowsAreRight ==
    ASSUME TypeOK, NEW s, NEW r \in RowsToStore(s)
    PROVE  Right(r)
<1>1. PICK u \in Unit : \E a, b \in InUnit(s, u) :
          Before(a, b) /\ r = [a |-> a, b |-> b, same |-> reading[a].rank = reading[b].rank]
    BY RowsToStoreOf
<1>2. PICK a \in InUnit(s, u), b \in InUnit(s, u) :
          Before(a, b) /\ r = [a |-> a, b |-> b, same |-> reading[a].rank = reading[b].rank]
    BY <1>1
<1>3. r.a = a /\ r.b = b /\ (r.same => reading[a].rank = reading[b].rank)
    BY <1>2
<1>4. /\ reading[a] \in Reading /\ reading[b] \in Reading /\ a \in Nat /\ b \in Nat
      /\ SubjectOf(a) = s /\ SubjectOf(b) = s /\ reading[a].unit = u /\ reading[b].unit = u
    BY ConstantsAssumption DEF InUnit, Members, Derivable, TypeOK
<1>5. a # b /\ reading[a].rank <= reading[b].rank
    BY <1>2, <1>4 DEF Before, Reading
<1>6. reading[a].rank \in Nat /\ reading[b].rank \in Nat /\ u # NoUnit
    BY <1>4, ConstantsAssumption DEF Reading
<1> QED BY <1>3, <1>4, <1>5, <1>6 DEF Right

\* What happens around the job leaves its rows, and those stored, as right as they were.
LEMMA UndisturbedRows ==
    ASSUME TypeOK, RowInv, NEW M \in SUBSET Contract, Undisturbed(M)
    PROVE  RowInv'
<1> USE DEF Undisturbed, RowInv
<1>1. ASSUME NEW S, NEW r \in Row, r.a \in Current' \ (S \cup M), r.b \in Current' \ (S \cup M)
      PROVE  Apart(r, S) /\ (Right(r) => Right(r)')
    <2>1. r.a \in Contract \ M /\ r.b \in Contract \ M
        BY <1>1 DEF Row
    <2>2. /\ reading'[r.a] = reading[r.a] /\ SubjectOf(r.a)' = SubjectOf(r.a) /\ r.a \in Current
          /\ reading'[r.b] = reading[r.b] /\ SubjectOf(r.b)' = SubjectOf(r.b) /\ r.b \in Current
        BY <1>1, <2>1
    <2> QED BY <1>1, <2>2 DEF Apart, Right
<1>2. RowsRight'
    BY <1>1 DEF RowsRight, Apart, TypeOK
<1>3. CASE job # None
    <2>1. since' = since \cup M /\ JobTyped
        BY <1>3 DEF TypeOK
    <2>2. JobRight'
        BY <1>1, <1>3, <2>1 DEF JobRight, Apart, JobTyped
    <2>3. ASSUME NEW c \in changed' \ since', c \in Current', SubjectOf(c)' = job.subject,
                 ~\E unit \in job.units : c \in unit,
                 NEW r \in Touching({c}, rows)', Apart(r, since)'
          PROVE  Right(r)'
        <3>1. c \in changed \ since /\ c \in Current /\ SubjectOf(c) = job.subject
            BY <2>1, <2>3 DEF TypeOK
        <3>2. r \in Touching({c}, rows) /\ r \in Row
            BY <2>3 DEF Touching, TypeOK
        <3>3. Apart(r, since) /\ (Right(r) => Right(r)')
            BY <1>1, <2>1, <2>3, <3>2 DEF Apart
        <3> QED BY <1>3, <2>3, <3>1, <3>2, <3>3 DEF JobCovers
    <2>4. JobCovers'
        BY <2>3 DEF JobCovers
    <2> QED BY <1>2, <2>2, <2>4
<1>4. CASE job = None
    BY <1>2, <1>4 DEF JobRight, JobCovers
<1> QED BY <1>3, <1>4

\* Every step keeps what is known of the rows.
LEMMA RowStep == TypeOK /\ TypeOK' /\ RowInv /\ [Next]_vars => RowInv'
<1> SUFFICES ASSUME TypeOK, TypeOK', RowInv, [Next]_vars PROVE RowInv'
    OBVIOUS
<1>1. CASE Around \/ \E c \in Contract : Reread(c)
    BY <1>1, AroundDisturbs, UndisturbedRows
<1>2. ASSUME UNCHANGED <<contractVars, rows, changed, back>>
      PROVE  /\ \A r, S : Apart(r, S)' <=> r.a \in Current \ S' /\ r.b \in Current \ S'
             /\ \A r : Right(r)' = Right(r)
             /\ Current' = Current /\ RowsRight'
    BY <1>2 DEF contractVars, RowInv, RowsRight, Apart, Right, SubjectOf, Current, Derivable
<1>3. CASE StartPass \/ ReconcileFails \/ Crash
    <2>1. UNCHANGED <<contractVars, rows, changed, back>>
        BY <1>3 DEF StartPass, ReconcileFails, Crash, NotModified, dueVars
    <2>2. job' = None
        BY <1>3 DEF StartPass, ReconcileFails, Crash, Idle
    <2> QED BY <1>2, <2>1, <2>2 DEF RowInv, JobRight, JobCovers
<1>4. CASE NewVersion
    <2>1. changed' = Contract /\ job' = None /\ rows' \subseteq Row
        BY <1>4 DEF NewVersion, TypeOK
    <2> QED BY <2>1 DEF RowInv, RowsRight, JobRight, JobCovers, Apart, Row
<1>5. CASE ReadSubject
    <2> DEFINE s == Head(todo)
    <2>1. /\ UNCHANGED <<contractVars, rows, changed, back>> /\ since' = {}
          /\ job' = [subject |-> s, units |-> UnitsToReplace(s), rows |-> RowsToStore(s)]
        BY <1>5 DEF ReadSubject
    <2> HIDE DEF s
    <2>2. job'.subject = s /\ job'.units = UnitsToReplace(s) /\ job'.rows = RowsToStore(s)
        BY <2>1
    <2>3. JobRight'
        BY <1>2, <2>1, <2>2, StoredRowsAreRight DEF JobRight
    <2>4. ASSUME NEW c \in changed, c \in Current, SubjectOf(c) = s
          PROVE  \E unit \in UnitsToReplace(s) : c \in unit
        <3>1. c \in Members(s) /\ reading[c].unit \in Unit \cup {NoUnit}
            BY <2>4 DEF Members, Current, Derivable, TypeOK, Reading
        <3>2. c \in InUnit(s, reading[c].unit)
            BY <3>1 DEF InUnit
        <3> QED BY <2>4, <3>1, <3>2 DEF UnitsToReplace, ChangedUnits
    <2>5. \A c : SubjectOf(c)' = SubjectOf(c)
        BY <2>1 DEF contractVars, SubjectOf
    <2>6. JobCovers'
        BY <1>2, <2>1, <2>2, <2>4, <2>5 DEF JobCovers
    <2> QED BY <1>2, <2>1, <2>3, <2>6 DEF RowInv
<1>6. CASE Reconcile
    <2>1. /\ job # None /\ JobTyped /\ UNCHANGED <<contractVars, since, back>>
        BY <1>6, ReconcileFrame
    <2>2. PICK unit \in job.units \cup {{}}, ids \in SUBSET Contract :
                 /\ ids \subseteq unit
                 /\ rows' = (rows \ Touching(ids, rows)) \cup RowsFor(ids, job.rows)
                 /\ \/ /\ MarkDerived(job.subject) /\ job' = None
                       /\ job.units \ {unit} = {} /\ unit \subseteq ids
                    \/ /\ UNCHANGED <<changed, due>>
                       /\ job' = [job EXCEPT !.units = (job.units \ {unit}) \cup ({unit \ ids} \ {{}})]
        BY <1>6, ReconcileFrame
    <2>3. /\ \A r : Right(r)' = Right(r)
          /\ Current' = Current /\ \A c : SubjectOf(c)' = SubjectOf(c)
        BY <2>1 DEF contractVars, Right, SubjectOf, Current, Derivable
    <2>4. /\ \A r \in rows' : r \in job.rows \/ (r \in rows /\ r \notin Touching(ids, rows))
          /\ \A r \in rows' : r.a \in ids \/ r.b \in ids => r \in job.rows
        BY <2>2 DEF RowsFor, Touching
    <2>5. since \subseteq changed
        BY DEF TypeOK
    \* A row is right of what stays changed too: what has not changed since the read was derived with it.
    <2>6. RowsRight'
        <3> SUFFICES ASSUME NEW r \in rows', r.a \in Current \ changed', r.b \in Current \ changed'
                     PROVE  Right(r)
            BY <2>3 DEF RowsRight, Apart
        <3>1. r.a \notin since /\ r.b \notin since
            BY <2>1, <2>2, <2>5 DEF MarkDerived
        <3>2. CASE r \in job.rows
            BY <2>1, <3>1, <3>2 DEF RowInv, JobRight, Apart
        <3>3. CASE r \notin job.rows
            <4>1. r \in rows /\ r.a \notin ids /\ r.b \notin ids
                BY <2>4, <3>3
            <4>2. CASE r.a \notin changed /\ r.b \notin changed
                BY <4>1, <4>2 DEF RowInv, RowsRight, Apart
            <4>3. ASSUME NEW c \in {r.a, r.b}, c \in changed PROVE Right(r)
                <5>1. MarkDerived(job.subject) /\ job.units \ {unit} = {} /\ unit \subseteq ids
                    BY <2>2, <4>3
                <5>2. SubjectOf(c) = job.subject /\ c \notin since /\ c \in Current
                    BY <3>1, <4>3, <5>1 DEF MarkDerived
                <5>3. ~\E u \in job.units : c \in u
                    BY <4>1, <4>3, <5>1
                <5>4. r \in Touching({c}, rows)
                    BY <4>1, <4>3 DEF Touching
                <5> QED BY <2>1, <3>1, <4>3, <5>2, <5>3, <5>4 DEF RowInv, JobCovers, Apart
            <4> QED BY <4>2, <4>3
        <3> QED BY <3>2, <3>3
    <2>7. CASE job' = None
        BY <2>6, <2>7 DEF RowInv, JobRight, JobCovers
    <2>8. CASE job' = [job EXCEPT !.units = (job.units \ {unit}) \cup ({unit \ ids} \ {{}})] /\ UNCHANGED <<changed, due>>
        <3>1. /\ job'.rows = job.rows /\ job'.subject = job.subject
              /\ job'.units = (job.units \ {unit}) \cup ({unit \ ids} \ {{}})
            BY <2>1, <2>8 DEF JobTyped
        <3>2. JobRight'
            BY <2>1, <2>3, <3>1 DEF RowInv, JobRight, Apart
        <3>3. ASSUME NEW c \in changed \ since, c \in Current, SubjectOf(c) = job.subject,
                     ~\E u \in job'.units : c \in u,
                     NEW r \in Touching({c}, rows'), r.a \in Current \ since, r.b \in Current \ since
              PROVE  Right(r)
            <4>1. CASE r \in job.rows
                BY <2>1, <3>3, <4>1 DEF RowInv, JobRight, Apart
            <4>2. CASE r \notin job.rows
                <5>1. r \in rows /\ r.a \notin ids /\ r.b \notin ids
                    BY <2>4, <3>3, <4>2 DEF Touching
                <5>2. c \notin ids /\ r \in Touching({c}, rows)
                    BY <3>3, <5>1 DEF Touching
                <5>3. ASSUME NEW u \in job.units, c \in u PROVE FALSE
                    <6>1. CASE u = unit
                        <7>1. c \in unit \ ids /\ unit \ ids \in job'.units
                            BY <3>1, <5>2, <5>3, <6>1
                        <7> QED BY <3>3, <7>1
                    <6>2. CASE u # unit
                        BY <3>1, <3>3, <5>3, <6>2
                    <6> QED BY <6>1, <6>2
                <5> QED BY <2>1, <3>3, <5>2, <5>3 DEF RowInv, JobCovers, Apart
            <4> QED BY <4>1, <4>2
        <3>4. JobCovers'
            BY <2>1, <2>3, <2>8, <3>1, <3>3 DEF JobCovers, Apart
        <3> QED BY <2>6, <3>2, <3>4 DEF RowInv
    <2> QED BY <2>2, <2>7, <2>8
<1>7. CASE UNCHANGED vars
    <2>1. UNCHANGED <<contractVars, rows, changed, back, since, job>>
        BY <1>7 DEF vars, dueVars
    <2> QED BY <2>1 DEF contractVars, RowInv, RowsRight, JobRight, JobCovers, Apart, Right, SubjectOf, Current,
            Derivable, Touching
<1> QED BY <1>1, <1>3, <1>4, <1>5, <1>6, <1>7 DEF Next, DerivePass

\* Once the worker has caught up, no row between two derivable contracts says what their propositions do
\* not, whatever changed while it derived, whichever request failed, and however the rows were split into
\* requests: unless an event resolved before its contract was derived again and opened after.
THEOREM NoRowIsWrong == Spec => []NothingWrongLeft
<1>1. Init => RowInv
    BY DEF Init, RowInv, RowsRight, JobRight, JobCovers
<1>2. TypeOK /\ RowInv /\ ChangedKeepsDue => NothingWrongLeft
    <2> SUFFICES ASSUME TypeOK, RowInv, ChangedKeepsDue, due = {},
                        NEW p \in Arrows, p[1] \in Current, p[2] \in Current
                 PROVE  p \in Implied
        BY DEF NothingWrongLeft, UpToDate
    <2>1. PICK r \in rows : p = <<r.a, r.b>> \/ (r.same /\ p = <<r.b, r.a>>)
        BY DEF Arrows
    <2>2. r.a \in Current /\ r.b \in Current
        BY <2>1
    <2>3. \A c \in Current : c \in Derivable /\ c \notin changed
        BY DEF ChangedKeepsDue, Current
    <2>4. Right(r)
        BY <2>2, <2>3 DEF RowInv, RowsRight, Apart
    <2>5. CASE p = <<r.a, r.b>>
        BY <2>2, <2>3, <2>4, <2>5 DEF Implied, Right, Mates
    <2>6. CASE r.same /\ p = <<r.b, r.a>>
        BY <2>2, <2>3, <2>4, <2>6 DEF Implied, Right, Mates
    <2> QED BY <2>1, <2>5, <2>6
<1> QED BY <1>1, <1>2, TypeCorrect, ChangedStaysDue, RowStep, PTL DEF Spec

-----------------------------------------------------------------------------
(* No row is missing once nothing is due, as long as every contract stayed *)
(* in its unit.                                                            *)

\* Where the contracts of a unit were placed, and the rows of the unit when all of them are derivable.
Home(s, u) == {c \in Contract : Placed[c].subject = s /\ Placed[c].unit = u}

Ladder(s, u) == MinimalRows(Home(s, u))

\* Every contract is where it was.
Stayed ==
    ~left =>
        /\ open = Contract /\ back = {} /\ canon = [s \in Subject |-> s]
        /\ \A c \in Contract : /\ source[c] # None /\ reading[c] # None
                               /\ reading[c].subject = Placed[c].subject /\ reading[c].unit = Placed[c].unit

\* A unit that is derivable and unchanged has its rows.
Stored ==
    ~left => \A s \in Subject, u \in Unit : Home(s, u) \subseteq Derivable \ changed => Ladder(s, u) \subseteq rows

\* The job replaces contracts of its subject only, and has the rows of every unit that still is derivable: each
\* is stored, or both its contracts are in a unit still to be replaced.
JobStores ==
    ~left /\ job # None =>
        /\ since = {}
        /\ \A unit \in job.units : \A c \in unit : Placed[c].subject = job.subject
        /\ \A u \in Unit : Home(job.subject, u) \subseteq Derivable =>
               /\ Ladder(job.subject, u) \subseteq job.rows
               /\ \A r \in Ladder(job.subject, u) :
                      r \in rows \/ \E unit \in job.units : r.a \in unit /\ r.b \in unit

StoreInv == Stayed /\ Stored /\ JobStores

\* A unit's contracts are those of its home that are derivable.
LEMMA InUnitOf ==
    ASSUME TypeOK, Stayed, ~left, NEW s, NEW u
    PROVE  /\ InUnit(s, u) = Home(s, u) \cap Derivable
           /\ Derivable = {c \in Contract : reading[c].source = source[c]}
           /\ \A c \in Contract : reading[c] \in Reading /\ SubjectOf(c) = Placed[c].subject
<1>1. \A c \in Contract : reading[c] # None /\ Placed[c].subject \in Subject /\ reading[c] \in Reading
    BY ConstantsAssumption DEF Stayed, TypeOK
<1>2. \A c \in Contract : SubjectOf(c) = Placed[c].subject /\ reading[c].unit = Placed[c].unit
    BY <1>1 DEF SubjectOf, Stayed
<1>3. Derivable = {c \in Contract : reading[c].source = source[c]}
    BY <1>1 DEF Derivable, Stayed
<1> QED BY <1>1, <1>2, <1>3 DEF InUnit, Members, Home

\* The rows of a unit are between its contracts.
LEMMA LadderOf ==
    ASSUME NEW s, NEW u, NEW r \in Ladder(s, u)
    PROVE  r.a \in Home(s, u) /\ r.b \in Home(s, u)
<1>1. Home(s, u) \subseteq Contract
    BY DEF Home
<1>2. \E a, b \in Home(s, u) : r = [a |-> a, b |-> b, same |-> reading[a].rank = reading[b].rank]
    BY <1>1, MinimalRowsOf DEF Ladder
<1> QED BY <1>2

\* A unit none of whose contracts is read again keeps its rows as they should be.
LEMMA LadderStays ==
    ASSUME NEW s, NEW u, \A c \in Home(s, u) : reading'[c] = reading[c]
    PROVE  Ladder(s, u)' = Ladder(s, u)
BY DEF Ladder, MinimalRows, Before, Home

\* Every step keeps the contracts where they were, or notes that one left.
LEMMA StayedStep == TypeOK /\ Stayed /\ [Next]_vars => Stayed'
<1> SUFFICES ASSUME TypeOK, Stayed, [Next]_vars, ~left' PROVE Stayed'
    BY DEF Stayed
<1>1. ~left
    BY DEF Next, Around, DerivePass, SourceChanges, SourceWithdrawn, EventResolves, EventReopens, SubjectMerged,
           SubjectUnmerged, Reread, StartPass, ReadSubject, Reconcile, ReconcileFails, Crash, NewVersion, vars
<1>2. ASSUME NEW c \in Contract, SourceChanges(c) PROVE Stayed'
    <2>1. source' = [source EXCEPT ![c] = changes'] /\ UNCHANGED <<open, reading, canon, back>> /\ changes' \in Nat
        BY <1>2 DEF SourceChanges, Change, TypeOK
    <2>2. \A d \in Contract : source'[d] # None
        BY <1>1, <2>1, ConstantsAssumption DEF Stayed, TypeOK, Fresh
    <2> QED BY <1>1, <2>1, <2>2 DEF Stayed
<1>3. ASSUME NEW c \in Contract, Reread(c) PROVE Stayed'
    <2>1. PICK place \in Places :
              LET new == [subject |-> place.subject, unit |-> place.unit, rank |-> place.rank, source |-> source[c]]
                  was == reading[c]
              IN  /\ reading' = [reading EXCEPT ![c] = new]
                  /\ left' = (left \/ was = None \/ <<was.subject, was.unit>> # <<new.subject, new.unit>>)
        BY <1>3 DEF Reread
    <2>2. UNCHANGED <<open, source, canon, back>>
        BY <1>3 DEF Reread
    <2>3. place.subject = reading[c].subject /\ place.unit = reading[c].unit
        BY <2>1
    <2> DEFINE new == [subject |-> place.subject, unit |-> place.unit, rank |-> place.rank, source |-> source[c]]
    <2>4. new # None
        <3>1. source[c] \in Nat
            BY <1>1 DEF Stayed, TypeOK, Fresh
        <3> QED BY <3>1, ConstantsAssumption
    <2>5. reading' = [reading EXCEPT ![c] = new] /\ new.subject = reading[c].subject /\ new.unit = reading[c].unit
        BY <2>1, <2>3
    <2> HIDE DEF new
    <2>6. \A d \in Contract : reading'[d] # None /\ reading'[d].subject = reading[d].subject /\ reading'[d].unit = reading[d].unit
        BY <1>1, <2>4, <2>5 DEF Stayed, TypeOK
    <2> QED BY <1>1, <2>2, <2>6 DEF Stayed
<1>4. CASE DerivePass \/ Crash \/ NewVersion \/ UNCHANGED vars
    <2>1. UNCHANGED <<contractVars, back>>
        BY <1>4 DEF DerivePass, StartPass, ReadSubject, Reconcile, ReconcileFails, Crash, NewVersion, vars
    <2> QED BY <1>1, <2>1 DEF contractVars, Stayed
<1>5. ASSUME NEW c \in Contract, SourceWithdrawn(c) \/ EventResolves(c) \/ EventReopens(c) PROVE FALSE
    BY <1>5 DEF SourceWithdrawn, EventResolves, EventReopens
<1>6. ASSUME NEW s \in Subject, NEW t \in Subject, SubjectMerged(s, t) \/ SubjectUnmerged(s) PROVE FALSE
    BY <1>6 DEF SubjectMerged, SubjectUnmerged
<1> QED BY <1>2, <1>3, <1>4, <1>5, <1>6 DEF Next, Around

\* A request stores its rows whole: a row is lost in it only if it should not be there.
LEMMA ReconcileStores ==
    ASSUME TypeOK, StoreInv, ~left, Reconcile
    PROVE  Stored' /\ JobStores'
<1>1. /\ job # None /\ JobTyped /\ UNCHANGED <<contractVars, since, left>>
    BY ReconcileFrame
<1>2. PICK unit \in job.units \cup {{}}, ids \in SUBSET Contract :
          /\ ids \subseteq unit
          /\ rows' = (rows \ Touching(ids, rows)) \cup RowsFor(ids, job.rows)
          /\ \/ /\ MarkDerived(job.subject) /\ job' = None
                /\ job.units \ {unit} = {} /\ unit \subseteq ids
             \/ /\ UNCHANGED <<changed, due>>
                /\ job' = [job EXCEPT !.units = (job.units \ {unit}) \cup ({unit \ ids} \ {{}})]
    BY ReconcileFrame
<1>3. /\ since = {}
      /\ \A V \in job.units : \A c \in V : Placed[c].subject = job.subject
      /\ \A u \in Unit : Home(job.subject, u) \subseteq Derivable =>
             /\ Ladder(job.subject, u) \subseteq job.rows
             /\ \A r \in Ladder(job.subject, u) : r \in rows \/ \E V \in job.units : r.a \in V /\ r.b \in V
    BY <1>1 DEF StoreInv, JobStores
<1>4. \A c \in ids : Placed[c].subject = job.subject
    BY <1>2, <1>3
<1>5. /\ Derivable' = Derivable
      /\ \A s, u : Ladder(s, u)' = Ladder(s, u)
    BY <1>1, LadderStays DEF contractVars, Derivable
<1>6. ASSUME NEW r
      PROVE  /\ r \in rows /\ r.a \notin ids /\ r.b \notin ids => r \in rows'
             /\ r \in job.rows /\ (r.a \in ids \/ r.b \in ids) => r \in rows'
    BY <1>2 DEF Touching, RowsFor
<1>7. ASSUME NEW u \in Unit, Home(job.subject, u) \subseteq Derivable, NEW r \in Ladder(job.subject, u)
      PROVE  /\ r \in rows => r \in rows'
             /\ r.a \in ids \/ r.b \in ids => r \in rows'
    BY <1>3, <1>6, <1>7
<1>8. ASSUME NEW s, s # job.subject, NEW u, NEW r \in Ladder(s, u) PROVE r \in rows => r \in rows'
    BY <1>4, <1>6, <1>8, LadderOf DEF Home
<1>9. CASE MarkDerived(job.subject) /\ job' = None /\ job.units \ {unit} = {} /\ unit \subseteq ids
    <2>1. ASSUME NEW s \in Subject, NEW u \in Unit, Home(s, u) \subseteq Derivable \ changed', NEW r \in Ladder(s, u)
          PROVE  r \in rows'
        <3>1. CASE s = job.subject
            <4>1. r \in rows \/ \E V \in job.units : r.a \in V /\ r.b \in V
                BY <1>3, <2>1, <3>1
            <4>2. (\E V \in job.units : r.a \in V /\ r.b \in V) => r.a \in ids
                BY <1>2, <1>9
            <4> QED BY <1>7, <2>1, <3>1, <4>1, <4>2
        <3>2. CASE s # job.subject
            <4>1. \A c \in Home(s, u) : c \in changed => c \in changed'
                <5>1. \A c \in Home(s, u) : c \in Contract /\ SubjectOf(c) = s
                    BY InUnitOf DEF StoreInv, Home
                <5>2. changed' = {c \in changed : c \in since \/ (reading[c] # None => SubjectOf(c) # job.subject)}
                    BY <1>9 DEF MarkDerived
                <5> QED BY <3>2, <5>1, <5>2
            <4>2. Home(s, u) \subseteq Derivable \ changed
                BY <2>1, <4>1
            <4>3. r \in rows
                BY <1>1, <2>1, <4>2 DEF StoreInv, Stored
            <4> QED BY <1>8, <2>1, <3>2, <4>3
        <3> QED BY <3>1, <3>2
    <2>2. Stored'
        <3>1. \A s, u : Home(s, u)' = Home(s, u)
            BY DEF Home
        <3> QED BY <1>5, <2>1, <3>1 DEF Stored
    <2> QED BY <1>9, <2>2 DEF JobStores
<1>10. CASE UNCHANGED <<changed, due>> /\ job' = [job EXCEPT !.units = (job.units \ {unit}) \cup ({unit \ ids} \ {{}})]
    <2>1. ASSUME NEW s \in Subject, NEW u \in Unit, Home(s, u) \subseteq Derivable \ changed, NEW r \in Ladder(s, u)
          PROVE  r \in rows'
        <3>1. r \in rows
            BY <1>1, <2>1 DEF StoreInv, Stored
        <3> QED BY <1>7, <1>8, <2>1, <3>1
    <2>2. Stored'
        <3>1. \A s, u : Home(s, u)' = Home(s, u)
            BY DEF Home
        <3> QED BY <1>5, <1>10, <2>1, <3>1 DEF Stored
    <2>3. /\ job'.subject = job.subject /\ job'.rows = job.rows
          /\ job'.units = (job.units \ {unit}) \cup ({unit \ ids} \ {{}})
        BY <1>1, <1>10 DEF JobTyped
    <2>4. \A V \in job'.units : \A c \in V : Placed[c].subject = job.subject
        BY <1>2, <1>3, <2>3
    <2>5. ASSUME NEW u \in Unit, Home(job.subject, u) \subseteq Derivable, NEW r \in Ladder(job.subject, u)
          PROVE  r \in rows' \/ \E V \in job'.units : r.a \in V /\ r.b \in V
        <3>1. CASE r \in rows \/ r.a \in ids \/ r.b \in ids
            BY <1>7, <2>5, <3>1
        <3>2. CASE r \notin rows /\ r.a \notin ids /\ r.b \notin ids
            <4>1. PICK V \in job.units : r.a \in V /\ r.b \in V
                BY <1>3, <2>5, <3>2
            <4>2. CASE V = unit
                <5>1. r.a \in unit \ ids /\ r.b \in unit \ ids /\ unit \ ids # {}
                    BY <3>2, <4>1, <4>2
                <5> QED BY <2>3, <5>1
            <4>3. CASE V # unit
                BY <2>3, <4>1, <4>3
            <4> QED BY <4>2, <4>3
        <3> QED BY <3>1, <3>2
    <2>6. JobStores'
        <3>1. \A s, u : Home(s, u)' = Home(s, u)
            BY DEF Home
        <3> QED BY <1>1, <1>3, <1>5, <2>3, <2>4, <2>5, <3>1 DEF JobStores
    <2> QED BY <2>2, <2>6
<1> QED BY <1>2, <1>9, <1>10

\* Every step keeps the rows that are there, and what will store those that are not.
LEMMA StoreStep == TypeOK /\ StoreInv /\ [Next]_vars => StoreInv'
<1> SUFFICES ASSUME TypeOK, StoreInv, [Next]_vars, ~left' PROVE Stored' /\ JobStores'
    BY StayedStep DEF StoreInv, Stored, JobStores
<1>1. ~left
    BY DEF Next, Around, DerivePass, SourceChanges, SourceWithdrawn, EventResolves, EventReopens, SubjectMerged,
           SubjectUnmerged, Reread, StartPass, ReadSubject, Reconcile, ReconcileFails, Crash, NewVersion, vars
<1>2. Stayed /\ Stayed'
    BY StayedStep DEF StoreInv
<1>3. \A s, u : Home(s, u)' = Home(s, u) /\ Home(s, u) \subseteq Contract
    BY DEF Home
<1>4. ASSUME NEW c \in Contract, SourceChanges(c) PROVE Stored' /\ JobStores'
    <2>1. /\ source' = [source EXCEPT ![c] = changes'] /\ changes' = changes + 1
          /\ rows' = IF source[c] = None THEN rows ELSE rows \ Touching({c}, rows)
          /\ UNCHANGED <<reading, canon, open, changed, since, job>>
        BY <1>4 DEF SourceChanges, Change, NotModified, dueVars
    <2>2. Derivable' \subseteq Derivable \ {c}
        <3>1. c \notin Derivable'
            BY <2>1 DEF Derivable, TypeOK, Fresh
        <3>2. \A d \in Contract \ {c} : d \in Derivable' => d \in Derivable
            BY <2>1 DEF Derivable, TypeOK, Fresh
        <3>3. Derivable' \subseteq Contract
            BY <2>1 DEF Derivable, TypeOK
        <3> QED BY <3>1, <3>2, <3>3
    <2>3. ASSUME NEW s, NEW u, Home(s, u) \subseteq Derivable', NEW r \in Ladder(s, u) PROVE r \in rows => r \in rows'
        <3>1. r.a # c /\ r.b # c
            BY <2>2, <2>3, LadderOf
        <3> QED BY <2>1, <3>1 DEF Touching
    <2>4. \A s, u : Ladder(s, u)' = Ladder(s, u)
        BY <2>1, LadderStays
    <2>5. Stored'
        BY <1>1, <1>3, <2>1, <2>2, <2>3, <2>4 DEF StoreInv, Stored
    <2>6. JobStores'
        BY <1>1, <1>3, <2>1, <2>2, <2>3, <2>4 DEF StoreInv, JobStores
    <2> QED BY <2>5, <2>6
<1>5. ASSUME NEW c \in Contract, Reread(c) PROVE Stored' /\ JobStores'
    <2>1. /\ job = None /\ UNCHANGED <<source, open, rows, job>> /\ changed' = changed \cup {c}
          /\ \E new : reading' = [reading EXCEPT ![c] = new]
        BY <1>5, ModifyFrame DEF Reread, Idle
    <2>2. \A d \in Contract \ {c} : reading'[d] = reading[d] /\ (d \in Derivable' => d \in Derivable)
        BY <2>1 DEF Derivable, TypeOK
    <2>3. ASSUME NEW s \in Subject, NEW u \in Unit, Home(s, u) \subseteq Derivable' \ changed'
          PROVE  Ladder(s, u)' \subseteq rows'
        <3>1. c \notin Home(s, u)
            BY <2>1, <2>3
        <3>2. Home(s, u) \subseteq Derivable \ changed
            BY <1>3, <2>1, <2>2, <2>3, <3>1
        <3>3. Ladder(s, u)' = Ladder(s, u)
            BY <1>3, <2>2, <3>1, LadderStays
        <3> QED BY <1>1, <2>1, <3>2, <3>3 DEF StoreInv, Stored
    <2>4. Stored'
        BY <1>3, <2>3 DEF Stored
    <2> QED BY <2>1, <2>4 DEF JobStores
<1>6. ASSUME NEW c \in Contract, SourceWithdrawn(c) \/ EventResolves(c) \/ EventReopens(c) PROVE FALSE
    BY <1>6 DEF SourceWithdrawn, EventResolves, EventReopens
<1>7. ASSUME NEW s \in Subject, NEW t \in Subject, SubjectMerged(s, t) \/ SubjectUnmerged(s) PROVE FALSE
    BY <1>7 DEF SubjectMerged, SubjectUnmerged
<1>8. CASE StartPass \/ ReconcileFails \/ Crash
    <2>1. UNCHANGED <<contractVars, rows, changed>> /\ job' = None
        BY <1>8 DEF StartPass, ReconcileFails, Crash, NotModified, dueVars, Idle
    <2>2. Derivable' = Derivable /\ \A s, u : Ladder(s, u)' = Ladder(s, u)
        BY <2>1, LadderStays DEF contractVars, Derivable
    <2> QED BY <1>1, <1>3, <2>1, <2>2 DEF StoreInv, Stored, JobStores
<1>9. CASE NewVersion
    <2>1. changed' = Contract /\ job' = None /\ UNCHANGED <<contractVars, rows>>
        BY <1>9 DEF NewVersion
    <2>2. ASSUME NEW s, NEW u, Home(s, u) \subseteq Derivable' \ changed' PROVE Ladder(s, u)' \subseteq rows'
        <3>1. Home(s, u) = {}
            BY <1>3, <2>1, <2>2
        <3>2. Ladder(s, u)' = {}
            BY <1>3, <3>1 DEF Ladder, MinimalRows
        <3> QED BY <3>2
    <2>3. Stored'
        BY <1>3, <2>2 DEF Stored
    <2> QED BY <2>1, <2>3 DEF JobStores
<1>10. CASE ReadSubject
    <2> DEFINE s == Head(todo)
    <2>1. /\ job' = [subject |-> s, units |-> UnitsToReplace(s), rows |-> RowsToStore(s)]
          /\ since' = {} /\ UNCHANGED <<contractVars, rows, changed, left>>
        BY <1>10 DEF ReadSubject
    <2> HIDE DEF s
    <2>2. Derivable' = Derivable /\ \A x, u : Ladder(x, u)' = Ladder(x, u)
        BY <2>1, LadderStays DEF contractVars, Derivable
    <2>3. Stored'
        BY <1>1, <1>3, <2>1, <2>2 DEF StoreInv, Stored
    <2>4. job'.subject = s /\ job'.units = UnitsToReplace(s) /\ job'.rows = RowsToStore(s)
        BY <2>1
    <2>5. /\ \A u : InUnit(s, u) = Home(s, u) \cap Derivable
          /\ UnitsToReplace(s) = {InUnit(s, u) : u \in {v \in Unit : InUnit(s, v) \cap changed # {}}}
                                     \cup ({changed \cap InUnit(s, NoUnit)} \ {{}})
        BY <1>1, <1>2, InUnitOf DEF UnitsToReplace, ChangedUnits
    <2>6. \A V \in UnitsToReplace(s) : \A c \in V : Placed[c].subject = s
        BY <2>5 DEF Home
    <2>7. ASSUME NEW u \in Unit, Home(s, u) \subseteq Derivable
          PROVE  /\ Ladder(s, u) \subseteq RowsToStore(s)
                 /\ \A r \in Ladder(s, u) : r \in rows \/ \E V \in UnitsToReplace(s) : r.a \in V /\ r.b \in V
        <3>1. InUnit(s, u) = Home(s, u)
            BY <2>5, <2>7
        <3>2. Ladder(s, u) \subseteq RowsToStore(s)
            BY <3>1 DEF RowsToStore, Ladder
        <3>3. ASSUME NEW r \in Ladder(s, u) PROVE r \in rows \/ \E V \in UnitsToReplace(s) : r.a \in V /\ r.b \in V
            <4>1. r.a \in Home(s, u) /\ r.b \in Home(s, u)
                BY LadderOf
            <4>2. CASE Home(s, u) \cap changed = {}
                <5>1. s \in Subject
                    <6>1. r.a \in Contract /\ Placed[r.a].subject = s
                        BY <4>1 DEF Home
                    <6>2. Placed[r.a] \in [subject : Subject, unit : Unit \cup {NoUnit}, rank : Nat]
                        BY <6>1, ConstantsAssumption
                    <6> QED BY <6>1, <6>2
                <5>2. Home(s, u) \subseteq Derivable \ changed
                    BY <2>7, <4>2
                <5> QED BY <1>1, <5>1, <5>2 DEF StoreInv, Stored
            <4>3. CASE Home(s, u) \cap changed # {}
                <5>1. InUnit(s, u) \in UnitsToReplace(s)
                    BY <2>5, <3>1, <4>3
                <5> QED BY <3>1, <4>1, <5>1
            <4> QED BY <4>2, <4>3
        <3> QED BY <3>2, <3>3
    <2>8. JobStores'
        BY <1>3, <2>1, <2>2, <2>4, <2>6, <2>7 DEF JobStores
    <2> QED BY <2>3, <2>8
<1>11. CASE Reconcile
    BY <1>1, <1>11, ReconcileStores
<1>12. CASE UNCHANGED vars
    <2>1. UNCHANGED <<contractVars, rows, changed, since, job, left>>
        BY <1>12 DEF vars, dueVars
    <2>2. Derivable' = Derivable /\ \A s, u : Ladder(s, u)' = Ladder(s, u)
        BY <2>1, LadderStays DEF contractVars, Derivable
    <2> QED BY <1>3, <2>1, <2>2 DEF StoreInv, Stored, JobStores
<1> QED BY <1>4, <1>5, <1>6, <1>7, <1>8, <1>9, <1>10, <1>11, <1>12 DEF Next, Around, DerivePass

\* A set of pairs that is not empty has one with the least of any measure.
LEMMA LeastBy ==
    ASSUME NEW S, S # {}, NEW measure \in [S -> Nat]
    PROVE  \E m \in S : \A s \in S : measure[m] <= measure[s]
<1> DEFINE below == {ss \in Nat \X Nat : ss[1] < ss[2]}
           values == {measure[s] : s \in S}
<1>1. IsWellFoundedOn(below, Nat)
    BY NatLessThanWellFounded DEF OpToRel
<1>2. values \subseteq Nat /\ values # {}
    OBVIOUS
<1>3. PICK least \in values : \A n \in values : <<n, least>> \notin below
    <2> HIDE DEF below, values
    <2> QED BY <1>1, <1>2, WFMin
<1>4. PICK m \in S : least = measure[m]
    BY <1>3
<1>5. ASSUME NEW s \in S PROVE measure[m] <= measure[s]
    <2>1. measure[s] \in values /\ measure[s] \in Nat /\ measure[m] \in Nat
        OBVIOUS
    <2>2. <<measure[s], measure[m]>> \notin below
        <3> HIDE DEF values
        <3> QED BY <1>3, <1>4, <2>1
    <2>3. ~(measure[s] < measure[m])
        BY <2>1, <2>2
    <2> QED BY <2>1, <2>3
<1> QED BY <1>5

\* The minimal rows of a ladder give back every pair of it: going from row to row, a set that holds a contract
\* holds whatever is not below it.
LEMMA LadderReaches ==
    ASSUME TypeOK, NEW H, H \subseteq Contract, \A c \in H : reading[c] \in Reading,
           MinimalRows(H) \subseteq rows,
           NEW S, \A p \in Arrows : p[1] \in S => p[2] \in S,
           NEW x \in H, x \in S, NEW y \in H, reading[x].rank <= reading[y].rank
    PROVE  y \in S
<1> DEFINE gap(p) == {c \in H : (Before(p[1], c) /\ Before(c, p[2])) \/ (Before(p[2], c) /\ Before(c, p[1]))}
           bad == {p \in H \X H : p[1] \in S /\ p[2] \notin S /\ reading[p[1]].rank <= reading[p[2]].rank}
<1> SUFFICES ASSUME y \notin S PROVE FALSE
    OBVIOUS
<1>1. IsFiniteSet(H) /\ \A c \in H : c \in Nat /\ reading[c].rank \in Nat
    BY ConstantsAssumption, FS_Subset DEF Reading
<1>2. /\ \A c, d, e \in H : Before(c, d) /\ Before(d, e) => Before(c, e)
      /\ \A c, d \in H : /\ ~(Before(c, d) /\ Before(d, c))
                         /\ c = d \/ Before(c, d) \/ Before(d, c)
                         /\ Before(c, d) => reading[c].rank <= reading[d].rank
    BY <1>1 DEF Before
<1>3. \A p : IsFiniteSet(gap(p)) /\ Cardinality(gap(p)) \in Nat
    <2>1. \A p : gap(p) \subseteq H
        OBVIOUS
    <2> HIDE DEF gap
    <2> QED BY <1>1, <2>1, FS_Subset, FS_CardinalityType
<1>4. PICK m \in bad : \A p \in bad : Cardinality(gap(m)) <= Cardinality(gap(p))
    <2> DEFINE measure == [p \in bad |-> Cardinality(gap(p))]
    <2>1. <<x, y>> \in bad
        OBVIOUS
    <2>2. measure \in [bad -> Nat] /\ \A p \in bad : measure[p] = Cardinality(gap(p))
        <3> HIDE DEF bad, gap
        <3> QED BY <1>3
    <2> HIDE DEF measure, bad, gap
    <2>3. PICK m \in bad : \A p \in bad : measure[m] <= measure[p]
        BY <2>1, <2>2, LeastBy
    <2> QED BY <2>2, <2>3
<1>5. PICK a \in H, b \in H : m = <<a, b>> /\ a \in S /\ b \notin S /\ reading[a].rank <= reading[b].rank
    BY <1>4
<1>6. ASSUME NEW p \in bad, NEW c \in gap(m), c \notin gap(p), gap(p) \subseteq gap(m) PROVE FALSE
    <2> HIDE DEF gap, bad
    <2>1. Cardinality(gap(p)) < Cardinality(gap(m))
        BY <1>3, <1>6, FS_Subset
    <2> QED BY <1>3, <1>4, <2>1
<1>7. ASSUME NEW c \in gap(m) PROVE FALSE
    <2>1. c \in H /\ ((Before(a, c) /\ Before(c, b)) \/ (Before(b, c) /\ Before(c, a)))
        BY <1>5, <1>7
    <2>2. reading[a].rank <= reading[c].rank /\ reading[c].rank <= reading[b].rank
        BY <1>1, <1>2, <1>5, <2>1
    <2>3. CASE c \in S
        <3>1. <<c, b>> \in bad
            BY <1>5, <2>1, <2>2, <2>3
        <3>2. \A d \in H : /\ ~(Before(c, c))
                           /\ (Before(c, d) /\ Before(d, b)) \/ (Before(b, d) /\ Before(d, c))
                                  => (Before(a, d) /\ Before(d, b)) \/ (Before(b, d) /\ Before(d, a))
            BY <1>2, <1>5, <2>1
        <3>3. c \notin gap(<<c, b>>) /\ gap(<<c, b>>) \subseteq gap(m)
            BY <1>5, <2>1, <3>2
        <3> QED BY <1>6, <1>7, <3>1, <3>3
    <2>4. CASE c \notin S
        <3>1. <<a, c>> \in bad
            BY <1>5, <2>1, <2>2, <2>4
        <3>2. \A d \in H : /\ ~(Before(c, c))
                           /\ (Before(a, d) /\ Before(d, c)) \/ (Before(c, d) /\ Before(d, a))
                                  => (Before(a, d) /\ Before(d, b)) \/ (Before(b, d) /\ Before(d, a))
            BY <1>2, <1>5, <2>1
        <3>3. c \notin gap(<<a, c>>) /\ gap(<<a, c>>) \subseteq gap(m)
            BY <1>5, <2>1, <3>2
        <3> QED BY <1>6, <1>7, <3>1, <3>3
    <2> QED BY <2>3, <2>4
<1>8. \A c \in H : ~(Before(a, c) /\ Before(c, b)) /\ ~(Before(b, c) /\ Before(c, a))
    BY <1>5, <1>7
<1>9. CASE Before(a, b)
    <2> DEFINE r == [a |-> a, b |-> b, same |-> reading[a].rank = reading[b].rank]
    <2>1. r \in MinimalRows(H)
        <3>1. <<a, b>> \in {p \in H \X H :
                    Before(p[1], p[2]) /\ ~\E c \in H : Before(p[1], c) /\ Before(c, p[2])}
            BY <1>8, <1>9
        <3> QED BY <3>1 DEF MinimalRows
    <2>2. r.a = a /\ r.b = b
        OBVIOUS
    <2> HIDE DEF r
    <2>3. <<a, b>> \in Arrows
        BY <2>1, <2>2 DEF Arrows
    <2> QED BY <1>5, <2>3
<1>10. CASE Before(b, a)
    <2> DEFINE r == [a |-> b, b |-> a, same |-> reading[b].rank = reading[a].rank]
    <2>1. r \in MinimalRows(H)
        <3>1. <<b, a>> \in {p \in H \X H :
                    Before(p[1], p[2]) /\ ~\E c \in H : Before(p[1], c) /\ Before(c, p[2])}
            BY <1>8, <1>10
        <3> QED BY <3>1 DEF MinimalRows
    <2>2. reading[b].rank = reading[a].rank
        BY <1>1, <1>2, <1>5, <1>10
    <2>3. r.a = b /\ r.b = a /\ r.same
        BY <2>2
    <2> HIDE DEF r
    <2>4. <<a, b>> \in Arrows
        BY <2>1, <2>3 DEF Arrows
    <2> QED BY <1>5, <2>4
<1> QED BY <1>2, <1>5, <1>9, <1>10

\* Once the worker has caught up, the stored rows, reduced as they are and sent a chunk at a time, give back
\* exactly the relationships the propositions have, as long as every contract stayed in the unit it was in.
THEOREM RowsAreExact == Spec => []ExactlyRebuilt
<1>1. Init => StoreInv
    <2> SUFFICES ASSUME Init PROVE StoreInv
        OBVIOUS
    <2>1. Stayed
        <3>1. \A c \in Contract : reading[c].subject = Placed[c].subject /\ reading[c].unit = Placed[c].unit
            BY DEF Init
        <3>2. ASSUME NEW c \in Contract PROVE reading[c] # None /\ source[c] # None
            <4>1. Placed[c] \in [subject : Subject, unit : Unit \cup {NoUnit}, rank : Nat]
                BY ConstantsAssumption
            <4>2. Placed[c].subject \in Subject /\ Placed[c].unit \in Unit \cup {NoUnit} /\ Placed[c].rank \in Nat
                BY <4>1
            <4>3. reading[c] \in [subject : Subject, unit : Unit \cup {NoUnit}, rank : Nat, source : Nat]
                BY <4>2 DEF Init
            <4>4. source[c] \in Nat
                BY DEF Init
            <4> QED BY <4>3, <4>4, ConstantsAssumption
        <3> QED BY <3>1, <3>2 DEF Init, Stayed
    <2>2. Stored
        <3> SUFFICES ASSUME NEW s, NEW u, Home(s, u) \subseteq Derivable \ Contract PROVE Ladder(s, u) \subseteq rows
            BY DEF Init, Stored
        <3>1. Home(s, u) = {}
            BY DEF Home
        <3> QED BY <3>1 DEF Ladder, MinimalRows
    <2>3. JobStores
        BY DEF Init, JobStores
    <2> QED BY <2>1, <2>2, <2>3 DEF StoreInv
<1>2. TypeOK /\ StoreInv /\ ChangedKeepsDue /\ NothingWrongLeft => ExactlyRebuilt
    <2> SUFFICES ASSUME TypeOK, StoreInv, ChangedKeepsDue, NothingWrongLeft, UpToDate, ~left
                 PROVE  Rebuilt = Implied
        BY DEF ExactlyRebuilt
    <2>1. Stayed /\ Derivable = Contract /\ Current = Contract
        BY DEF StoreInv, Stayed, UpToDate, Unread, Derivable, Current
    <2>2. changed = {}
        BY <2>1 DEF ChangedKeepsDue, UpToDate, TypeOK
    <2>3. \A s \in Subject, u \in Unit : Ladder(s, u) \subseteq rows
        BY <2>1, <2>2 DEF StoreInv, Stored, Home
    <2>4. \A c \in Contract : /\ reading[c] \in Reading /\ SubjectOf(c) = Placed[c].subject /\ reading[c].rank \in Nat
                              /\ reading[c].unit = Placed[c].unit
                              /\ SubjectOf(c) \in Subject /\ reading[c].unit \in Unit \cup {NoUnit}
        <3>1. \A c \in Contract : reading[c] \in Reading /\ SubjectOf(c) = Placed[c].subject
            BY <2>1, InUnitOf
        <3>2. \A c \in Contract : reading[c].subject = Placed[c].subject /\ reading[c].unit = Placed[c].unit
            BY <2>1 DEF Stayed
        <3> QED BY <3>1, <3>2 DEF Reading
    <2>5. \A p : p \in Implied <=> /\ p \in Contract \X Contract /\ p[1] # p[2]
                                   /\ SubjectOf(p[1]) = SubjectOf(p[2]) /\ reading[p[1]].unit = reading[p[2]].unit
                                   /\ reading[p[1]].unit # NoUnit /\ reading[p[1]].rank <= reading[p[2]].rank
        BY <2>1 DEF Implied, Mates
    <2>6. \A p \in Arrows : p \in Implied
        <3>1. \A p \in Arrows : p[1] \in Contract /\ p[2] \in Contract
            BY DEF Arrows, TypeOK, Row
        <3> QED BY <2>1, <3>1 DEF NothingWrongLeft
    <2>7. ASSUME NEW p \in Rebuilt PROVE p \in Implied
        <3> DEFINE S == {c \in Contract : c = p[1] \/ <<p[1], c>> \in Implied}
        <3>1. p \in Contract \X Contract /\ p[1] # p[2] /\ p = <<p[1], p[2]>>
            BY <2>7 DEF Rebuilt
        <3>2. ASSUME NEW q \in Arrows, q[1] \in S PROVE q[2] \in S
            <4>1. q \in Implied /\ q[2] \in Contract
                BY <2>5, <2>6
            <4>2. CASE q[1] = p[1]
                <5>1. q = <<p[1], q[2]>>
                    BY <2>5, <4>1, <4>2
                <5> QED BY <4>1, <5>1
            <4>3. CASE q[1] # p[1]
                <5>1. <<p[1], q[1]>> \in Implied
                    BY <3>2, <4>3
                <5>2. q[2] # p[1] => <<p[1], q[2]>> \in Implied
                    BY <2>4, <2>5, <3>1, <4>1, <5>1
                <5> QED BY <4>1, <5>2
            <4> QED BY <4>2, <4>3
        <3>3. p[2] \in S
            <4>1. S \in SUBSET Contract /\ p[1] \in S
                BY <3>1
            <4> HIDE DEF S
            <4> QED BY <2>7, <3>2, <4>1 DEF Rebuilt
        <3> QED BY <3>1, <3>3
    <2>8. ASSUME NEW p \in Implied PROVE p \in Rebuilt
        <3>1. p \in Contract \X Contract /\ p[1] # p[2]
            BY <2>5
        <3>2. ASSUME NEW S, \A q \in Arrows : q[1] \in S => q[2] \in S, p[1] \in S PROVE p[2] \in S
            <4> DEFINE H == Home(SubjectOf(p[1]), reading[p[1]].unit)
            <4>1. H \subseteq Contract /\ p[1] \in H /\ p[2] \in H
                BY <2>4, <2>5, <3>1 DEF Home
            <4>2. MinimalRows(H) \subseteq rows
                <5>1. SubjectOf(p[1]) \in Subject /\ reading[p[1]].unit \in Unit
                    BY <2>4, <2>5, <3>1
                <5> QED BY <2>3, <5>1 DEF Ladder
            <4>3. \A c \in H : reading[c] \in Reading
                BY <2>4, <4>1
            <4>4. reading[p[1]].rank <= reading[p[2]].rank
                BY <2>5
            <4> HIDE DEF H
            <4> QED BY <3>2, <4>1, <4>2, <4>3, <4>4, LadderReaches
        <3> QED BY <3>1, <3>2 DEF Rebuilt
    <2> QED BY <2>7, <2>8
<1> QED BY <1>1, <1>2, TypeCorrect, ChangedStaysDue, NoRowIsWrong, StoreStep, PTL DEF Spec

-----------------------------------------------------------------------------
(* What the rules say of two propositions holds in every world.            *)

Span == [low : Int, lowIn : BOOLEAN, high : Int, highIn : BOOLEAN]

\* The value x lies in the interval i.
In(i, x) ==
    /\ i.low < x \/ (i.low = x /\ i.lowIn)
    /\ x < i.high \/ (x = i.high /\ i.highIn)

PaysAt(p, x) == p.negated # Satisfies(p, x)

\* A threshold or a range with the fields it needs.
Numeric(p) ==
    /\ p.negated \in BOOLEAN
    /\ \/ p.kind = "THRESHOLD" /\ p.comparator \in Comparators /\ Bounded(p.value)
       \/ p.kind = "RANGE" /\ p.lowIn \in BOOLEAN /\ p.highIn \in BOOLEAN /\ Bounded(p.low) /\ Bounded(p.high)

\* An interval inside another has no value the other lacks.
LEMMA InsideSound ==
    ASSUME NEW i \in Span, NEW j \in Span, Inside(i, j), NEW x \in Int, In(i, x)
    PROVE  In(j, x)
BY DEF Inside, In, Span

\* Nor has a set of intervals within another.
LEMMA WithinSound ==
    ASSUME NEW A \in SUBSET Span, NEW B \in SUBSET Span, Within(A, B), NEW x \in Int, \E i \in A : In(i, x)
    PROVE  \E j \in B : In(j, x)
BY InsideSound DEF Within

\* The next whole numbers below and above a value.
LEMMA Rounding ==
    ASSUME NEW v \in Int
    PROVE  /\ Ceil(v) \in Int /\ Floor(v) \in Int
           /\ \A x \in Int : x % 4 = 0 => /\ x >= v <=> x >= Ceil(v)
                                          /\ x > v <=> x >= Floor(v) + 4
                                          /\ x <= v <=> x <= Floor(v)
                                          /\ x < v <=> x <= Ceil(v) - 4
<1>1. PICK q \in Int : v = 4 * q + (v % 4) /\ v % 4 \in 0..3
    <2>1. v % 4 \in 0..3 /\ v \div 4 \in Int /\ v = 4 * (v \div 4) + (v % 4)
        OBVIOUS
    <2> QED BY <2>1
<1>2. ASSUME NEW x \in Int, x % 4 = 0 PROVE \E r \in Int : x = 4 * r
    <2>1. x \div 4 \in Int /\ x = 4 * (x \div 4) + (x % 4)
        OBVIOUS
    <2> QED BY <1>2, <2>1
<1>3. Ceil(v) = (IF v % 4 = 0 THEN v ELSE v + 4 - (v % 4)) /\ Floor(v) = v - (v % 4)
    BY DEF Ceil, Floor
<1> DEFINE m == v % 4
<1>4. m \in 0..3 /\ v = 4 * q + m /\ Ceil(v) = (IF m = 0 THEN v ELSE v + 4 - m) /\ Floor(v) = v - m
    BY <1>1, <1>3
<1> HIDE DEF m
<1>5. Ceil(v) = (IF m = 0 THEN 4 * q ELSE 4 * q + 4) /\ Floor(v) = 4 * q
    BY <1>4
<1>6. ASSUME NEW r \in Int
      PROVE  /\ 4 * r >= v <=> 4 * r >= Ceil(v)
             /\ 4 * r > v <=> 4 * r >= Floor(v) + 4
             /\ 4 * r <= v <=> 4 * r <= Floor(v)
             /\ 4 * r < v <=> 4 * r <= Ceil(v) - 4
    BY <1>4, <1>5
<1> QED BY <1>2, <1>4, <1>6

\* Rounding an interval to whole numbers keeps those it has.
LEMMA WholeKeeps ==
    ASSUME NEW i \in Span
    PROVE  /\ Whole(i) \in Span
           /\ \A x \in Int : x % 4 = 0 /\ -Infinity < x /\ x < Infinity => (In(Whole(i), x) <=> In(i, x))
<1>1. Infinity \in Nat
    BY ToleranceAssumption
<1>2. /\ i.low \in Int /\ i.high \in Int /\ i.lowIn \in BOOLEAN /\ i.highIn \in BOOLEAN
      /\ Ceil(i.low) \in Int /\ Floor(i.low) \in Int /\ Ceil(i.high) \in Int /\ Floor(i.high) \in Int
    BY Rounding DEF Span
<1> DEFINE low  == IF i.low = -Infinity THEN i.low ELSE IF i.lowIn THEN Ceil(i.low) ELSE Floor(i.low) + 4
           high == IF i.high = Infinity THEN i.high ELSE IF i.highIn THEN Floor(i.high) ELSE Ceil(i.high) - 4
<1>3. Whole(i) = [low |-> low, lowIn |-> i.low # -Infinity, high |-> high, highIn |-> i.high # Infinity]
    BY DEF Whole, Interval
<1>4. low \in Int /\ high \in Int
    BY <1>1, <1>2
<1> HIDE DEF low, high
<1>5. Whole(i) \in Span
    <2>1. (i.low # -Infinity) \in BOOLEAN /\ (i.high # Infinity) \in BOOLEAN
        OBVIOUS
    <2> QED BY <1>3, <1>4, <2>1 DEF Span
<1>6. ASSUME NEW x \in Int, x % 4 = 0, -Infinity < x, x < Infinity PROVE In(Whole(i), x) <=> In(i, x)
    <2>1. /\ x >= i.low <=> x >= Ceil(i.low)
          /\ x > i.low <=> x >= Floor(i.low) + 4
          /\ x <= i.high <=> x <= Floor(i.high)
          /\ x < i.high <=> x <= Ceil(i.high) - 4
        BY <1>2, <1>6, Rounding
    <2>2. (low < x \/ (low = x /\ i.low # -Infinity)) <=> (i.low < x \/ (i.low = x /\ i.lowIn))
        <3>1. CASE i.low = -Infinity
            BY <1>1, <1>2, <1>6, <3>1 DEF low
        <3>2. CASE i.low # -Infinity /\ i.lowIn
            BY <1>1, <1>2, <1>6, <2>1, <3>2 DEF low
        <3>3. CASE i.low # -Infinity /\ ~i.lowIn
            BY <1>1, <1>2, <1>6, <2>1, <3>3 DEF low
        <3> QED BY <3>1, <3>2, <3>3
    <2>3. (x < high \/ (x = high /\ i.high # Infinity)) <=> (x < i.high \/ (x = i.high /\ i.highIn))
        <3>1. CASE i.high = Infinity
            BY <1>1, <1>2, <1>6, <3>1 DEF high
        <3>2. CASE i.high # Infinity /\ i.highIn
            BY <1>1, <1>2, <1>6, <2>1, <3>2 DEF high
        <3>3. CASE i.high # Infinity /\ ~i.highIn
            BY <1>1, <1>2, <1>6, <2>1, <3>3 DEF high
        <3> QED BY <3>1, <3>2, <3>3
    <2>4. /\ Whole(i).low = low /\ Whole(i).lowIn = (i.low # -Infinity)
          /\ Whole(i).high = high /\ Whole(i).highIn = (i.high # Infinity)
        BY <1>3
    <2> QED BY <2>2, <2>3, <2>4 DEF In
<1> QED BY <1>5, <1>6

\* A proposition's interval, before its negation, holds the values that satisfy it.
LEMMA BaseExact ==
    ASSUME NEW p, Numeric(p), NEW x \in Int, Bounded(x)
    PROVE  BaseInterval(p) \in Span /\ (In(BaseInterval(p), x) <=> Satisfies(p, x))
<1>1. Infinity \in Nat /\ -Infinity \in Int
    BY ToleranceAssumption
<1>2. CASE p.kind = "RANGE"
    <2>1. BaseInterval(p) = [low |-> p.low, lowIn |-> p.lowIn, high |-> p.high, highIn |-> p.highIn]
        BY <1>2 DEF BaseInterval, Interval
    <2>2. p.low \in Int /\ p.high \in Int /\ p.lowIn \in BOOLEAN /\ p.highIn \in BOOLEAN
        BY <1>2 DEF Numeric, Bounded
    <2>3. In(BaseInterval(p), x) <=> Satisfies(p, x)
        BY <1>2, <2>1, <2>2 DEF In, Satisfies, Between
    <2> QED BY <2>1, <2>2, <2>3 DEF Span
<1>3. CASE p.kind = "THRESHOLD"
    <2>1. p.kind # "RANGE" /\ p.value \in Int /\ -Infinity < p.value /\ p.value < Infinity /\ p.comparator \in Comparators
        BY <1>3 DEF Numeric, Bounded
    <2>2. CASE p.comparator \in Upward
        <3>1. BaseInterval(p) = [low |-> p.value, lowIn |-> p.comparator = "GTE", high |-> Infinity, highIn |-> FALSE]
            BY <2>1, <2>2 DEF BaseInterval, Interval
        <3>2. BaseInterval(p) \in Span
            <4>1. (p.comparator = "GTE") \in BOOLEAN
                OBVIOUS
            <4> QED BY <1>1, <2>1, <3>1, <4>1 DEF Span
        <3>3. CASE p.comparator = "GT"
            <4>1. Satisfies(p, x) <=> x > p.value
                BY <2>1, <3>3 DEF Satisfies, Compares
            <4>2. BaseInterval(p) = [low |-> p.value, lowIn |-> FALSE, high |-> Infinity, highIn |-> FALSE]
                BY <3>1, <3>3
            <4> QED BY <1>1, <2>1, <3>2, <4>1, <4>2 DEF In, Bounded
        <3>4. CASE p.comparator = "GTE"
            <4>1. Satisfies(p, x) <=> x >= p.value
                BY <2>1, <3>4 DEF Satisfies, Compares
            <4>2. BaseInterval(p) = [low |-> p.value, lowIn |-> TRUE, high |-> Infinity, highIn |-> FALSE]
                BY <3>1, <3>4
            <4> QED BY <1>1, <2>1, <3>2, <4>1, <4>2 DEF In, Bounded
        <3> QED BY <2>2, <3>2, <3>3, <3>4 DEF Upward
    <2>3. CASE p.comparator \notin Upward
        <3>1. BaseInterval(p) = [low |-> -Infinity, lowIn |-> FALSE, high |-> p.value, highIn |-> p.comparator = "LTE"]
            BY <2>1, <2>3 DEF BaseInterval, Interval
        <3>2. BaseInterval(p) \in Span
            <4>1. (p.comparator = "LTE") \in BOOLEAN
                OBVIOUS
            <4> QED BY <1>1, <2>1, <3>1, <4>1 DEF Span
        <3>3. CASE p.comparator = "LT"
            <4>1. Satisfies(p, x) <=> x < p.value
                BY <2>1, <3>3 DEF Satisfies, Compares
            <4>2. BaseInterval(p) = [low |-> -Infinity, lowIn |-> FALSE, high |-> p.value, highIn |-> FALSE]
                BY <3>1, <3>3
            <4> QED BY <1>1, <2>1, <3>2, <4>1, <4>2 DEF In, Bounded
        <3>4. CASE p.comparator = "LTE"
            <4>1. Satisfies(p, x) <=> x <= p.value
                BY <2>1, <3>4 DEF Satisfies, Compares
            <4>2. BaseInterval(p) = [low |-> -Infinity, lowIn |-> FALSE, high |-> p.value, highIn |-> TRUE]
                BY <3>1, <3>4
            <4> QED BY <1>1, <2>1, <3>2, <4>1, <4>2 DEF In, Bounded
        <3> QED BY <2>1, <2>3, <3>2, <3>3, <3>4 DEF Upward, Comparators
    <2> QED BY <2>2, <2>3
<1> QED BY <1>2, <1>3 DEF Numeric

\* An interval that has a value is not empty.
LEMMA InNotEmpty ==
    ASSUME NEW i \in Span, NEW x \in Int, In(i, x)
    PROVE  ~Empty(i)
BY DEF In, Empty, Span

\* What an interval lacks, the two parts outside it have.
LEMMA ComplementExact ==
    ASSUME NEW i \in Span, NEW x \in Int, Bounded(x)
    PROVE  Complement(i) \in SUBSET Span /\ ((\E j \in Complement(i) : In(j, x)) <=> ~In(i, x))
<1> DEFINE below == Interval(-Infinity, FALSE, i.low, ~i.lowIn)
           above == Interval(i.high, ~i.highIn, Infinity, FALSE)
<1>1. Infinity \in Nat /\ -Infinity \in Int /\ i.low \in Int /\ i.high \in Int /\ i.lowIn \in BOOLEAN /\ i.highIn \in BOOLEAN
    BY ToleranceAssumption DEF Span
<1>2. below \in Span /\ above \in Span
    BY <1>1 DEF Span, Interval
<1>3. In(below, x) <=> (x < i.low \/ (x = i.low /\ ~i.lowIn))
    BY <1>1 DEF In, Interval, Bounded
<1>4. In(above, x) <=> (i.high < x \/ (i.high = x /\ ~i.highIn))
    BY <1>1 DEF In, Interval, Bounded
<1>5. Complement(i) = {part \in {below, above} : ~Empty(part)}
    BY DEF Complement
<1> HIDE DEF below, above
<1>6. ~In(i, x) <=> In(below, x) \/ In(above, x)
    BY <1>1, <1>3, <1>4 DEF In
<1>7. (\E j \in Complement(i) : In(j, x)) <=> In(below, x) \/ In(above, x)
    BY <1>2, <1>5, InNotEmpty
<1> QED BY <1>2, <1>5, <1>6, <1>7

\* Whether a number satisfies one is true or false.
LEMMA SatisfiesIsBoolean ==
    ASSUME NEW p, Numeric(p), NEW x \in Int
    PROVE  Satisfies(p, x) \in BOOLEAN
<1>1. CASE p.kind = "RANGE"
    BY <1>1, Zenon DEF Satisfies, Between
<1>2. CASE p.kind = "THRESHOLD"
    <2>1. Satisfies(p, x) = Compares(p.comparator, x, p.value)
        BY <1>2 DEF Satisfies
    <2>2. p.comparator \in {"GT", "GTE", "LT", "LTE"} /\ p.value \in Int
        BY <1>2 DEF Numeric, Comparators, Bounded
    <2>3. /\ p.comparator = "GT"  => Satisfies(p, x) = (x > p.value)
          /\ p.comparator = "GTE" => Satisfies(p, x) = (x >= p.value)
          /\ p.comparator = "LT"  => Satisfies(p, x) = (x < p.value)
          /\ p.comparator = "LTE" => Satisfies(p, x) = (x <= p.value)
        BY <2>1 DEF Compares
    <2>4. \A y, z \in Int : (y > z) \in BOOLEAN /\ (y >= z) \in BOOLEAN /\ (y < z) \in BOOLEAN /\ (y <= z) \in BOOLEAN
        OBVIOUS
    <2> QED BY <2>2, <2>3, <2>4
<1> QED BY <1>1, <1>2 DEF Numeric

\* A value set holds the values the proposition pays out for.
LEMMA ValueSetExact ==
    ASSUME NEW p, Numeric(p), NEW x \in Int, Bounded(x), WholeNumbers(p) => x % 4 = 0
    PROVE  ValueSet(p) \in SUBSET Span /\ ((\E i \in ValueSet(p) : In(i, x)) <=> PaysAt(p, x))
<1> DEFINE parts == IF p.negated THEN Complement(BaseInterval(p)) ELSE {BaseInterval(p)}
<1>1. BaseInterval(p) \in Span /\ (In(BaseInterval(p), x) <=> Satisfies(p, x))
    BY BaseExact
<1>2. parts \in SUBSET Span /\ ((\E i \in parts : In(i, x)) <=> PaysAt(p, x))
    <2>1. CASE p.negated
        <3>1. PaysAt(p, x) <=> ~Satisfies(p, x)
            <4>1. p.negated = TRUE
                BY <2>1 DEF Numeric
            <4>2. Satisfies(p, x) \in BOOLEAN
                BY SatisfiesIsBoolean
            <4> QED BY <4>1, <4>2 DEF PaysAt
        <3> QED BY <1>1, <2>1, <3>1, ComplementExact
    <2>2. CASE ~p.negated
        <3>1. PaysAt(p, x) <=> Satisfies(p, x)
            <4>1. p.negated = FALSE
                BY <2>2 DEF Numeric
            <4>2. Satisfies(p, x) \in BOOLEAN
                BY SatisfiesIsBoolean
            <4> QED BY <4>1, <4>2 DEF PaysAt
        <3> QED BY <1>1, <2>2, <3>1
    <2> QED BY <2>1, <2>2
<1>3. ValueSet(p) = IF WholeNumbers(p) THEN {w \in {Whole(i) : i \in parts} : ~Empty(w)} ELSE parts
    BY DEF ValueSet
<1> HIDE DEF parts
<1>4. CASE ~WholeNumbers(p)
    BY <1>2, <1>3, <1>4
<1>5. CASE WholeNumbers(p)
    <2>1. \A i \in parts : Whole(i) \in Span /\ (In(Whole(i), x) <=> In(i, x))
        BY <1>2, <1>5, WholeKeeps DEF Bounded
    <2>2. ValueSet(p) = {w \in {Whole(i) : i \in parts} : ~Empty(w)}
        BY <1>3, <1>5
    <2>3. ASSUME NEW i \in parts, In(i, x) PROVE \E w \in ValueSet(p) : In(w, x)
        BY <2>1, <2>2, <2>3, InNotEmpty
    <2>4. ASSUME NEW w \in ValueSet(p), In(w, x) PROVE \E i \in parts : In(i, x)
        BY <2>1, <2>2, <2>4
    <2>5. ValueSet(p) \in SUBSET Span
        BY <2>1, <2>2
    <2> QED BY <1>2, <2>3, <2>4, <2>5
<1> QED BY <1>4, <1>5

\* Of two numeric propositions read off one number, the rules say only what holds of it.
LEMMA ValuesSound ==
    ASSUME NEW a, NEW b, Numeric(a), Numeric(b), Within(ValueSet(a), ValueSet(b)),
           NEW x \in Int, Bounded(x), WholeNumbers(a) \/ WholeNumbers(b) => x % 4 = 0, PaysAt(a, x)
    PROVE  PaysAt(b, x)
<1>1. ValueSet(a) \in SUBSET Span /\ \E i \in ValueSet(a) : In(i, x)
    BY ValueSetExact
<1>2. ValueSet(b) \in SUBSET Span /\ ((\E i \in ValueSet(b) : In(i, x)) => PaysAt(b, x))
    BY ValueSetExact
<1> QED BY <1>1, <1>2, WithinSound

\* What a proposition of each kind is about.
LEMMA FamilyOf ==
    ASSUME NEW p
    PROVE  /\ p.kind = "OCCURS_BY" => Family(p) = "happening"
           /\ p.kind = "SCORE" => Family(p) = "game"
           /\ p.kind \in {"THRESHOLD", "RANGE", "WINNER"} =>
                  /\ p.measure.head \in GameHeads => Family(p) = "game"
                  /\ p.measure.head = "price"     => Family(p) = "price"
                  /\ p.measure.head = "holder"    => Family(p) = "place"
<1>1. ASSUME p.kind = "OCCURS_BY" PROVE Family(p) = "happening"
    BY <1>1 DEF Family
<1>2. ASSUME p.kind = "SCORE" PROVE Family(p) = "game"
    BY <1>2 DEF Family
<1>3. ASSUME p.kind \in {"THRESHOLD", "RANGE", "WINNER"}, p.measure.head \in GameHeads PROVE Family(p) = "game"
    BY <1>3 DEF Family, GameHeads
<1>4. ASSUME p.kind \in {"THRESHOLD", "RANGE", "WINNER"}, p.measure.head = "price" PROVE Family(p) = "price"
    BY <1>4 DEF Family, GameHeads
<1>5. ASSUME p.kind \in {"THRESHOLD", "RANGE", "WINNER"}, p.measure.head = "holder" PROVE Family(p) = "place"
    BY <1>5 DEF Family, GameHeads
<1> QED BY <1>1, <1>2, <1>3, <1>4, <1>5

\* A negated proposition holds where the other does not.
LEMMA HoldsOf ==
    ASSUME NEW p, NEW w
    PROVE  /\ Family(p) = "game"      => Holds(p, w) = (p.negated # HoldsInGame(p, w))
           /\ Family(p) = "price"     => Holds(p, w) = (p.negated # HoldsInPrice(p, w))
           /\ Family(p) = "place"     => Holds(p, w) = (p.negated # HoldsPlace(p, w))
           /\ Family(p) = "happening" =>
                  Holds(p, w) = (p.negated # (w # Never /\ w <= p.end /\ (p.start = None \/ w >= p.start)))
<1>1. ASSUME Family(p) = "game" PROVE Holds(p, w) = (p.negated # HoldsInGame(p, w))
    BY <1>1 DEF Holds
<1>2. ASSUME Family(p) = "price" PROVE Holds(p, w) = (p.negated # HoldsInPrice(p, w))
    BY <1>2 DEF Holds
<1>3. ASSUME Family(p) = "place" PROVE Holds(p, w) = (p.negated # HoldsPlace(p, w))
    BY <1>3 DEF Holds
<1>4. ASSUME Family(p) = "happening"
      PROVE  Holds(p, w) = (p.negated # (w # Never /\ w <= p.end /\ (p.start = None \/ w >= p.start)))
    BY <1>4 DEF Holds
<1> QED BY <1>1, <1>2, <1>3, <1>4

\* A price is read at an hour, or at the hours of a window.
LEMMA PriceRead ==
    ASSUME NEW p, p.kind \in Valued, WellRead(p), Family(p) = "price", NEW w \in Prices
    PROVE  /\ p.measure.head = "price" /\ Numeric(p) /\ ~WholeNumbers(p) /\ Scale(p) = 1
           /\ p.observation \in {"AT_TIME", "ANY_TIME"}
           /\ p.observation = "AT_TIME" =>
                  LET x == IF p.start # None THEN w[p.end] - w[p.start] ELSE w[p.end]
                  IN  x \in Int /\ Bounded(x) /\ Holds(p, w) = PaysAt(p, x)
           /\ p.observation = "ANY_TIME" =>
                  /\ Holds(p, w) = (p.negated # \E t \in Hours(p, w) : Satisfies(p, w[t]))
                  /\ \A t \in Hours(p, w) : w[t] \in Int /\ Bounded(w[t])
<1>1. p.kind \in {"THRESHOLD", "RANGE"}
    BY DEF Valued
<1>2. /\ p.negated \in BOOLEAN /\ p.unit # "thousands"
      /\ p.measure.head \in {"total_goals", "team_goals", "margin"} \/ (p.measure.head = "price" /\ InTime(p, Prices))
      /\ p.kind = "THRESHOLD" => p.comparator \in Comparators /\ Bounded(p.value)
      /\ p.kind = "RANGE" => p.lowIn \in BOOLEAN /\ p.highIn \in BOOLEAN /\ Bounded(p.low) /\ Bounded(p.high)
    BY DEF WellRead
<1>3. p.measure.head \notin GameHeads
    BY <1>1, FamilyOf
<1>4. p.measure.head = "price" /\ InTime(p, Prices)
    BY <1>2, <1>3 DEF GameHeads
<1>5. Numeric(p)
    BY <1>1, <1>2 DEF Numeric
<1>6. ~WholeNumbers(p) /\ Scale(p) = 1
    BY <1>2, <1>4 DEF WholeNumbers, CountedHeads, Scale
<1>7. Holds(p, w) = (p.negated # HoldsInPrice(p, w))
    BY HoldsOf
<1>8. /\ \A t, u \in DOMAIN w : t \in Int /\ Bounded(w[t]) /\ Bounded(w[t] - w[u])
      /\ p.observation \in {"AT_TIME", "ANY_TIME"}
      /\ p.observation = "AT_TIME" => p.end \in DOMAIN w /\ (p.start # None => p.start \in DOMAIN w /\ p.start <= p.end)
    BY <1>4, WorldsAssumption DEF InTime
<1>9. ASSUME p.observation = "AT_TIME"
      PROVE  LET x == IF p.start # None THEN w[p.end] - w[p.start] ELSE w[p.end]
             IN  x \in Int /\ Bounded(x) /\ Holds(p, w) = PaysAt(p, x)
    <2>1. CASE p.start # None
        <3>1. HoldsInPrice(p, w) = Satisfies(p, w[p.end] - w[p.start])
            BY <1>9, <2>1 DEF HoldsInPrice
        <3>2. Bounded(w[p.end] - w[p.start])
            BY <1>8, <1>9, <2>1
        <3>3. w[p.end] - w[p.start] \in Int
            BY <3>2 DEF Bounded
        <3>4. Holds(p, w) = PaysAt(p, w[p.end] - w[p.start])
            BY <1>7, <3>1 DEF PaysAt
        <3> QED BY <2>1, <3>2, <3>3, <3>4
    <2>2. CASE p.start = None
        <3>1. HoldsInPrice(p, w) = Satisfies(p, w[p.end])
            BY <1>9, <2>2 DEF HoldsInPrice
        <3>2. Bounded(w[p.end])
            BY <1>8, <1>9, <2>2
        <3>3. w[p.end] \in Int
            BY <3>2 DEF Bounded
        <3>4. Holds(p, w) = PaysAt(p, w[p.end])
            BY <1>7, <3>1 DEF PaysAt
        <3> QED BY <2>2, <3>2, <3>3, <3>4
    <2> QED BY <2>1, <2>2
<1>10. ASSUME p.observation = "ANY_TIME"
       PROVE  /\ Holds(p, w) = (p.negated # \E t \in Hours(p, w) : Satisfies(p, w[t]))
              /\ \A t \in Hours(p, w) : w[t] \in Int /\ Bounded(w[t])
    <2>1. \A t \in Hours(p, w) : w[t] \in Int /\ Bounded(w[t])
        BY <1>8 DEF Hours, Bounded
    <2>2. HoldsInPrice(p, w) = \E t \in Hours(p, w) : Satisfies(p, w[t])
        BY <1>10 DEF HoldsInPrice
    <2> QED BY <1>7, <2>1, <2>2
<1> QED BY <1>4, <1>5, <1>6, <1>8, <1>9, <1>10

\* What is related by values is comparable and read together, and says which value set lies within which.
LEMMA ValuesSay ==
    ASSUME NEW a, NEW b, Scale(a) = 1, Scale(b) = 1, Values(a, b) # None
    PROVE  /\ Comparable(a, b) /\ SameReading(a, b).same
           /\ Values(a, b).forward  = Within(ValueSet(a), ValueSet(b))
           /\ Values(a, b).backward = Within(ValueSet(b), ValueSet(a))
           /\ Values(a, b).flags    = SameReading(a, b).flags
<1>1. Values(a, b) = IF Comparable(a, b) /\ SameReading(a, b).same
                     THEN Says(Within(ValueSet(a), ValueSet(b)), Within(ValueSet(b), ValueSet(a)), SameReading(a, b).flags)
                     ELSE None
    BY DEF Values
<1> QED BY <1>1 DEF Says

\* Two readings of a price taken together without a caveat end together, and both or neither have a start.
LEMMA ReadOverOne ==
    ASSUME NEW a, NEW b, a.measure.head = "price", b.measure.head = "price",
           a.observation \in {"AT_TIME", "ANY_TIME"}, b.observation \in {"AT_TIME", "ANY_TIME"},
           SameReading(a, b).same, SameReading(a, b).flags = {}
    PROVE  a.observation = b.observation /\ a.end = b.end /\ StartsTogether(a, b)
<1>1. ~ContestResult(a) /\ ~ContestResult(b)
    BY DEF ContestResult, ContestHeads
<1> DEFINE settled == Settled(a, b)
           together == StartsTogether(a, b)
           near == Abs(a.end - b.end) <= SettledTolerance
           close == Abs(a.end - b.end) <= Tolerance
<1>2. SameReading(a, b) =
        IF a.observation # b.observation THEN Different
        ELSE IF a.observation = "AT_TIME" /\ ~settled /\ a.start # b.start THEN Different
        ELSE IF ~together THEN Different
        ELSE IF a.observation = "CUMULATIVE" /\ None \in {a.end, b.end} THEN Same({})
        ELSE IF None \in {a.end, b.end} THEN (IF a.end = b.end THEN Same({}) ELSE Different)
        ELSE IF a.end = b.end THEN Same({})
        ELSE IF a.observation = "AT_TIME"
             THEN IF settled /\ near THEN Same({"OBSERVATION_TIME_DIFFERS"}) ELSE Different
        ELSE IF close THEN Same({"DEADLINE_TIMEZONE_DIFFERS"}) ELSE Different
    BY <1>1 DEF SameReading
<1> HIDE DEF settled, together, near, close
<1>3. /\ ~Different.same
      /\ \A flags : Same(flags).flags = flags
    BY DEF Different, Same
<1>4. {"OBSERVATION_TIME_DIFFERS"} # {} /\ {"DEADLINE_TIMEZONE_DIFFERS"} # {}
    OBVIOUS
<1>5. a.observation = b.observation
    BY <1>2, <1>3
<1>6. together
    BY <1>2, <1>3
<1>7. ASSUME a.end # b.end PROVE FALSE
    <2>1. None \notin {a.end, b.end}
        BY <1>2, <1>3, <1>5, <1>6, <1>7
    <2>2. SameReading(a, b) = (IF a.observation = "AT_TIME"
                               THEN IF settled /\ near THEN Same({"OBSERVATION_TIME_DIFFERS"}) ELSE Different
                               ELSE IF close THEN Same({"DEADLINE_TIMEZONE_DIFFERS"}) ELSE Different)
        BY <1>2, <1>3, <1>5, <1>6, <1>7, <2>1
    <2> QED BY <1>3, <1>4, <2>2
<1> QED BY <1>5, <1>6, <1>7 DEF together

\* Two readings of a price taken together without a caveat are of one window.
LEMMA OneWindow ==
    ASSUME NEW a, NEW b, a.measure.head = "price", b.measure.head = "price",
           a.observation \in {"AT_TIME", "ANY_TIME"}, b.observation \in {"AT_TIME", "ANY_TIME"},
           SameReading(a, b).same, SameReading(a, b).flags = {}, ~StartsTakenForOne(a, b)
    PROVE  a.observation = b.observation /\ a.start = b.start /\ a.end = b.end
BY ReadOverOne DEF StartsTakenForOne

\* The values of a touch of a level reach without bound upward or downward, and to the level.
LEMMA TouchParts ==
    ASSUME NEW p, p.kind = "THRESHOLD", Numeric(p), ~WholeNumbers(p)
    PROVE  /\ ValueSet(p) # {}
           /\ IF (p.comparator \in Upward) # p.negated
              THEN \A i \in ValueSet(p) : i.low = p.value /\ i.high = Infinity
              ELSE \A i \in ValueSet(p) : i.low = -Infinity /\ i.high = p.value
<1>1. /\ Infinity \in Nat /\ -Infinity \in Int
      /\ p.value \in Int /\ -Infinity < p.value /\ p.value < Infinity /\ p.negated \in BOOLEAN /\ p.kind # "RANGE"
    BY ToleranceAssumption DEF Numeric, Bounded
<1> DEFINE base == BaseInterval(p)
<1>2. ValueSet(p) = IF p.negated THEN Complement(base) ELSE {base}
    BY DEF ValueSet
<1>3. Complement(base) = {part \in {Interval(-Infinity, FALSE, base.low, ~base.lowIn),
                                     Interval(base.high, ~base.highIn, Infinity, FALSE)} : ~Empty(part)}
    BY DEF Complement
<1>4. CASE p.comparator \in Upward
    <2>1. base.low = p.value /\ base.high = Infinity /\ base.highIn = FALSE
        BY <1>1, <1>4 DEF BaseInterval, Interval
    <2> HIDE DEF base
    <2>2. /\ Empty(Interval(base.high, ~base.highIn, Infinity, FALSE))
          /\ ~Empty(Interval(-Infinity, FALSE, base.low, ~base.lowIn))
        BY <1>1, <2>1 DEF Empty, Interval
    <2>3. Complement(base) = {Interval(-Infinity, FALSE, base.low, ~base.lowIn)}
        BY <1>3, <2>2
    <2>4. /\ Interval(-Infinity, FALSE, base.low, ~base.lowIn).low = -Infinity
          /\ Interval(-Infinity, FALSE, base.low, ~base.lowIn).high = p.value
        BY <2>1 DEF Interval
    <2>5. CASE p.negated
        <3>1. p.negated = TRUE /\ ValueSet(p) = {Interval(-Infinity, FALSE, base.low, ~base.lowIn)}
            BY <1>1, <1>2, <2>3, <2>5
        <3> QED BY <1>4, <2>4, <3>1
    <2>6. CASE ~p.negated
        <3>1. p.negated = FALSE /\ ValueSet(p) = {base}
            BY <1>1, <1>2, <2>6
        <3> QED BY <1>4, <2>1, <3>1
    <2> QED BY <2>5, <2>6
<1>5. CASE p.comparator \notin Upward
    <2>1. base.low = -Infinity /\ base.high = p.value /\ base.lowIn = FALSE
        BY <1>1, <1>5 DEF BaseInterval, Interval
    <2> HIDE DEF base
    <2>2. /\ Empty(Interval(-Infinity, FALSE, base.low, ~base.lowIn))
          /\ ~Empty(Interval(base.high, ~base.highIn, Infinity, FALSE))
        BY <1>1, <2>1 DEF Empty, Interval
    <2>3. Complement(base) = {Interval(base.high, ~base.highIn, Infinity, FALSE)}
        BY <1>3, <2>2
    <2>4. /\ Interval(base.high, ~base.highIn, Infinity, FALSE).low = p.value
          /\ Interval(base.high, ~base.highIn, Infinity, FALSE).high = Infinity
        BY <2>1 DEF Interval
    <2>5. CASE p.negated
        <3>1. p.negated = TRUE /\ ValueSet(p) = {Interval(base.high, ~base.highIn, Infinity, FALSE)}
            BY <1>1, <1>2, <2>3, <2>5
        <3>2. (p.comparator \in Upward) # p.negated
            BY <1>5, <3>1
        <3> QED BY <2>4, <3>1, <3>2
    <2>6. CASE ~p.negated
        <3>1. p.negated = FALSE /\ ValueSet(p) = {base}
            BY <1>1, <1>2, <2>6
        <3>2. (p.comparator \in Upward) = FALSE
            BY <1>5
        <3> QED BY <2>1, <3>1, <3>2
    <2> QED BY <2>5, <2>6
<1> QED BY <1>4, <1>5

\* Of a touch of a level and the absence of one, on one side, neither has its values within the other's.
LEMMA TouchesApart ==
    ASSUME NEW a, NEW b, a.kind = "THRESHOLD", b.kind = "THRESHOLD", Numeric(a), Numeric(b),
           ~WholeNumbers(a), ~WholeNumbers(b), (a.comparator \in Upward) = (b.comparator \in Upward), a.negated # b.negated
    PROVE  ~Within(ValueSet(a), ValueSet(b))
<1>1. /\ Infinity \in Nat /\ -Infinity \in Int
      /\ a.value \in Int /\ -Infinity < a.value /\ a.value < Infinity /\ a.negated \in BOOLEAN
      /\ b.value \in Int /\ -Infinity < b.value /\ b.value < Infinity /\ b.negated \in BOOLEAN
    BY ToleranceAssumption DEF Numeric, Bounded
<1> DEFINE aRises == (a.comparator \in Upward) # a.negated
           bRises == (b.comparator \in Upward) # b.negated
<1>2. aRises # bRises
    BY <1>1
<1>3. PICK x \in ValueSet(a) : IF aRises THEN x.low = a.value /\ x.high = Infinity ELSE x.low = -Infinity /\ x.high = a.value
    BY TouchParts
<1>4. \A y \in ValueSet(b) : IF bRises THEN y.low = b.value /\ y.high = Infinity ELSE y.low = -Infinity /\ y.high = b.value
    BY TouchParts
<1> HIDE DEF aRises, bRises
<1>5. ASSUME NEW y \in ValueSet(b), Inside(x, y) PROVE FALSE
    <2>1. /\ x.low > y.low \/ x.low = y.low
          /\ x.high < y.high \/ x.high = y.high
        BY <1>5 DEF Inside
    <2>2. CASE aRises /\ ~bRises
        BY <1>1, <1>3, <1>4, <2>1, <2>2
    <2>3. CASE ~aRises /\ bRises
        BY <1>1, <1>3, <1>4, <2>1, <2>3
    <2>4. aRises \in BOOLEAN /\ bRises \in BOOLEAN
        BY DEF aRises, bRises
    <2> QED BY <1>2, <2>2, <2>3, <2>4
<1> QED BY <1>5 DEF Within

\* Of two readings of a price over one window, where the values of the first lie within the second's, the
\* first holds only if the second does.
LEMMA PriceEntails ==
    ASSUME NEW a, NEW b, a.kind \in Valued, b.kind \in Valued, WellRead(a), WellRead(b),
           Family(a) = "price", Family(b) = "price",
           a.observation = b.observation, a.start = b.start, a.end = b.end, OneSide(a, b),
           Within(ValueSet(a), ValueSet(b))
    PROVE  Entails(a, b)
<1>1. Worlds(Family(a)) = Prices
    BY DEF Worlds
<1>2. ASSUME NEW w \in Prices, Holds(a, w) PROVE Holds(b, w)
    <2>1. Numeric(a) /\ Numeric(b) /\ ~WholeNumbers(a) /\ ~WholeNumbers(b)
        BY PriceRead
    <2>2. \A x \in Int : Bounded(x) /\ PaysAt(a, x) => PaysAt(b, x)
        BY <2>1, ValuesSound
    <2>3. CASE a.observation = "AT_TIME"
        <3> DEFINE x == IF a.start # None THEN w[a.end] - w[a.start] ELSE w[a.end]
        <3>1. x \in Int /\ Bounded(x) /\ Holds(a, w) = PaysAt(a, x)
            BY <2>3, PriceRead
        <3>2. Holds(b, w) = PaysAt(b, x)
            BY <2>3, PriceRead
        <3> HIDE DEF x
        <3> QED BY <1>2, <2>2, <3>1, <3>2
    <2>4. CASE a.observation = "ANY_TIME"
        <3>1. Hours(a, w) = Hours(b, w)
            BY DEF Hours
        <3>2. /\ Holds(a, w) = (a.negated # \E t \in Hours(a, w) : Satisfies(a, w[t]))
              /\ \A t \in Hours(a, w) : w[t] \in Int /\ Bounded(w[t])
            BY <2>4, PriceRead
        <3>3. Holds(b, w) = (b.negated # \E t \in Hours(a, w) : Satisfies(b, w[t]))
            BY <2>4, <3>1, PriceRead
        <3>4. /\ a.kind = "THRESHOLD" /\ b.kind = "THRESHOLD"
              /\ (a.comparator \in Upward) = (b.comparator \in Upward)
            BY <2>4 DEF OneSide
        <3>5. a.negated = b.negated
            BY <2>1, <3>4, TouchesApart
        <3>6. CASE ~a.negated
            <4>1. a.negated = FALSE /\ b.negated = FALSE
                BY <2>1, <3>5, <3>6 DEF Numeric
            <4>2. PICK t \in Hours(a, w) : Satisfies(a, w[t])
                BY <1>2, <3>2, <4>1
            <4>3. w[t] \in Int /\ Bounded(w[t]) /\ PaysAt(a, w[t])
                BY <3>2, <4>1, <4>2 DEF PaysAt
            <4>4. PaysAt(b, w[t])
                BY <2>2, <4>3
            <4>5. Satisfies(b, w[t])
                BY <2>1, <4>1, <4>3, <4>4, SatisfiesIsBoolean DEF PaysAt
            <4> QED BY <3>3, <4>1, <4>2, <4>5
        <3>7. CASE a.negated
            <4>1. a.negated = TRUE /\ b.negated = TRUE
                BY <2>1, <3>5, <3>7 DEF Numeric
            <4>2. ASSUME NEW t \in Hours(a, w), Satisfies(b, w[t]) PROVE FALSE
                <5>1. w[t] \in Int /\ Bounded(w[t])
                    BY <3>2
                <5>2. ~Satisfies(a, w[t])
                    BY <1>2, <3>2, <4>1
                <5>3. PaysAt(a, w[t])
                    BY <2>1, <4>1, <5>1, <5>2, SatisfiesIsBoolean DEF PaysAt
                <5>4. PaysAt(b, w[t])
                    BY <2>2, <5>1, <5>3
                <5> QED BY <2>1, <4>1, <4>2, <5>1, <5>4, SatisfiesIsBoolean DEF PaysAt
            <4> QED BY <3>3, <4>1, <4>2
        <3> QED BY <3>6, <3>7
    <2> QED BY <2>3, <2>4, PriceRead
<1> QED BY <1>1, <1>2 DEF Entails

\* What the values of two readings of a price say without a caveat holds of every price.
LEMMA PriceSound ==
    ASSUME NEW a, NEW b, a.kind \in Valued, b.kind \in Valued, WellRead(a), WellRead(b),
           Family(a) = "price", Family(b) = "price",
           Values(a, b) # None, Values(a, b).flags = {}, ~StartsTakenForOne(a, b)
    PROVE  Sound(Values(a, b), a, b)
<1>1. CASE Prices = {}
    <2>1. Worlds(Family(a)) = {} /\ Worlds(Family(b)) = {}
        BY <1>1 DEF Worlds
    <2> QED BY <2>1 DEF Sound, Entails
<1>2. CASE Prices # {}
    <2>1. /\ a.measure.head = "price" /\ Scale(a) = 1 /\ a.observation \in {"AT_TIME", "ANY_TIME"}
          /\ b.measure.head = "price" /\ Scale(b) = 1 /\ b.observation \in {"AT_TIME", "ANY_TIME"}
        BY <1>2, PriceRead
    <2>2. /\ OneSide(a, b) /\ SameReading(a, b).same /\ SameReading(a, b).flags = {}
          /\ Values(a, b).forward  = Within(ValueSet(a), ValueSet(b))
          /\ Values(a, b).backward = Within(ValueSet(b), ValueSet(a))
        BY <2>1, ValuesSay DEF Comparable
    <2>3. a.observation = b.observation /\ a.start = b.start /\ a.end = b.end
        BY <2>1, <2>2, OneWindow
    <2>4. OneSide(b, a)
        BY <2>2, <2>3 DEF OneSide
    <2>5. Within(ValueSet(a), ValueSet(b)) => Entails(a, b)
        BY <2>2, <2>3, PriceEntails
    <2>6. Within(ValueSet(b), ValueSet(a)) => Entails(b, a)
        BY <2>3, <2>4, PriceEntails
    <2> QED BY <2>2, <2>5, <2>6 DEF Sound
<1> QED BY <1>1, <1>2

\* What two deadlines say without a caveat holds whenever the thing happens, or never.
LEMMA DeadlinesSound ==
    ASSUME NEW a, NEW b, a.kind = "OCCURS_BY", b.kind = "OCCURS_BY", WellRead(a), WellRead(b), NEW sameVenue \in BOOLEAN,
           Deadlines(a, b, sameVenue) # None, Deadlines(a, b, sameVenue).flags = {}, ~StartsTakenForOne(a, b)
    PROVE  Sound(Deadlines(a, b, sameVenue), a, b)
<1> DEFINE said == Deadlines(a, b, sameVenue)
           gap == b.end - a.end
           tolerance == IF sameVenue THEN 0 ELSE Tolerance
           happened(p, w) == w # Never /\ w <= p.end /\ (p.start = None \/ w >= p.start)
<1>1. /\ a.negated \in BOOLEAN /\ b.negated \in BOOLEAN /\ a.end \in Int /\ b.end \in Int /\ gap \in Int
      /\ tolerance \in Nat
    BY ToleranceAssumption DEF WellRead
<1>2. /\ StartsTogether(a, b) /\ a.negated = b.negated
      /\ said = IF Abs(gap) <= tolerance
                THEN Says(TRUE, TRUE, IF gap = 0 THEN {} ELSE {"DEADLINE_TIMEZONE_DIFFERS"})
                ELSE Says((gap > 0) # a.negated, ~((gap > 0) # a.negated), {})
    <2> DEFINE unlike == \/ a.measure # b.measure \/ ~SameEntity(a, b) \/ ~ScopeMatches(a, b)
                         \/ ~StartsTogether(a, b)
                         \/ a.negated # b.negated
    <2>1. said = IF unlike THEN None
                 ELSE IF Abs(gap) <= tolerance
                 THEN Says(TRUE, TRUE, IF gap = 0 THEN {} ELSE {"DEADLINE_TIMEZONE_DIFFERS"})
                 ELSE Says((gap > 0) # a.negated, ~((gap > 0) # a.negated), {})
        BY DEF Deadlines
    <2>2. ~unlike
        <3> HIDE DEF unlike
        <3> QED BY <2>1
    <2> QED BY <2>1, <2>2
<1>3. a.start = b.start
    BY <1>2 DEF StartsTakenForOne
<1>4. /\ Worlds(Family(a)) = Times /\ Worlds(Family(b)) = Times
      /\ \A w : Holds(a, w) = (a.negated # happened(a, w)) /\ Holds(b, w) = (b.negated # happened(b, w))
    BY FamilyOf, HoldsOf DEF Worlds
<1>5. ASSUME NEW p, NEW q, p.end \in Int, q.end \in Int, p.start = q.start, p.end <= q.end, NEW w \in Times, happened(p, w)
      PROVE  happened(q, w)
    <2>1. w \in Int
        BY <1>5, WorldsAssumption
    <2> QED BY <1>5, <2>1
<1>6. \A p, w : happened(p, w) \in BOOLEAN
    OBVIOUS
<1> HIDE DEF happened
<1>7. ASSUME NEW p, NEW q, p.end \in Int, q.end \in Int, p.start = q.start, p.end <= q.end,
             p.negated \in BOOLEAN, p.negated = q.negated, Worlds(Family(p)) = Times, Worlds(Family(q)) = Times,
             \A w : Holds(p, w) = (p.negated # happened(p, w)) /\ Holds(q, w) = (q.negated # happened(q, w))
      PROVE  IF p.negated THEN Entails(q, p) ELSE Entails(p, q)
    <2>1. CASE p.negated
        <3>1. p.negated = TRUE /\ q.negated = TRUE
            BY <1>7, <2>1
        <3>2. ASSUME NEW w \in Times, Holds(q, w) PROVE Holds(p, w)
            <4>1. ~happened(q, w)
                BY <1>6, <1>7, <3>1, <3>2
            <4>2. ~happened(p, w)
                BY <1>5, <1>7, <4>1
            <4> QED BY <1>6, <1>7, <3>1, <4>2
        <3> QED BY <1>7, <2>1, <3>2 DEF Entails
    <2>2. CASE ~p.negated
        <3>1. p.negated = FALSE /\ q.negated = FALSE
            BY <1>7, <2>2
        <3>2. ASSUME NEW w \in Times, Holds(p, w) PROVE Holds(q, w)
            <4>1. happened(p, w)
                BY <1>6, <1>7, <3>1, <3>2
            <4>2. happened(q, w)
                BY <1>5, <1>7, <4>1
            <4> QED BY <1>6, <1>7, <3>1, <4>2
        <3> QED BY <1>7, <2>2, <3>2 DEF Entails
    <2> QED BY <2>1, <2>2
<1>8. a.end <= b.end => IF a.negated THEN Entails(b, a) ELSE Entails(a, b)
    BY <1>1, <1>2, <1>3, <1>4, <1>7
<1>9. b.end <= a.end => IF a.negated THEN Entails(a, b) ELSE Entails(b, a)
    BY <1>1, <1>2, <1>3, <1>4, <1>7
<1>10. CASE Abs(gap) <= tolerance
    <2>1. said.flags = IF gap = 0 THEN {} ELSE {"DEADLINE_TIMEZONE_DIFFERS"}
        BY <1>2, <1>10 DEF Says
    <2>2. a.end = b.end
        BY <1>1, <2>1
    <2> QED BY <1>1, <1>8, <1>9, <2>2 DEF Sound
<1>11. CASE ~(Abs(gap) <= tolerance)
    <2>1. said.forward = ((gap > 0) # a.negated) /\ said.backward = ~((gap > 0) # a.negated)
        BY <1>2, <1>11 DEF Says
    <2>2. gap # 0
        BY <1>1, <1>11 DEF Abs
    <2>3. CASE gap > 0
        <3>1. (gap > 0) = TRUE /\ a.end <= b.end
            BY <1>1, <2>3
        <3>2. CASE a.negated
            <4>1. ~said.forward
                BY <1>1, <2>1, <3>1, <3>2
            <4>2. Entails(b, a)
                BY <1>8, <3>1, <3>2
            <4> QED BY <4>1, <4>2 DEF Sound
        <3>3. CASE ~a.negated
            <4>1. ~said.backward
                BY <1>1, <2>1, <3>1, <3>3
            <4>2. Entails(a, b)
                BY <1>8, <3>1, <3>3
            <4> QED BY <4>1, <4>2 DEF Sound
        <3> QED BY <3>2, <3>3
    <2>4. CASE gap < 0
        <3>1. (gap > 0) = FALSE /\ b.end <= a.end
            BY <1>1, <2>4
        <3>2. CASE a.negated
            <4>1. ~said.backward
                BY <1>1, <2>1, <3>1, <3>2
            <4>2. Entails(a, b)
                BY <1>9, <3>1, <3>2
            <4> QED BY <4>1, <4>2 DEF Sound
        <3>3. CASE ~a.negated
            <4>1. ~said.forward
                BY <1>1, <2>1, <3>1, <3>3
            <4>2. Entails(b, a)
                BY <1>9, <3>1, <3>3
            <4> QED BY <4>1, <4>2 DEF Sound
        <3> QED BY <3>2, <3>3
    <2> QED BY <1>1, <2>2, <2>3, <2>4
<1> QED BY <1>10, <1>11

\* The scores a proposition is about in a world: of the whole game, or of its first round.
Played(p, w) == IF p.scope = "first_round" THEN w.first ELSE w.whole

\* A proposition about a game's winner pays out, unless negated, if its entity led the scores it is about.
LEMMA WinnerRead ==
    ASSUME NEW p, p.kind = "WINNER", WellRead(p), p.measure.head = "winner"
    PROVE  /\ Family(p) = "game" /\ p.negated \in BOOLEAN
           /\ \A w : Holds(p, w) = (p.negated # (p.entity = Leader(Played(p, w))))
<1>1. Family(p) = "game" /\ p.negated \in BOOLEAN
    BY FamilyOf DEF GameHeads, WellRead
<1>2. ASSUME NEW w PROVE HoldsInGame(p, w) = (p.entity = Leader(Played(p, w)))
    BY DEF HoldsInGame, Played
<1> QED BY <1>1, <1>2, HoldsOf

\* Propositions whose scopes match are about one game's scores.
LEMMA OneGame ==
    ASSUME NEW a, NEW b, ScopeMatches(a, b), NEW w
    PROVE  Played(a, w) = Played(b, w)
BY DEF ScopeMatches, Rounds, Played

\* A proposition about a place pays out, unless negated, if its entity holds it at the end or within the window.
LEMMA PlaceRead ==
    ASSUME NEW p, p.kind = "WINNER", WellRead(p), p.measure.head = "holder"
    PROVE  /\ Family(p) = "place" /\ p.negated \in BOOLEAN /\ p.observation \in {"AT_TIME", "ANY_TIME"} \ {None}
           /\ \A w : Holds(p, w) = (p.negated # HoldsPlace(p, w))
           /\ p.observation = "AT_TIME" =>
                  \A w \in Holders : p.end \in DOMAIN w /\ p.end \in Hours(p, w)
<1>1. Family(p) = "place" /\ p.negated \in BOOLEAN
    BY FamilyOf DEF WellRead
<1>2. InTime(p, Holders)
    BY DEF WellRead
<1>3. ASSUME p.observation = "AT_TIME", NEW w \in Holders PROVE p.end \in DOMAIN w /\ p.end \in Hours(p, w)
    <2>1. p.end \in DOMAIN w /\ DOMAIN w \subseteq Int /\ (p.start # None => p.start \in DOMAIN w /\ p.start <= p.end)
        BY <1>2, <1>3, WorldsAssumption DEF InTime
    <2> QED BY <2>1 DEF Hours
<1> QED BY <1>1, <1>2, <1>3, HoldsOf DEF InTime

\* Two holders timed together without a caveat are of windows that end together.
LEMMA OneEnd ==
    ASSUME NEW a, NEW b, a.observation \in {"AT_TIME", "ANY_TIME"} \ {None}, b.observation \in {"AT_TIME", "ANY_TIME"} \ {None},
           WinnerTiming(a, b) # None, WinnerTiming(a, b).flags = {}
    PROVE  /\ a.end = b.end
           /\ a.observation = b.observation => WinnerTiming(a, b).how = "same"
           /\ a.observation = "AT_TIME" /\ b.observation = "ANY_TIME" => WinnerTiming(a, b).how = "a_at_end"
           /\ a.observation = "ANY_TIME" /\ b.observation = "AT_TIME" => WinnerTiming(a, b).how = "b_at_end"
<1> DEFINE far == Abs(a.end - b.end) > Tolerance
<1>1. WinnerTiming(a, b) =
        IF None \in {a.observation, b.observation, a.end, b.end} THEN None
        ELSE IF far THEN None
        ELSE [how   |-> IF a.observation = b.observation THEN "same"
                        ELSE IF a.observation = "AT_TIME" THEN "a_at_end" ELSE "b_at_end",
              flags |-> IF a.end = b.end THEN {} ELSE {"DEADLINE_TIMEZONE_DIFFERS"}]
    BY DEF WinnerTiming
<1> HIDE DEF far
<1>2. WinnerTiming(a, b) = [how   |-> IF a.observation = b.observation THEN "same"
                                      ELSE IF a.observation = "AT_TIME" THEN "a_at_end" ELSE "b_at_end",
                            flags |-> IF a.end = b.end THEN {} ELSE {"DEADLINE_TIMEZONE_DIFFERS"}]
    BY <1>1
<1> QED BY <1>2

\* Whoever holds a place at the end of a window holds it within the window.
LEMMA PlaceEntails ==
    ASSUME NEW p, NEW q, p.kind = "WINNER", q.kind = "WINNER", WellRead(p), WellRead(q),
           p.measure.head = "holder", q.measure.head = "holder", p.observation = "AT_TIME", q.observation = "ANY_TIME",
           p.entity = q.entity, p.start = q.start, p.end = q.end, p.negated = q.negated
    PROVE  IF p.negated THEN Entails(q, p) ELSE Entails(p, q)
<1>1. Worlds(Family(p)) = Holders /\ Worlds(Family(q)) = Holders
    BY PlaceRead DEF Worlds
<1>2. ASSUME NEW w
      PROVE  /\ HoldsPlace(p, w) \in BOOLEAN /\ HoldsPlace(q, w) \in BOOLEAN
             /\ HoldsPlace(p, w) = (w[p.end] = p.entity)
             /\ HoldsPlace(q, w) = \E t \in Hours(q, w) : w[t] = q.entity
    BY DEF HoldsPlace
<1>3. ASSUME NEW w \in Holders, HoldsPlace(p, w) PROVE HoldsPlace(q, w)
    <2>1. w[p.end] = p.entity /\ p.end \in Hours(p, w)
        BY <1>2, <1>3, PlaceRead
    <2>2. p.end \in Hours(q, w)
        BY <2>1 DEF Hours
    <2>3. \E t \in Hours(q, w) : w[t] = q.entity
        BY <2>1, <2>2
    <2> QED BY <1>2, <2>3
<1>4. CASE p.negated
    <2>1. p.negated = TRUE /\ q.negated = TRUE
        BY <1>4, PlaceRead
    <2>2. ASSUME NEW w \in Holders, Holds(q, w) PROVE Holds(p, w)
        <3>1. ~HoldsPlace(q, w)
            BY <1>2, <2>1, <2>2, PlaceRead
        <3>2. ~HoldsPlace(p, w)
            BY <1>3, <3>1
        <3> QED BY <1>2, <2>1, <3>2, PlaceRead
    <2> QED BY <1>1, <1>4, <2>2 DEF Entails
<1>5. CASE ~p.negated
    <2>1. p.negated = FALSE /\ q.negated = FALSE
        BY <1>5, PlaceRead
    <2>2. ASSUME NEW w \in Holders, Holds(p, w) PROVE Holds(q, w)
        <3>1. HoldsPlace(p, w)
            BY <1>2, <2>1, <2>2, PlaceRead
        <3>2. HoldsPlace(q, w)
            BY <1>3, <3>1
        <3> QED BY <1>2, <2>1, <3>2, PlaceRead
    <2> QED BY <1>1, <1>5, <2>2 DEF Entails
<1> QED BY <1>4, <1>5

\* What a rule says is what it was given to say.
LEMMA SaysOf ==
    ASSUME NEW forward, NEW backward, NEW flags
    PROVE  /\ Says(forward, backward, flags).forward = forward
           /\ Says(forward, backward, flags).backward = backward
           /\ Says(forward, backward, flags).flags = flags
BY Zenon DEF Says

\* What two winners of a game, or two holders of a place, say without a caveat holds in every world.
LEMMA WinnersSound ==
    ASSUME NEW a, NEW b, a.kind = "WINNER", b.kind = "WINNER", WellRead(a), WellRead(b), NEW rivals,
           Winners(a, b, rivals) # None, Winners(a, b, rivals).flags = {}, ~StartsTakenForOne(a, b)
    PROVE  Sound(Winners(a, b, rivals), a, b)
<1> DEFINE said == Winners(a, b, rivals)
           timing == WinnerTiming(a, b)
           aFirst == (timing.how = "a_at_end") # a.negated
<1>1. /\ a.measure = b.measure /\ ScopeMatches(a, b) /\ timing # None
      /\ said = IF a.entity = b.entity
                THEN IF a.negated # b.negated THEN None
                     ELSE IF timing.how = "same" THEN Says(TRUE, TRUE, timing.flags)
                     ELSE Says(aFirst, ~aFirst, timing.flags)
                ELSE IF timing.how # "same" \/ a.observation = "ANY_TIME" \/ ~Exclude(a, b, rivals) THEN None
                ELSE IF a.negated = b.negated THEN None
                ELSE Says(b.negated, a.negated, timing.flags)
    <2> DEFINE unlike == a.measure # b.measure \/ ~ScopeMatches(a, b) \/ timing = None
               likely == IF a.entity = b.entity
                         THEN IF a.negated # b.negated THEN None
                              ELSE IF timing.how = "same" THEN Says(TRUE, TRUE, timing.flags)
                              ELSE Says(aFirst, ~aFirst, timing.flags)
                         ELSE IF timing.how # "same" \/ a.observation = "ANY_TIME" \/ ~Exclude(a, b, rivals) THEN None
                         ELSE IF a.negated = b.negated THEN None
                         ELSE Says(b.negated, a.negated, timing.flags)
    <2>1. said = IF unlike THEN None ELSE likely
        BY DEF Winners
    <2> HIDE DEF likely
    <2>2. ~unlike
        <3> HIDE DEF unlike
        <3> QED BY <2>1
    <2>3. said = likely
        BY <2>1, <2>2
    <2> QED BY <2>2, <2>3 DEF likely
<1>2. a.negated \in BOOLEAN /\ b.negated \in BOOLEAN
    BY DEF WellRead
<1>3. timing.flags = {}
    BY <1>1 DEF Says
<1>4. CASE a.entity = b.entity
    <2>1. /\ a.negated = b.negated
          /\ timing.how = "same" => said.forward = TRUE /\ said.backward = TRUE
          /\ timing.how # "same" => said.forward = aFirst /\ said.backward = (~aFirst)
        <3> DEFINE bFirst == ~aFirst
        <3> HIDE DEF timing, aFirst, bFirst
        <3>1. a.negated = b.negated
            BY <1>1, <1>4
        <3>2. said = IF timing.how = "same" THEN Says(TRUE, TRUE, timing.flags) ELSE Says(aFirst, bFirst, timing.flags)
            BY <1>1, <1>4, <3>1 DEF bFirst
        <3>3. /\ timing.how = "same" => said.forward = TRUE /\ said.backward = TRUE
              /\ timing.how # "same" => said.forward = aFirst /\ said.backward = bFirst
            <4>1. ASSUME timing.how = "same" PROVE said = Says(TRUE, TRUE, timing.flags)
                BY <3>2, <4>1
            <4>2. ASSUME timing.how # "same" PROVE said = Says(aFirst, bFirst, timing.flags)
                BY <3>2, <4>2
            <4>3. timing.how = "same" => said.forward = TRUE /\ said.backward = TRUE
                BY <4>1 DEF Says
            <4>4. timing.how # "same" => said.forward = aFirst /\ said.backward = bFirst
                BY <4>2, SaysOf
            <4> QED BY <4>3, <4>4
        <3> QED BY <3>1, <3>3 DEF bFirst
    <2>2. CASE a.measure.head = "winner"
        <3>1. \A w : Holds(a, w) = Holds(b, w)
            BY <1>1, <1>4, <2>1, <2>2, OneGame, WinnerRead
        <3>2. Family(a) = Family(b)
            BY <1>1, <2>2, WinnerRead
        <3> QED BY <3>1, <3>2 DEF Sound, Entails
    <2>3. CASE a.measure.head = "holder"
        <3>1. /\ Family(a) = "place" /\ Family(b) = "place" /\ a.end = b.end /\ a.start = b.start
              /\ a.observation \in {"AT_TIME", "ANY_TIME"} /\ b.observation \in {"AT_TIME", "ANY_TIME"}
            <4>1. Family(a) = "place" /\ Family(b) = "place" /\ a.end = b.end
                BY <1>1, <1>3, <2>3, PlaceRead, OneEnd
            <4>2. a.start = b.start
                BY <4>1 DEF StartsTakenForOne
            <4> QED BY <1>1, <2>3, <4>1, <4>2, PlaceRead
        <3>2. CASE a.observation = b.observation
            <4>1. ASSUME NEW w PROVE HoldsPlace(a, w) = HoldsPlace(b, w)
                <5>1. Hours(a, w) = Hours(b, w)
                    BY <3>1 DEF Hours
                <5> QED BY <1>4, <3>1, <3>2, <5>1 DEF HoldsPlace
            <4>2. \A w : Holds(a, w) = Holds(b, w)
                BY <1>1, <2>1, <2>3, <4>1, PlaceRead
            <4> QED BY <3>1, <4>2 DEF Sound, Entails
        <3>3. CASE a.observation = "AT_TIME" /\ b.observation = "ANY_TIME"
            <4>1. timing.how = "a_at_end"
                BY <1>1, <1>3, <2>3, <3>3, PlaceRead, OneEnd
            <4>2. said.forward = (~a.negated) /\ said.backward = a.negated
                BY <1>2, <2>1, <4>1
            <4>3. IF a.negated THEN Entails(b, a) ELSE Entails(a, b)
                BY <1>1, <1>4, <2>1, <2>3, <3>1, <3>3, PlaceEntails
            <4> QED BY <1>2, <4>2, <4>3 DEF Sound
        <3>4. CASE a.observation = "ANY_TIME" /\ b.observation = "AT_TIME"
            <4>1. timing.how = "b_at_end"
                BY <1>1, <1>3, <2>3, <3>4, PlaceRead, OneEnd
            <4>2. said.forward = a.negated /\ said.backward = (~a.negated)
                BY <1>2, <2>1, <4>1
            <4>3. IF b.negated THEN Entails(a, b) ELSE Entails(b, a)
                BY <1>1, <1>4, <2>1, <2>3, <3>1, <3>4, PlaceEntails
            <4> QED BY <1>2, <2>1, <4>2, <4>3 DEF Sound
        <3> QED BY <3>1, <3>2, <3>3, <3>4
    <2> QED BY <2>2, <2>3 DEF WellRead
<1>5. CASE a.entity # b.entity
    <2>1. /\ timing.how = "same" /\ a.observation # "ANY_TIME" /\ a.negated # b.negated
          /\ said.forward = b.negated /\ said.backward = a.negated
        BY <1>1, <1>5 DEF Says
    <2>2. CASE a.measure.head = "winner"
        <3>1. Family(a) = Family(b)
            BY <1>1, <2>2, WinnerRead
        <3>2. ASSUME NEW w
              PROVE  /\ Holds(a, w) = (a.negated # (a.entity = Leader(Played(a, w))))
                     /\ Holds(b, w) = (b.negated # (b.entity = Leader(Played(a, w))))
            BY <1>1, <2>2, OneGame, WinnerRead
        <3>3. ASSUME b.negated, NEW w, Holds(a, w) PROVE Holds(b, w)
            BY <1>2, <1>5, <2>1, <3>2, <3>3
        <3>4. ASSUME a.negated, NEW w, Holds(b, w) PROVE Holds(a, w)
            BY <1>2, <1>5, <2>1, <3>2, <3>4
        <3> QED BY <2>1, <3>1, <3>3, <3>4 DEF Sound, Entails
    <2>3. CASE a.measure.head = "holder"
        <3>1. Family(a) = "place" /\ Family(b) = "place" /\ a.end = b.end
            BY <1>1, <1>3, <2>3, PlaceRead, OneEnd
        <3>2. a.observation = "AT_TIME" /\ b.observation = "AT_TIME"
            <4>1. /\ a.observation \in {"AT_TIME", "ANY_TIME"} \ {None}
                  /\ b.observation \in {"AT_TIME", "ANY_TIME"} \ {None}
                BY <1>1, <2>3, PlaceRead
            <4>2. b.observation # "ANY_TIME"
                BY <1>1, <1>3, <2>1, <4>1, OneEnd
            <4> QED BY <2>1, <4>1, <4>2
        <3>3. ASSUME NEW w
              PROVE  /\ Holds(a, w) = (a.negated # (w[a.end] = a.entity))
                     /\ Holds(b, w) = (b.negated # (w[a.end] = b.entity))
            <4>1. HoldsPlace(a, w) = (w[a.end] = a.entity) /\ HoldsPlace(b, w) = (w[a.end] = b.entity)
                BY <3>1, <3>2 DEF HoldsPlace
            <4> QED BY <1>1, <2>3, <4>1, PlaceRead
        <3>4. ASSUME b.negated, NEW w, Holds(a, w) PROVE Holds(b, w)
            BY <1>2, <1>5, <2>1, <3>3, <3>4
        <3>5. ASSUME a.negated, NEW w, Holds(b, w) PROVE Holds(a, w)
            BY <1>2, <1>5, <2>1, <3>3, <3>5
        <3> QED BY <2>1, <3>1, <3>4, <3>5 DEF Sound, Entails
    <2> QED BY <2>2, <2>3 DEF WellRead
<1> QED BY <1>4, <1>5

\* Of the two sides, the one that a side is not.
LEMMA OtherSide ==
    ASSUME NEW of \in Sides
    PROVE  /\ (CHOOSE s \in Sides : s # of) \in Sides
           /\ (CHOOSE s \in Sides : s # of) # of
           /\ Sides = {of, CHOOSE s \in Sides : s # of}
<1>1. \E s \in Sides : s # of
    BY DEF Sides
<1>2. (CHOOSE s \in Sides : s # of) \in Sides /\ (CHOOSE s \in Sides : s # of) # of
    BY <1>1
<1> QED BY <1>2 DEF Sides

\* Whole goals are quarters four by four, and so are their sums and differences.
LEMMA WholeGoals ==
    ASSUME NEW u \in Nat, NEW v \in Nat, u % 4 = 0, v % 4 = 0
    PROVE  (u + v) % 4 = 0 /\ (u - v) % 4 = 0
<1>1. PICK i \in Int : u = 4 * i
    <2>1. u \div 4 \in Int /\ u = 4 * (u \div 4) + (u % 4)
        OBVIOUS
    <2> QED BY <2>1
<1>2. PICK j \in Int : v = 4 * j
    <2>1. v \div 4 \in Int /\ v = 4 * (v \div 4) + (v % 4)
        OBVIOUS
    <2> QED BY <2>1
<1>3. \A k \in Int : (4 * k) % 4 = 0
    OBVIOUS
<1>4. u + v = 4 * (i + j) /\ u - v = 4 * (i - j) /\ i + j \in Int /\ i - j \in Int
    BY <1>1, <1>2
<1> QED BY <1>3, <1>4

\* What a game's numbers are.
LEMMA GameNumberOf ==
    ASSUME NEW scores \in GameScores, NEW p
    PROVE  /\ p.measure.head = "total_goals" => GameNumber(p, scores) = scores["home"] + scores["away"]
           /\ p.measure.head = "team_goals"  => GameNumber(p, scores) = scores[p.measure.of]
           /\ p.measure.head = "margin"      =>
                  GameNumber(p, scores) = scores[p.measure.of] - scores[CHOOSE s \in Sides : s # p.measure.of]
<1>1. DOMAIN scores = Sides
    BY WorldsAssumption
<1>2. p.measure.head = "total_goals" => GameNumber(p, scores) = scores["home"] + scores["away"]
    BY DEF GameNumber
<1>3. p.measure.head = "team_goals" => GameNumber(p, scores) = scores[p.measure.of]
    BY DEF GameNumber
<1>4. p.measure.head = "margin" =>
          GameNumber(p, scores) = scores[p.measure.of] - scores[CHOOSE s \in Sides : s # p.measure.of]
    BY <1>1 DEF GameNumber
<1> QED BY <1>2, <1>3, <1>4

\* They are whole and within reach.
LEMMA GameNumbers ==
    ASSUME NEW scores \in GameScores, NEW p, p.measure.head \in {"total_goals", "team_goals", "margin"},
           p.measure.head \in {"team_goals", "margin"} => p.measure.of \in Sides
    PROVE  GameNumber(p, scores) \in Int /\ Bounded(GameNumber(p, scores)) /\ GameNumber(p, scores) % 4 = 0
<1> DEFINE x == GameNumber(p, scores)
<1>1. /\ scores \in [Sides -> Nat] /\ DOMAIN scores = Sides
      /\ \A side \in Sides : scores[side] \in Nat /\ scores[side] % 4 = 0
      /\ scores["home"] + scores["away"] < Infinity /\ Infinity \in Nat
    BY WorldsAssumption, ToleranceAssumption
<1>2. "home" \in Sides /\ "away" \in Sides
    BY DEF Sides
<1>3. CASE p.measure.head = "total_goals"
    <2>1. x = scores["home"] + scores["away"]
        BY <1>3 DEF GameNumber
    <2>2. x % 4 = 0
        BY <1>1, <1>2, <2>1, WholeGoals
    <2> QED BY <1>1, <1>2, <1>3, <2>1, <2>2 DEF Bounded
<1>4. CASE p.measure.head = "team_goals"
    <2>1. x = scores[p.measure.of]
        BY <1>4 DEF GameNumber
    <2>2. p.measure.of \in {"home", "away"}
        BY <1>4 DEF Sides
    <2>3. x \in Nat /\ x % 4 = 0
        BY <1>1, <1>4, <2>1
    <2>4. x < Infinity
        BY <1>1, <1>2, <2>1, <2>2
    <2> QED BY <1>1, <1>4, <2>1, <2>3, <2>4 DEF Bounded
<1>5. CASE p.measure.head = "margin"
    <2> DEFINE of == p.measure.of
               other == CHOOSE s \in Sides : s # of
    <2>1. x = scores[of] - scores[other]
        BY <1>1, <1>5 DEF GameNumber
    <2>2. of \in Sides /\ other \in Sides /\ Sides = {of, other}
        BY <1>5, OtherSide
    <2> HIDE DEF of, other
    <2>3. scores[of] \in Nat /\ scores[other] \in Nat /\ scores[of] + scores[other] < Infinity
        <3>1. (of = "home" /\ other = "away") \/ (of = "away" /\ other = "home")
            BY <2>2 DEF Sides
        <3> QED BY <1>1, <1>2, <3>1
    <2>4. x % 4 = 0
        BY <1>1, <2>1, <2>2, WholeGoals
    <2>5. x \in Int /\ Bounded(x)
        BY <1>1, <2>1, <2>3 DEF Bounded
    <2> QED BY <1>5, <2>1, <2>4, <2>5 DEF of, other
<1> QED BY <1>3, <1>4, <1>5

\* A game's number is read off the scores it is about.
LEMMA GameRead ==
    ASSUME NEW p, p.kind \in Valued, WellRead(p), Family(p) = "game"
    PROVE  /\ Numeric(p) /\ Scale(p) = 1
           /\ p.measure.head \in {"total_goals", "team_goals", "margin"}
           /\ p.measure.head \in {"team_goals", "margin"} => p.measure.of \in Sides
           /\ \A w : Holds(p, w) = PaysAt(p, GameNumber(p, Played(p, w)))
<1>1. p.kind \in {"THRESHOLD", "RANGE"}
    BY DEF Valued
<1>2. /\ p.negated \in BOOLEAN /\ p.unit # "thousands"
      /\ \/ p.measure.head = "total_goals"
         \/ p.measure.head \in {"team_goals", "margin"} /\ p.measure.of \in Sides
         \/ p.measure.head = "price"
      /\ p.kind = "THRESHOLD" => p.comparator \in Comparators /\ Bounded(p.value)
      /\ p.kind = "RANGE" => p.lowIn \in BOOLEAN /\ p.highIn \in BOOLEAN /\ Bounded(p.low) /\ Bounded(p.high)
    BY DEF WellRead
<1>3. p.measure.head # "price"
    BY <1>1, FamilyOf
<1>4. Numeric(p) /\ Scale(p) = 1
    BY <1>1, <1>2 DEF Numeric, Scale
<1>5. ASSUME NEW w PROVE Holds(p, w) = PaysAt(p, GameNumber(p, Played(p, w)))
    <2>1. HoldsInGame(p, w) = Satisfies(p, GameNumber(p, Played(p, w)))
        BY <1>1 DEF HoldsInGame, Played
    <2> QED BY <2>1, HoldsOf DEF PaysAt
<1> QED BY <1>2, <1>3, <1>4, <1>5

\* A world of a game has the scores of the whole and of its first round.
LEMMA GameWorlds ==
    ASSUME NEW p, Family(p) = "game", NEW w \in Worlds(Family(p)), NEW q
    PROVE  Played(q, w) \in GameScores
BY DEF Worlds, Played

\* What the values of two numbers of a game say holds of every final score.
LEMMA GameValuesSound ==
    ASSUME NEW a, NEW b, a.kind \in Valued, b.kind \in Valued, WellRead(a), WellRead(b),
           Family(a) = "game", Family(b) = "game", Values(a, b) # None
    PROVE  Sound(Values(a, b), a, b)
<1>1. /\ a.measure = b.measure /\ ScopeMatches(a, b)
      /\ Values(a, b).forward  = Within(ValueSet(a), ValueSet(b))
      /\ Values(a, b).backward = Within(ValueSet(b), ValueSet(a))
    BY GameRead, ValuesSay DEF Comparable
<1>2. ASSUME NEW w \in Worlds(Family(a))
      PROVE  \E x \in Int : /\ Bounded(x) /\ x % 4 = 0
                            /\ Holds(a, w) = PaysAt(a, x) /\ Holds(b, w) = PaysAt(b, x)
    <2> DEFINE x == GameNumber(a, Played(a, w))
    <2>1. Played(a, w) \in GameScores /\ Played(b, w) = Played(a, w)
        BY <1>1, <1>2, GameWorlds, OneGame
    <2>2. x \in Int /\ Bounded(x) /\ x % 4 = 0
        <3>1. /\ a.measure.head \in {"total_goals", "team_goals", "margin"}
              /\ a.measure.head \in {"team_goals", "margin"} => a.measure.of \in Sides
            BY GameRead
        <3> QED BY <2>1, <3>1, GameNumbers
    <2>3. GameNumber(b, Played(b, w)) = x
        BY <1>1, <2>1 DEF GameNumber
    <2>4. Holds(a, w) = PaysAt(a, x) /\ Holds(b, w) = PaysAt(b, x)
        BY <2>3, GameRead
    <2> HIDE DEF x
    <2> QED BY <2>2, <2>4
<1>3. ASSUME Within(ValueSet(a), ValueSet(b)), NEW w \in Worlds(Family(a)), Holds(a, w) PROVE Holds(b, w)
    <2>1. PICK x \in Int : Bounded(x) /\ x % 4 = 0 /\ Holds(a, w) = PaysAt(a, x) /\ Holds(b, w) = PaysAt(b, x)
        BY <1>2
    <2> QED BY <1>3, <2>1, GameRead, ValuesSound
<1>4. ASSUME Within(ValueSet(b), ValueSet(a)), NEW w \in Worlds(Family(a)), Holds(b, w) PROVE Holds(a, w)
    <2>1. PICK x \in Int : Bounded(x) /\ x % 4 = 0 /\ Holds(a, w) = PaysAt(a, x) /\ Holds(b, w) = PaysAt(b, x)
        BY <1>2
    <2> QED BY <1>4, <2>1, GameRead, ValuesSound
<1> QED BY <1>1, <1>3, <1>4 DEF Sound, Entails

\* What a team's number says of the game's total holds of every final score.
LEMMA TeamTotalSound ==
    ASSUME NEW team, NEW total, team.kind \in Valued, total.kind \in Valued, WellRead(team), WellRead(total),
           Family(team) = "game", Family(total) = "game", TeamTotalImpliesTotal(team, total)
    PROVE  Entails(team, total)
<1>1. /\ team.negated = FALSE /\ total.negated = FALSE
      /\ team.measure.head = "team_goals" /\ total.measure.head = "total_goals" /\ ScopeMatches(team, total)
      /\ WholeNumbers(team) /\ WholeNumbers(total) /\ Numeric(team) /\ Numeric(total) /\ team.measure.of \in Sides
    <2>1. /\ ~team.negated /\ ~total.negated
          /\ team.measure.head = "team_goals" /\ total.measure.head = "total_goals" /\ ScopeMatches(team, total)
        BY DEF TeamTotalImpliesTotal
    <2>2. Numeric(team) /\ Numeric(total) /\ team.measure.of \in Sides
        BY <2>1, GameRead
    <2> QED BY <2>1, <2>2 DEF WholeNumbers, CountedHeads, Numeric
<1>2. \A p : WholeNumbers(p) /\ p.negated = FALSE => ValueSet(p) \subseteq {Whole(BaseInterval(p))}
    BY DEF ValueSet
<1>3. PICK x \in ValueSet(team), y \in ValueSet(total) : y.high = Infinity /\ Inside(x, y)
    BY DEF TeamTotalImpliesTotal
<1>4. ASSUME NEW w \in Worlds(Family(team)), Holds(team, w) PROVE Holds(total, w)
    <2> DEFINE scores == Played(team, w)
               n == GameNumber(team, scores)
               m == GameNumber(total, scores)
    <2>1. scores \in GameScores /\ Played(total, w) = scores
        BY <1>1, <1>4, GameWorlds, OneGame
    <2>2. Holds(team, w) = PaysAt(team, n) /\ Holds(total, w) = PaysAt(total, m)
        BY <2>1, GameRead
    <2>3. n = scores[team.measure.of] /\ m = scores["home"] + scores["away"]
        BY <1>1, <2>1, GameNumberOf
    <2>4. n \in Int /\ Bounded(n) /\ n % 4 = 0
        BY <1>1, <2>1, GameNumbers
    <2>5. m \in Int /\ Bounded(m) /\ m % 4 = 0
        BY <1>1, <2>1, GameNumbers
    <2> HIDE DEF n, m
    <2>6. n <= m
        <3>1. scores["home"] \in Nat /\ scores["away"] \in Nat
            BY <2>1, WorldsAssumption DEF Sides
        <3>2. team.measure.of = "home" \/ team.measure.of = "away"
            BY <1>1 DEF Sides
        <3> QED BY <2>3, <3>1, <3>2
    <2>7. ValueSet(team) \in SUBSET Span /\ \E i \in ValueSet(team) : In(i, n)
        BY <1>1, <1>4, <2>2, <2>4, ValueSetExact
    <2>8. ValueSet(total) \in SUBSET Span /\ ((\E i \in ValueSet(total) : In(i, m)) <=> PaysAt(total, m))
        BY <1>1, <2>5, ValueSetExact
    <2>9. x \in Span /\ y \in Span /\ In(x, n)
        BY <1>1, <1>2, <1>3, <2>7, <2>8
    <2>10. In(y, n)
        BY <1>3, <2>4, <2>9, InsideSound
    <2>11. In(y, m)
        BY <1>3, <2>4, <2>5, <2>6, <2>9, <2>10 DEF In, Span, Bounded
    <2> QED BY <1>3, <2>2, <2>8, <2>11
<1> QED BY <1>4 DEF Entails

\* The side with more goals than the other leads.
LEMMA LeaderOf ==
    ASSUME NEW scores \in GameScores, NEW of \in Sides, scores[of] > scores[CHOOSE s \in Sides : s # of]
    PROVE  Leader(scores) = of
<1> DEFINE other == CHOOSE s \in Sides : s # of
           ahead == {s \in DOMAIN scores : \E t \in DOMAIN scores : scores[s] > scores[t]}
<1>1. Sides = {of, other} /\ other # of
    BY OtherSide
<1>2. DOMAIN scores = Sides /\ scores[of] > scores[other]
    BY WorldsAssumption
<1>3. scores[of] \in Nat /\ scores[other] \in Nat
    BY <1>1, WorldsAssumption
<1> HIDE DEF other
<1>4. ahead = {of}
    BY <1>1, <1>2, <1>3
<1>5. Leader(scores) = IF ahead = {} THEN "tie" ELSE CHOOSE s \in ahead : TRUE
    BY DEF Leader
<1> HIDE DEF ahead
<1> QED BY <1>4, <1>5

\* What a margin says of the winner holds of every final score.
LEMMA MarginSound ==
    ASSUME NEW margin, NEW winner, margin.kind \in Valued, winner.kind = "WINNER", WellRead(margin), WellRead(winner),
           Family(margin) = "game", MarginImpliesWinner(margin, winner) # None
    PROVE  Entails(margin, winner)
<1>1. /\ ~winner.negated /\ winner.measure.head = "winner" /\ margin.measure.head = "margin"
      /\ margin.measure.of = winner.entity /\ ScopeMatches(margin, winner) /\ \A i \in ValueSet(margin) : Positive(i)
    BY DEF MarginImpliesWinner
<1>2. /\ winner.negated = FALSE /\ winner.entity \in Sides /\ Numeric(margin)
      /\ \A w : Holds(winner, w) = (winner.entity = Leader(Played(winner, w)))
    <2>1. winner.negated \in BOOLEAN /\ \A w : Holds(winner, w) = (winner.negated # (winner.entity = Leader(Played(winner, w))))
        BY <1>1, WinnerRead
    <2>2. winner.negated = FALSE
        BY <1>1, <2>1
    <2>3. winner.entity \in Sides /\ Numeric(margin)
        BY <1>1, GameRead
    <2> QED BY <2>1, <2>2, <2>3
<1>3. ASSUME NEW w \in Worlds(Family(margin)), Holds(margin, w) PROVE Holds(winner, w)
    <2> DEFINE scores == Played(margin, w)
               x == GameNumber(margin, scores)
    <2>1. scores \in GameScores /\ Played(winner, w) = scores
        BY <1>1, <1>3, GameWorlds, OneGame
    <2>2. PaysAt(margin, x)
        BY <1>3, GameRead
    <2>3. x = scores[winner.entity] - scores[CHOOSE s \in Sides : s # winner.entity]
        BY <1>1, <2>1, GameNumberOf
    <2>4. x \in Int /\ Bounded(x) /\ x % 4 = 0
        BY <1>1, <1>2, <2>1, GameNumbers
    <2>5. x > 0
        <3> HIDE DEF x
        <3>1. PICK i \in ValueSet(margin) : i \in Span /\ In(i, x)
            BY <1>2, <2>2, <2>4, ValueSetExact
        <3> QED BY <1>1, <2>4, <3>1 DEF Positive, In, Span
    <2>6. scores[winner.entity] > scores[CHOOSE s \in Sides : s # winner.entity]
        <3>1. scores[winner.entity] \in Nat /\ scores[CHOOSE s \in Sides : s # winner.entity] \in Nat
            BY <1>2, <2>1, OtherSide, WorldsAssumption
        <3> QED BY <2>3, <2>5, <3>1
    <2>7. Leader(scores) = winner.entity
        BY <1>2, <2>1, <2>6, LeaderOf
    <2> QED BY <1>2, <2>1, <2>7
<1> QED BY <1>3 DEF Entails

\* A final score pays out, unless negated, if it is the score.
LEMMA ScoreRead ==
    ASSUME NEW p, p.kind = "SCORE", WellRead(p)
    PROVE  /\ Family(p) = "game" /\ p.negated \in BOOLEAN /\ p.scores \in [Sides -> Nat]
           /\ \A w : Holds(p, w) = (p.negated # (Played(p, w) = p.scores))
<1>1. Family(p) = "game" /\ p.negated \in BOOLEAN /\ p.scores \in [Sides -> Nat]
    BY FamilyOf DEF WellRead
<1>2. ASSUME NEW w PROVE HoldsInGame(p, w) = (Played(p, w) = p.scores)
    BY DEF HoldsInGame, Played
<1> QED BY <1>1, <1>2, HoldsOf

\* What a final score makes another market's number is that number.
LEMMA ScoreValueExact ==
    ASSUME NEW score, NEW other, score.scores \in GameScores, other.kind \in Valued, WellRead(other),
           Family(other) = "game", ScoreValue(score, other) # None
    PROVE  ScoreValue(score, other) = GameNumber(other, score.scores)
<1> DEFINE sides == DOMAIN score.scores
           one   == CHOOSE s \in sides : TRUE
           two   == CHOOSE s \in sides : s # one
           total == score.scores[one] + score.scores[two]
<1>1. sides = Sides /\ score.scores \in [Sides -> Nat]
    BY WorldsAssumption
<1>2. total = score.scores["home"] + score.scores["away"]
    <2>1. one \in Sides
        BY <1>1 DEF Sides
    <2> HIDE DEF one
    <2>2. Sides = {one, two} /\ two # one
        BY <1>1, <2>1, OtherSide
    <2> HIDE DEF two
    <2>3. (one = "home" /\ two = "away") \/ (one = "away" /\ two = "home")
        BY <2>2 DEF Sides
    <2>4. score.scores["home"] \in Nat /\ score.scores["away"] \in Nat
        BY <1>1 DEF Sides
    <2> QED BY <2>3, <2>4
<1>3. ScoreValue(score, other) =
        CASE other.measure.head = "total_goals" -> total
          [] other.measure.head = "team_goals" /\ other.measure.of \in sides -> score.scores[other.measure.of]
          [] other.measure.head = "margin" /\ other.measure.of \in sides /\ other.unit # None ->
                 2 * score.scores[other.measure.of] - total
          [] OTHER -> None
    BY DEF ScoreValue
<1> HIDE DEF one, total
<1>4. /\ other.measure.head \in {"total_goals", "team_goals", "margin"}
      /\ other.measure.head \in {"team_goals", "margin"} => other.measure.of \in Sides
    BY GameRead
<1>5. CASE other.measure.head = "total_goals"
    BY <1>2, <1>3, <1>5, GameNumberOf
<1>6. CASE other.measure.head = "team_goals"
    BY <1>1, <1>3, <1>4, <1>6, GameNumberOf
<1>7. CASE other.measure.head = "margin"
    <2> DEFINE of == other.measure.of
               against == CHOOSE s \in Sides : s # of
    <2>1. ScoreValue(score, other) = 2 * score.scores[of] - total
        BY <1>3, <1>7
    <2>2. GameNumber(other, score.scores) = score.scores[of] - score.scores[against]
        BY <1>7, GameNumberOf
    <2>3. of \in Sides /\ Sides = {of, against} /\ against # of
        BY <1>4, <1>7, OtherSide
    <2> HIDE DEF of, against
    <2>4. (of = "home" /\ against = "away") \/ (of = "away" /\ against = "home")
        BY <2>3 DEF Sides
    <2>5. score.scores["home"] \in Nat /\ score.scores["away"] \in Nat
        BY <1>1 DEF Sides
    <2> QED BY <1>2, <2>1, <2>2, <2>4, <2>5
<1> QED BY <1>4, <1>5, <1>6, <1>7

\* What a final score says of another proposition about its game holds of every final score.
LEMMA ScoresSound ==
    ASSUME NEW score, NEW other, score.kind = "SCORE", WellRead(score), WellRead(other), Family(other) = "game",
           Scores(score, other) # None
    PROVE  Sound(Scores(score, other), score, other)
<1> DEFINE said == Scores(score, other)
           full == {score.scope, other.scope} \subseteq FullGame
           apart == \/ score.negated
                    \/ full /\ ~ScopeMatches(score, other)
                    \/ ~full /\ score.scope # other.scope
           alike == ~other.negated /\ score.unit = other.unit /\ score.scores = other.scores
           aside == other.entity \notin DOMAIN score.scores \cup {"tie"}
           led   == Says((other.entity = Leader(score.scores)) # other.negated, FALSE, {})
           value == ScoreValue(score, other)
           read  == Says(Within({Point(value)}, ValueSet(other)), FALSE, {})
<1>1. said = IF apart THEN None
             ELSE CASE other.kind = "SCORE" -> IF alike THEN Says(TRUE, TRUE, {}) ELSE None
                    [] other.kind = "WINNER" /\ other.measure.head = "winner" -> IF aside THEN None ELSE led
                    [] other.kind \in Valued -> IF value = None THEN None ELSE read
                    [] OTHER -> None
    BY DEF Scores
<1>2. ~apart
    <2> HIDE DEF apart, alike, aside, led, value, read
    <2> QED BY <1>1
<1>3. /\ other.kind = "SCORE" => alike /\ said = Says(TRUE, TRUE, {})
      /\ other.kind = "WINNER" => other.measure.head = "winner" /\ said = led
      /\ other.kind \in Valued => value # None /\ said = read
      /\ other.kind \in {"SCORE", "WINNER"} \cup Valued
    <2> HIDE DEF apart, alike, aside, led, value, read
    <2> QED BY <1>1, <1>2 DEF Valued
<1>4. /\ Family(score) = "game" /\ score.negated = FALSE /\ score.scores \in [Sides -> Nat]
      /\ \A w : Holds(score, w) = (Played(score, w) = score.scores)
    <2>1. score.negated = FALSE
        BY <1>2, ScoreRead
    <2> QED BY <2>1, ScoreRead
<1>5. \A w : Played(score, w) = Played(other, w)
    BY <1>2 DEF ScopeMatches, Rounds, FullGame, Played
<1>6. CASE other.kind = "SCORE"
    <2>1. other.negated = FALSE /\ score.scores = other.scores
        BY <1>3, <1>6, ScoreRead
    <2>2. \A w : Holds(other, w) = (Played(other, w) = other.scores)
        BY <1>6, <2>1, ScoreRead
    <2> QED BY <1>4, <1>5, <2>1, <2>2, <1>6 DEF Sound, Entails
<1>7. CASE other.kind = "WINNER"
    <2>1. said.forward = ((other.entity = Leader(score.scores)) # other.negated) /\ said.backward = FALSE
        BY <1>3, <1>7 DEF Says
    <2>2. other.negated \in BOOLEAN /\ \A w : Holds(other, w) = (other.negated # (other.entity = Leader(Played(other, w))))
        BY <1>3, <1>7, WinnerRead
    <2>3. ASSUME said.forward, NEW w, Holds(score, w) PROVE Holds(other, w)
        BY <1>4, <1>5, <2>1, <2>2, <2>3
    <2> QED BY <2>1, <2>3 DEF Sound, Entails
<1>8. CASE other.kind \in Valued
    <2>1. said.forward = Within({Point(value)}, ValueSet(other)) /\ said.backward = FALSE
        BY <1>3, <1>8 DEF Says
    <2>2. ASSUME Within({Point(value)}, ValueSet(other)), NEW w \in Worlds(Family(score)), Holds(score, w) PROVE Holds(other, w)
        <3>1. Played(other, w) = score.scores /\ score.scores \in GameScores
            <4>1. Played(score, w) = score.scores
                BY <1>4, <2>2
            <4>2. Played(score, w) \in GameScores
                BY <1>4, <2>2, GameWorlds
            <4> QED BY <1>5, <4>1, <4>2
        <3>2. value = GameNumber(other, score.scores)
            BY <1>3, <1>8, <3>1, ScoreValueExact
        <3>3. Numeric(other) /\ Holds(other, w) = PaysAt(other, value)
            BY <1>8, <3>1, <3>2, GameRead
        <3>4. value \in Int /\ Bounded(value) /\ value % 4 = 0
            <4>1. /\ other.measure.head \in {"total_goals", "team_goals", "margin"}
                  /\ other.measure.head \in {"team_goals", "margin"} => other.measure.of \in Sides
                BY <1>8, GameRead
            <4> QED BY <3>1, <3>2, <4>1, GameNumbers
        <3> HIDE DEF value
        <3>5. {Point(value)} \in SUBSET Span /\ In(Point(value), value)
            BY <3>4 DEF Point, Interval, Span, In
        <3>6. ValueSet(other) \in SUBSET Span /\ ((\E i \in ValueSet(other) : In(i, value)) <=> PaysAt(other, value))
            BY <3>3, <3>4, ValueSetExact
        <3>7. \E i \in ValueSet(other) : In(i, value)
            BY <2>2, <3>4, <3>5, <3>6, WithinSound
        <3> QED BY <3>3, <3>6, <3>7
    <2> QED BY <2>1, <2>2 DEF Sound, Entails
<1> QED BY <1>3, <1>6, <1>7, <1>8

\* A relation without a caveat between two propositions of one family holds in every world.
LEMMA RelateSound ==
    ASSUME NEW a, NEW b, WellRead(a), WellRead(b), NEW rivals, NEW sameVenue \in BOOLEAN,
           Relate(a, b, rivals, sameVenue) # None, Relate(a, b, rivals, sameVenue).flags = {}, Alike(a, b)
    PROVE  Sound(Relate(a, b, rivals, sameVenue), a, b)
<1> DEFINE said == Relate(a, b, rivals, sameVenue)
<1>1. Family(a) = Family(b) /\ ~StartsTakenForOne(a, b)
    BY DEF Alike
<1>2. CASE a.kind \in Valued /\ b.kind \in Valued
    <2>1. said = IF Values(a, b) # None \/ a.kind = "RANGE" \/ b.kind = "RANGE" THEN Values(a, b)
                 ELSE IF TeamTotalImpliesTotal(a, b) THEN Says(TRUE, FALSE, {})
                 ELSE IF TeamTotalImpliesTotal(b, a) THEN Says(FALSE, TRUE, {}) ELSE None
        BY <1>2 DEF Relate, Valued
    <2>2. Family(a) \in {"game", "price"}
        BY <1>2, FamilyOf DEF WellRead, Valued, GameHeads
    <2>3. CASE Values(a, b) # None
        <3>1. said = Values(a, b)
            BY <2>1, <2>3
        <3>2. CASE Family(a) = "game"
            BY <1>1, <1>2, <2>3, <3>1, <3>2, GameValuesSound
        <3>3. CASE Family(a) = "price"
            BY <1>1, <1>2, <2>3, <3>1, <3>3, PriceSound
        <3> QED BY <2>2, <3>2, <3>3
    <2>4. CASE Values(a, b) = None /\ TeamTotalImpliesTotal(a, b)
        <3>1. said.forward = TRUE /\ said.backward = FALSE
            BY <2>1, <2>4 DEF Says
        <3>2. Family(a) = "game"
            BY <1>2, FamilyOf, <2>4 DEF TeamTotalImpliesTotal, Valued, GameHeads
        <3> QED BY <1>1, <1>2, <2>4, <3>1, <3>2, TeamTotalSound DEF Sound
    <2>5. CASE Values(a, b) = None /\ ~TeamTotalImpliesTotal(a, b)
        <3>1. TeamTotalImpliesTotal(b, a) /\ said = Says(FALSE, TRUE, {})
            BY <2>1, <2>5
        <3>2. said.forward = FALSE /\ said.backward = TRUE
            BY <3>1 DEF Says
        <3>3. Family(b) = "game"
            BY <1>2, FamilyOf, <3>1 DEF TeamTotalImpliesTotal, Valued, GameHeads
        <3> QED BY <1>1, <1>2, <3>1, <3>2, <3>3, TeamTotalSound DEF Sound
    <2> QED BY <2>3, <2>4, <2>5
<1>3. CASE a.kind = "OCCURS_BY" /\ b.kind = "OCCURS_BY"
    <2>1. said = Deadlines(a, b, sameVenue)
        BY <1>3 DEF Relate, Valued
    <2> QED BY <1>1, <1>3, <2>1, DeadlinesSound
<1>4. CASE a.kind = "WINNER" /\ b.kind = "WINNER"
    <2>1. said = Winners(a, b, rivals)
        BY <1>4 DEF Relate, Valued
    <2> QED BY <1>1, <1>4, <2>1, WinnersSound
<1>5. CASE a.kind = "SCORE"
    <2>1. said = Scores(a, b)
        BY <1>5 DEF Relate, Valued
    <2>2. Family(b) = "game"
        BY <1>1, <1>5, ScoreRead
    <2> QED BY <1>5, <2>1, <2>2, ScoresSound
<1>6. CASE b.kind = "SCORE" /\ a.kind # "SCORE"
    <2>1. said = Flipped(Scores(b, a))
        BY <1>6 DEF Relate, Valued
    <2>2. Family(a) = "game"
        BY <1>1, <1>6, ScoreRead
    <2>3. Scores(b, a) # None /\ said = Says(Scores(b, a).backward, Scores(b, a).forward, Scores(b, a).flags)
        BY <2>1 DEF Flipped
    <2>4. Sound(Scores(b, a), b, a)
        BY <1>6, <2>2, <2>3, ScoresSound
    <2> QED BY <2>3, <2>4 DEF Sound, Says
<1>7. CASE a.kind \in Valued /\ b.kind = "WINNER"
    <2>1. said = IF MarginImpliesWinner(a, b) = None THEN None ELSE Says(TRUE, FALSE, MarginImpliesWinner(a, b))
        BY <1>7 DEF Relate, Valued
    <2>2. MarginImpliesWinner(a, b) # None /\ said.forward = TRUE /\ said.backward = FALSE
        BY <2>1 DEF Says
    <2>3. Family(a) = "game"
        BY <1>7, <2>2, FamilyOf DEF MarginImpliesWinner, Valued, GameHeads
    <2> QED BY <1>7, <2>2, <2>3, MarginSound DEF Sound
<1>8. CASE a.kind = "WINNER" /\ b.kind \in Valued
    <2>1. said = IF MarginImpliesWinner(b, a) = None THEN None ELSE Says(FALSE, TRUE, MarginImpliesWinner(b, a))
        BY <1>8 DEF Relate, Valued
    <2>2. MarginImpliesWinner(b, a) # None /\ said.forward = FALSE /\ said.backward = TRUE
        BY <2>1 DEF Says
    <2>3. Family(b) = "game"
        BY <1>8, <2>2, FamilyOf DEF MarginImpliesWinner, Valued, GameHeads
    <2> QED BY <1>8, <2>2, <2>3, MarginSound DEF Sound
<1> QED BY <1>2, <1>3, <1>4, <1>5, <1>6, <1>7, <1>8 DEF Relate

\* An answer to a pair is what the rules say of two usable propositions.
PairsAnswered ==
    question.asks = "pair" =>
        /\ question.a \in Propositions /\ Usable(question.a)
        /\ answer # Unanswered =>
               /\ question.b \in Propositions /\ Usable(question.b)
               /\ \E rivals : \E sameVenue \in BOOLEAN : answer = Relate(question.a, question.b, rivals, sameVenue)

\* Every answer to a pair is what the rules say of it.
LEMMA PairsKept == Asking => []PairsAnswered
<1>1. Unasked => PairsAnswered
    <2> SUFFICES ASSUME Unasked, question.asks = "pair"
                 PROVE  question.a \in Propositions /\ Usable(question.a) /\ answer = Unanswered
        BY DEF PairsAnswered
    <2>1. question \notin [asks : {"listing", "merge", "fees", "rates", "categories"}]
        OBVIOUS
    <2>2. question \in [asks : {"pair"}, a : {p \in Propositions : Usable(p)}]
        BY <2>1 DEF Unasked
    <2> QED BY <2>2 DEF Unasked
<1>2. PairsAnswered /\ [Ask]_<<question, answer>> => PairsAnswered'
    <2> SUFFICES ASSUME PairsAnswered, [Ask]_<<question, answer>> PROVE PairsAnswered'
        OBVIOUS
    <2>1. CASE AskPair
        <3>1. PICK b \in Propositions, sameVenue \in BOOLEAN, rivals \in {{}, {{"home", "away"}}} :
                /\ Usable(b)
                /\ question' = [asks |-> "pair", a |-> question.a, b |-> b]
                /\ answer' = Relate(question.a, b, rivals, sameVenue)
            BY <2>1 DEF AskPair
        <3>2. question'.a = question.a /\ question'.b = b
            BY <3>1
        <3>3. question.a \in Propositions /\ Usable(question.a)
            BY <2>1 DEF AskPair, Asks, PairsAnswered
        <3> QED BY <3>1, <3>2, <3>3 DEF PairsAnswered
    <2>2. CASE AskListing
        BY <2>2 DEF AskListing, PairsAnswered
    <2>3. CASE AskMerge
        BY <2>3 DEF AskMerge, PairsAnswered
    <2>4. CASE AskFees
        BY <2>4 DEF AskFees, PairsAnswered
    <2>5. CASE AskRates
        <3>1. PICK rates \in RateHistories : question' = [asks |-> "rates", rates |-> rates]
            BY <2>5, Zenon DEF AskRates
        <3> QED BY <3>1 DEF PairsAnswered
    <2>6. CASE AskCategories
        BY <2>6 DEF AskCategories, PairsAnswered
    <2>7. CASE UNCHANGED <<question, answer>>
        BY <2>7 DEF PairsAnswered
    <2> QED BY <2>1, <2>2, <2>3, <2>4, <2>5, <2>6, <2>7 DEF Ask
<1> QED BY <1>1, <1>2, PTL DEF Asking

\* UnflaggedHolds: a relation derived without a caveat holds in every world.
THEOREM RelationsHold == Asking => []UnflaggedHolds
<1>1. PairsAnswered => UnflaggedHolds
    <2> SUFFICES ASSUME PairsAnswered, Answered("pair"), answer.flags = {}, Alike(question.a, question.b)
                 PROVE  Sound(answer, question.a, question.b)
        BY DEF UnflaggedHolds
    <2>1. /\ question.a \in Propositions /\ Usable(question.a) /\ question.b \in Propositions /\ Usable(question.b)
          /\ \E rivals : \E sameVenue \in BOOLEAN : answer = Relate(question.a, question.b, rivals, sameVenue)
          /\ answer # None
        BY DEF PairsAnswered, Answered
    <2>2. PICK rivals : \E sameVenue \in BOOLEAN : answer = Relate(question.a, question.b, rivals, sameVenue)
        BY <2>1
    <2>3. PICK sameVenue \in BOOLEAN : answer = Relate(question.a, question.b, rivals, sameVenue)
        BY <2>2
    <2>4. WellRead(question.a) /\ WellRead(question.b)
        BY <2>1, WorldsAssumption
    <2> QED BY <2>1, <2>3, <2>4, RelateSound
<1> QED BY <1>1, PairsKept, PTL

-----------------------------------------------------------------------------
(* Value sets lose nothing: where one's values are not within another's, a *)
(* price tells them apart.                                                 *)

\* Numbers that tell bounds apart: each of them, one between any two and one beyond each.
Dense(X, marks) ==
    /\ \A x \in X : Bounded(x)
    /\ marks \subseteq X
    /\ \A m, n \in marks \cup {-Infinity, Infinity} : m < n => \E x \in X : m < x /\ x < n

\* An interval that is not empty, between two of the bounds or without one.
EndsIn(marks, i) ==
    /\ i \in Span /\ ~Empty(i)
    /\ i.low \in marks \cup {-Infinity} /\ (i.lowIn => i.low \in marks)
    /\ i.high \in marks \cup {Infinity} /\ (i.highIn => i.high \in marks)

\* i does not end before j starts.
Reaches(i, j) == j.low < i.high \/ (j.low = i.high /\ j.lowIn /\ i.highIn)

\* Two intervals that reach each other have a value in common, and one of the numbers.
LEMMA MeetSeen ==
    ASSUME NEW X, NEW marks, Dense(X, marks), NEW i, NEW j, EndsIn(marks, i), EndsIn(marks, j),
           Reaches(i, j), Reaches(j, i)
    PROVE  \E x \in X : In(i, x) /\ In(j, x)
<1>1. /\ Infinity \in Nat /\ -Infinity \in Int
      /\ i.low \in Int /\ i.high \in Int /\ i.lowIn \in BOOLEAN /\ i.highIn \in BOOLEAN
      /\ j.low \in Int /\ j.high \in Int /\ j.lowIn \in BOOLEAN /\ j.highIn \in BOOLEAN
    BY ToleranceAssumption DEF EndsIn, Span
<1>2. \A x \in X : x \in Int
    BY DEF Dense, Bounded
<1>3. PICK l \in {i, j} : \A k \in {i, j} : k.low < l.low \/ (k.low = l.low /\ (l.lowIn => k.lowIn))
    BY <1>1
<1>4. PICK h \in {i, j} : \A k \in {i, j} : h.high < k.high \/ (k.high = h.high /\ (h.highIn => k.highIn))
    BY <1>1
<1>5. l.low < h.high \/ (l.low = h.high /\ l.lowIn /\ h.highIn)
    <2>1. ~Empty(i) /\ ~Empty(j)
        BY DEF EndsIn
    <2> QED BY <1>1, <1>3, <1>4, <2>1 DEF Empty, Reaches
<1>6. CASE l.low < h.high
    <2>1. l.low \in marks \cup {-Infinity, Infinity} /\ h.high \in marks \cup {-Infinity, Infinity}
        BY DEF EndsIn
    <2>2. PICK x \in X : l.low < x /\ x < h.high
        BY <1>6, <2>1 DEF Dense
    <2>3. x \in Int
        BY <1>2
    <2>4. \A k \in {i, j} : In(k, x)
        BY <1>1, <1>3, <1>4, <2>2, <2>3 DEF In
    <2> QED BY <2>4
<1>7. CASE l.low = h.high /\ l.lowIn /\ h.highIn
    <2>1. l.low \in X
        BY <1>7 DEF EndsIn, Dense
    <2>2. \A k \in {i, j} : In(k, l.low)
        BY <1>1, <1>3, <1>4, <1>7 DEF In
    <2> QED BY <2>1, <2>2
<1> QED BY <1>5, <1>6, <1>7

\* The numbers a proposition names are among the marks.
Names(marks, p) == IF p.kind = "RANGE" THEN p.low \in marks /\ p.high \in marks ELSE p.value \in marks

\* A reading's interval ends at the marks it names.
LEMMA BaseBetween ==
    ASSUME NEW p, Numeric(p), p.kind = "RANGE" => ~Empty(BaseInterval(p)),
           NEW marks, Names(marks, p)
    PROVE  EndsIn(marks, BaseInterval(p))
<1>1. Infinity \in Nat /\ -Infinity \in Int
    BY ToleranceAssumption
<1>2. CASE p.kind = "RANGE"
    <2>1. BaseInterval(p) = [low |-> p.low, lowIn |-> p.lowIn, high |-> p.high, highIn |-> p.highIn]
        BY <1>2 DEF BaseInterval, Interval
    <2>2. p.low \in Int /\ p.high \in Int /\ p.lowIn \in BOOLEAN /\ p.highIn \in BOOLEAN
        BY <1>2 DEF Numeric, Bounded
    <2> QED BY <1>2, <2>1, <2>2 DEF EndsIn, Names, Span
<1>3. CASE p.kind = "THRESHOLD"
    <2>1. p.kind # "RANGE" /\ p.value \in Int /\ -Infinity < p.value /\ p.value < Infinity
        BY <1>3 DEF Numeric, Bounded
    <2>2. CASE p.comparator \in Upward
        <3>1. BaseInterval(p) = [low |-> p.value, lowIn |-> p.comparator = "GTE", high |-> Infinity, highIn |-> FALSE]
            BY <2>1, <2>2 DEF BaseInterval, Interval
        <3>2. (p.comparator = "GTE") \in BOOLEAN
            OBVIOUS
        <3>3. ~Empty(BaseInterval(p))
            BY <1>1, <2>1, <3>1 DEF Empty
        <3>4. BaseInterval(p) \in Span
            BY <1>1, <2>1, <3>1, <3>2 DEF Span
        <3> QED BY <2>1, <3>1, <3>3, <3>4 DEF EndsIn, Names
    <2>3. CASE p.comparator \notin Upward
        <3>1. BaseInterval(p) = [low |-> -Infinity, lowIn |-> FALSE, high |-> p.value, highIn |-> p.comparator = "LTE"]
            BY <2>1, <2>3 DEF BaseInterval, Interval
        <3>2. (p.comparator = "LTE") \in BOOLEAN
            OBVIOUS
        <3>3. ~Empty(BaseInterval(p))
            BY <1>1, <2>1, <3>1 DEF Empty
        <3>4. BaseInterval(p) \in Span
            BY <1>1, <2>1, <3>1, <3>2 DEF Span
        <3> QED BY <2>1, <3>1, <3>3, <3>4 DEF EndsIn, Names
    <2> QED BY <2>2, <2>3
<1> QED BY <1>2, <1>3 DEF Numeric

\* The two parts outside an interval, unless empty, are between the marks too.
Under(i) == Interval(-Infinity, FALSE, i.low, ~i.lowIn)
Over(i)  == Interval(i.high, ~i.highIn, Infinity, FALSE)

\* What lies outside an interval is up to two parts, ending at the marks it ends at.
LEMMA OutsideBetween ==
    ASSUME NEW marks, \A m \in marks : Bounded(m), NEW i, EndsIn(marks, i)
    PROVE  /\ Complement(i) = {part \in {Under(i), Over(i)} : ~Empty(part)}
           /\ \A part \in Complement(i) : EndsIn(marks, part)
           /\ Under(i) \in Complement(i) <=> i.low # -Infinity
           /\ Over(i) \in Complement(i) <=> i.high # Infinity
<1>1. /\ Infinity \in Nat /\ -Infinity \in Int /\ -Infinity <= Infinity
      /\ i.low \in Int /\ i.high \in Int /\ i.lowIn \in BOOLEAN /\ i.highIn \in BOOLEAN
    BY ToleranceAssumption DEF EndsIn, Span
<1>2. /\ i.low \in marks \cup {-Infinity} /\ (i.lowIn => i.low \in marks)
      /\ i.high \in marks \cup {Infinity} /\ (i.highIn => i.high \in marks)
      /\ \A m \in marks : -Infinity < m /\ m < Infinity
    BY DEF EndsIn, Bounded
<1>3. /\ Under(i) = [low |-> -Infinity, lowIn |-> FALSE, high |-> i.low, highIn |-> ~i.lowIn]
      /\ Over(i) = [low |-> i.high, lowIn |-> ~i.highIn, high |-> Infinity, highIn |-> FALSE]
    BY DEF Under, Over, Interval
<1>4. Under(i) \in Span /\ Over(i) \in Span
    BY <1>1, <1>3 DEF Span
<1>5. Complement(i) = {part \in {Under(i), Over(i)} : ~Empty(part)}
    BY DEF Complement, Under, Over
<1>6. (~Empty(Under(i))) <=> (i.low # -Infinity)
    BY <1>1, <1>2, <1>3 DEF Empty
<1>7. (~Empty(Over(i))) <=> (i.high # Infinity)
    BY <1>1, <1>2, <1>3 DEF Empty
<1>8. i.low # -Infinity => EndsIn(marks, Under(i))
    BY <1>2, <1>3, <1>4, <1>6 DEF EndsIn
<1>9. i.high # Infinity => EndsIn(marks, Over(i))
    BY <1>2, <1>3, <1>4, <1>7 DEF EndsIn
<1> QED BY <1>5, <1>6, <1>7, <1>8, <1>9

\* Of a proposition that reads something, so are its values.
LEMMA ValuesBetween ==
    ASSUME NEW p, Numeric(p), ~WholeNumbers(p), p.kind = "RANGE" => ~Empty(BaseInterval(p)),
           NEW marks, \A m \in marks : Bounded(m), Names(marks, p)
    PROVE  /\ EndsIn(marks, BaseInterval(p))
           /\ ValueSet(p) = IF p.negated THEN Complement(BaseInterval(p)) ELSE {BaseInterval(p)}
           /\ \A i \in ValueSet(p) : EndsIn(marks, i)
<1>1. EndsIn(marks, BaseInterval(p))
    BY BaseBetween
<1>2. ValueSet(p) = IF p.negated THEN Complement(BaseInterval(p)) ELSE {BaseInterval(p)}
    BY DEF ValueSet
<1>3. \A i \in Complement(BaseInterval(p)) : EndsIn(marks, i)
    BY <1>1, OutsideBetween
<1> QED BY <1>1, <1>2, <1>3

\* Where whatever number pays out for a pays out for b, a's values lie within b's: the converse of ValuesSound.
LEMMA WithinComplete ==
    ASSUME NEW X, NEW marks, Dense(X, marks), NEW a, NEW b,
           Numeric(a), ~WholeNumbers(a), a.kind = "RANGE" => ~Empty(BaseInterval(a)), Names(marks, a),
           Numeric(b), ~WholeNumbers(b), b.kind = "RANGE" => ~Empty(BaseInterval(b)), Names(marks, b),
           \A x \in X : PaysAt(a, x) => PaysAt(b, x)
    PROVE  Within(ValueSet(a), ValueSet(b))
<1> DEFINE base == BaseInterval(b)
<1>1. (\A x \in X : x \in Int /\ Bounded(x)) /\ (\A m \in marks : Bounded(m))
    BY DEF Dense, Bounded
<1>2. Infinity \in Nat /\ -Infinity \in Int /\ -Infinity < Infinity
    <2>1. \E m : Bounded(m)
        BY DEF Numeric
    <2> QED BY <2>1, ToleranceAssumption DEF Bounded
<1>3. /\ EndsIn(marks, base)
      /\ ValueSet(b) = IF b.negated THEN Complement(base) ELSE {base}
    BY <1>1, ValuesBetween
<1> SUFFICES ASSUME NEW i \in ValueSet(a), \A j \in ValueSet(b) : ~Inside(i, j) PROVE FALSE
    BY Zenon DEF Within
<1>4. EndsIn(marks, i)
    BY <1>1, ValuesBetween
<1>5. ASSUME NEW x \in X, In(i, x) PROVE \E j \in ValueSet(b) : In(j, x)
    <2>1. PaysAt(a, x)
        BY <1>1, <1>5, ValueSetExact
    <2>2. PaysAt(b, x)
        BY <2>1
    <2> QED BY <1>1, <2>2, ValueSetExact
<1>6. /\ Complement(base) = {part \in {Under(base), Over(base)} : ~Empty(part)}
      /\ \A part \in Complement(base) : EndsIn(marks, part)
      /\ Under(base) \in Complement(base) <=> base.low # -Infinity
      /\ Over(base) \in Complement(base) <=> base.high # Infinity
    BY <1>1, <1>3, OutsideBetween
<1>7. ASSUME NEW x \in X, In(base, x), NEW part \in Complement(base), In(part, x) PROVE FALSE
    BY <1>1, <1>3, <1>7, ComplementExact DEF EndsIn
<1> HIDE DEF base
<1>8. /\ i.low \in Int /\ i.high \in Int /\ i.lowIn \in BOOLEAN /\ i.highIn \in BOOLEAN
      /\ base.low \in Int /\ base.high \in Int /\ base.lowIn \in BOOLEAN /\ base.highIn \in BOOLEAN
    BY <1>3, <1>4 DEF EndsIn, Span
<1>9. /\ -Infinity <= i.low /\ i.low < Infinity /\ -Infinity < i.high /\ i.high <= Infinity
      /\ (i.lowIn => -Infinity < i.low) /\ (i.highIn => i.high < Infinity)
      /\ -Infinity <= base.low /\ base.low < Infinity /\ -Infinity < base.high /\ base.high <= Infinity
    <2>1. \A m \in marks : m \in Int /\ -Infinity < m /\ m < Infinity
        BY <1>1 DEF Bounded
    <2> QED BY <1>2, <1>3, <1>4, <2>1 DEF EndsIn
<1>10. /\ Under(base).low = -Infinity /\ Under(base).lowIn = FALSE
       /\ Under(base).high = base.low /\ Under(base).highIn = ~base.lowIn
       /\ Over(base).low = base.high /\ Over(base).lowIn = ~base.highIn
       /\ Over(base).high = Infinity /\ Over(base).highIn = FALSE
    BY DEF Under, Over, Interval
<1>11. CASE ~b.negated
    <2>1. ValueSet(b) = {base} /\ ~Inside(i, base)
        BY <1>3, <1>11
    <2>2. ASSUME NEW part \in Complement(base), Reaches(i, part), Reaches(part, i) PROVE FALSE
        <3>1. PICK x \in X : In(i, x) /\ In(part, x)
            BY <1>4, <1>6, <2>2, MeetSeen
        <3> QED BY <1>5, <1>7, <2>1, <3>1
    <2>3. CASE ~(i.low > base.low \/ (i.low = base.low /\ (base.lowIn \/ ~i.lowIn)))
        <3>1. Under(base) \in Complement(base)
            BY <1>2, <1>6, <1>8, <1>9, <2>3
        <3>2. Reaches(i, Under(base))
            BY <1>8, <1>9, <1>10 DEF Reaches
        <3>3. Reaches(Under(base), i)
            BY <1>8, <1>10, <2>3 DEF Reaches
        <3> QED BY <2>2, <3>1, <3>2, <3>3
    <2>4. CASE ~(i.high < base.high \/ (i.high = base.high /\ (base.highIn \/ ~i.highIn)))
        <3>1. Over(base) \in Complement(base)
            BY <1>2, <1>6, <1>8, <1>9, <2>4
        <3>2. Reaches(Over(base), i)
            BY <1>8, <1>9, <1>10 DEF Reaches
        <3>3. Reaches(i, Over(base))
            BY <1>8, <1>10, <2>4 DEF Reaches
        <3> QED BY <2>2, <3>1, <3>2, <3>3
    <2> QED BY <2>1, <2>3, <2>4 DEF Inside
<1>12. CASE b.negated
    <2>1. ValueSet(b) = Complement(base) /\ \A part \in Complement(base) : ~Inside(i, part)
        BY <1>3, <1>12
    <2>2. Reaches(i, base)
        <3>1. CASE base.low = -Infinity
            BY <1>9, <3>1 DEF Reaches
        <3>2. CASE base.low # -Infinity
            <4>1. ~Inside(i, Under(base))
                BY <1>6, <2>1, <3>2
            <4> QED BY <1>2, <1>8, <1>9, <1>10, <4>1 DEF Inside, Reaches
        <3> QED BY <3>1, <3>2
    <2>3. Reaches(base, i)
        <3>1. CASE base.high = Infinity
            BY <1>9, <3>1 DEF Reaches
        <3>2. CASE base.high # Infinity
            <4>1. ~Inside(i, Over(base))
                BY <1>6, <2>1, <3>2
            <4> QED BY <1>2, <1>8, <1>9, <1>10, <4>1 DEF Inside, Reaches
        <3> QED BY <3>1, <3>2
    <2>4. PICK x \in X : In(i, x) /\ In(base, x)
        BY <1>3, <1>4, <2>2, <2>3, MeetSeen
    <2> QED BY <1>5, <1>7, <2>1, <2>4
<1> QED BY <1>11, <1>12

\* A usable proposition about a price is a threshold or a range.
LEMMA PriceIsValued ==
    ASSUME NEW p, Usable(p), WellRead(p), Family(p) = "price"
    PROVE  p.kind \in Valued
<1>1. p.kind \in {"THRESHOLD", "RANGE", "OCCURS_BY", "WINNER", "SCORE"}
    BY DEF Usable
<1>2. p.kind # "OCCURS_BY" /\ p.kind # "SCORE"
    BY FamilyOf
<1>3. ASSUME p.kind = "WINNER" PROVE FALSE
    <2>1. p.measure.head \in {"winner", "holder"}
        BY <1>3 DEF WellRead
    <2> QED BY <1>3, <2>1, FamilyOf DEF GameHeads
<1> QED BY <1>1, <1>2, <1>3 DEF Valued

\* A price at which a reading shows x makes it what x makes it.
LEMMA ShownHolds ==
    ASSUME NEW p \in PriceReadings, p.kind \in Valued, WellRead(p), NEW w \in Prices,
           NEW x \in Int, Bounded(x), Shows(p, x, w)
    PROVE  Holds(p, w) = PaysAt(p, x)
<1>1. /\ p.observation = "AT_TIME" => p.start # p.end
      /\ p.observation = "ANY_TIME" => Hours(p, w) # {}
    BY PricesAssumption
<1>2. Family(p) = "price"
    BY DEF PriceReadings
<1>3. p.measure.head = "price" /\ Numeric(p) /\ p.observation \in {"AT_TIME", "ANY_TIME"}
    BY <1>2, PriceRead
<1>4. CASE p.observation = "AT_TIME"
    <2>1. p.end \in DOMAIN w /\ (p.start # None => p.start \in DOMAIN w)
        <3>1. InTime(p, Prices)
            BY <1>3 DEF WellRead
        <3> QED BY <1>4, <3>1 DEF InTime
    <2>2. x = IF p.start # None THEN w[p.end] - w[p.start] ELSE w[p.end]
        BY <1>1, <1>4, <2>1 DEF Shows
    <2> QED BY <1>2, <1>4, <2>2, PriceRead
<1>5. CASE p.observation = "ANY_TIME"
    <2>1. \A t \in Hours(p, w) : w[t] = x
        BY <1>5 DEF Shows, Hours
    <2>2. Satisfies(p, x) \in BOOLEAN
        BY <1>3, SatisfiesIsBoolean
    <2>3. (\E t \in Hours(p, w) : Satisfies(p, w[t])) = Satisfies(p, x)
        BY <1>1, <1>5, <2>1, <2>2
    <2>4. Holds(p, w) = (p.negated # \E t \in Hours(p, w) : Satisfies(p, w[t]))
        BY <1>2, <1>5, PriceRead
    <2> QED BY <2>3, <2>4 DEF PaysAt
<1> QED BY <1>3, <1>4, <1>5

\* The numbers some price shows a reading.
Shown(p) == {x \in Int : Bounded(x) /\ \E w \in Prices : Shows(p, x, w)}

\* The prices the worlds show a reading tell the levels' bounds apart.
LEMMA ShownDense ==
    ASSUME NEW p \in PriceReadings
    PROVE  Dense(Shown(p), Levels)
<1>1. \A m \in Levels : Bounded(m)
    <2>1. ASSUME NEW q \in PriceReadings
          PROVE  \A m \in (IF q.kind = "RANGE" THEN {q.low, q.high} ELSE {q.value}) : Bounded(m)
        <3>1. q \in Propositions /\ Usable(q) /\ WellRead(q) /\ Family(q) = "price"
            BY WorldsAssumption DEF PriceReadings
        <3>2. q.kind \in Valued
            BY <3>1, PriceIsValued
        <3> QED BY <3>1, <3>2 DEF WellRead, Valued
    <2> QED BY <2>1 DEF Levels
<1>2. Levels \subseteq Shown(p)
    BY <1>1, PricesAssumption DEF Shown, Bounded
<1>3. ASSUME NEW m \in Levels \cup {-Infinity, Infinity}, NEW n \in Levels \cup {-Infinity, Infinity}, m < n
      PROVE  \E x \in Shown(p) : m < x /\ x < n
    <2>1. PICK x \in (m + 1)..(n - 1) : \E w \in Prices : Shows(p, x, w)
        BY <1>3, PricesAssumption
    <2>2. m \in Int /\ n \in Int /\ -Infinity <= m /\ n <= Infinity /\ Infinity \in Nat
        BY <1>1, ToleranceAssumption DEF Bounded
    <2>3. x \in Int /\ m < x /\ x < n /\ Bounded(x)
        BY <2>2 DEF Bounded
    <2> QED BY <2>1, <2>3 DEF Shown
<1> QED BY <1>2, <1>3 DEF Dense, Shown

\* Two readings taken together without a caveat are shown a number by the same prices.
LEMMA ShowsAlike ==
    ASSUME NEW a, NEW b, a.observation = b.observation, a.end = b.end, (a.start = None) <=> (b.start = None), NEW x, NEW w
    PROVE  Shows(a, x, w) <=> Shows(b, x, w)
BY Zenon DEF Shows

\* Of two readings taken together without a caveat the rules find every entailment there is.
LEMMA EntailedIsWithin ==
    ASSUME NEW a \in PriceReadings, NEW b \in PriceReadings,
           a.observation = b.observation, a.end = b.end, (a.start = None) <=> (b.start = None), Entails(a, b)
    PROVE  Within(ValueSet(a), ValueSet(b))
<1>1. ASSUME NEW p \in PriceReadings
      PROVE  /\ WellRead(p) /\ Family(p) = "price" /\ p.kind \in Valued
             /\ Numeric(p) /\ ~WholeNumbers(p) /\ (p.kind = "RANGE" => ~Empty(BaseInterval(p))) /\ Names(Levels, p)
    <2>1. p \in Propositions /\ Usable(p) /\ WellRead(p) /\ Family(p) = "price"
        BY WorldsAssumption DEF PriceReadings
    <2>2. p.kind \in Valued
        BY <2>1, PriceIsValued
    <2>3. Names(Levels, p)
        <3>1. (IF p.kind = "RANGE" THEN {p.low, p.high} ELSE {p.value}) \subseteq Levels
            BY <1>1 DEF Levels
        <3> QED BY <3>1 DEF Names
    <2>4. PICK m \in Levels : TRUE
        BY <2>3 DEF Names
    <2>5. PICK w \in Prices : Shows(p, m, w)
        BY <1>1, PricesAssumption
    <2> QED BY <1>1, <2>1, <2>2, <2>3, PriceRead, PricesAssumption
<1>2. ASSUME NEW x \in Shown(a), PaysAt(a, x) PROVE PaysAt(b, x)
    <2>1. PICK w \in Prices : Shows(a, x, w)
        BY DEF Shown
    <2>2. Shows(b, x, w)
        BY <2>1, ShowsAlike
    <2>3. x \in Int /\ Bounded(x)
        BY DEF Shown
    <2>4. Holds(a, w) = PaysAt(a, x) /\ Holds(b, w) = PaysAt(b, x)
        BY <1>1, <2>1, <2>2, <2>3, ShownHolds
    <2>5. Worlds(Family(a)) = Prices
        BY <1>1 DEF Worlds
    <2> QED BY <1>2, <2>4, <2>5 DEF Entails
<1>3. Dense(Shown(a), Levels)
    BY ShownDense
<1> QED BY <1>1, <1>2, <1>3, WithinComplete

\* A relation without a caveat between two readings of a price says all that holds between them.
LEMMA PriceComplete ==
    ASSUME NEW a \in PriceReadings, NEW b \in PriceReadings, NEW rivals, NEW sameVenue \in BOOLEAN,
           Relate(a, b, rivals, sameVenue) # None, Relate(a, b, rivals, sameVenue).flags = {}
    PROVE  /\ Entails(a, b) => Relate(a, b, rivals, sameVenue).forward
           /\ Entails(b, a) => Relate(a, b, rivals, sameVenue).backward
<1> DEFINE said == Relate(a, b, rivals, sameVenue)
<1>1. ASSUME NEW p \in PriceReadings
      PROVE  /\ p.kind \in Valued /\ p.measure.head = "price" /\ Scale(p) = 1
             /\ p.observation \in {"AT_TIME", "ANY_TIME"}
    <2>1. p \in Propositions /\ Usable(p) /\ WellRead(p) /\ Family(p) = "price"
        BY WorldsAssumption DEF PriceReadings
    <2>2. p.kind \in Valued
        BY <2>1, PriceIsValued
    <2>3. Levels # {}
        BY <1>1 DEF Levels
    <2>4. PICK w \in Prices : TRUE
        BY <1>1, <2>3, PricesAssumption
    <2> QED BY <2>1, <2>2, PriceRead
<1>2. said = Values(a, b)
    <2>1. ~TeamTotalImpliesTotal(a, b) /\ ~TeamTotalImpliesTotal(b, a)
        BY <1>1 DEF TeamTotalImpliesTotal
    <2>2. said = IF Values(a, b) # None \/ a.kind = "RANGE" \/ b.kind = "RANGE" THEN Values(a, b)
                 ELSE IF TeamTotalImpliesTotal(a, b) THEN Says(TRUE, FALSE, {})
                 ELSE IF TeamTotalImpliesTotal(b, a) THEN Says(FALSE, TRUE, {}) ELSE None
        BY <1>1 DEF Relate, Valued
    <2> QED BY <2>1, <2>2
<1>3. /\ SameReading(a, b).same /\ SameReading(a, b).flags = {}
      /\ said.forward  = Within(ValueSet(a), ValueSet(b))
      /\ said.backward = Within(ValueSet(b), ValueSet(a))
    BY <1>1, <1>2, ValuesSay
<1>4. a.observation = b.observation /\ a.end = b.end /\ StartsTogether(a, b)
    BY <1>1, <1>3, ReadOverOne
<1>5. (a.start = None) <=> (b.start = None)
    BY <1>4 DEF StartsTogether
<1> QED BY <1>3, <1>4, <1>5, EntailedIsWithin

\* PricesLoseNothing: of two readings of one price, related without a caveat, whichever entails the other
\* is found to.
THEOREM PricesExact == Asking => []PricesLoseNothing
<1>1. PairsAnswered => PricesLoseNothing
    <2> SUFFICES ASSUME PairsAnswered, Answered("pair"), Family(question.a) = "price", Family(question.b) = "price",
                        answer.flags = {}
                 PROVE  /\ Entails(question.a, question.b) => answer.forward
                        /\ Entails(question.b, question.a) => answer.backward
        BY DEF PricesLoseNothing
    <2>1. /\ question.a \in PriceReadings /\ question.b \in PriceReadings
          /\ \E rivals : \E sameVenue \in BOOLEAN : answer = Relate(question.a, question.b, rivals, sameVenue)
          /\ answer # None
        BY DEF PairsAnswered, Answered, PriceReadings
    <2>2. PICK rivals : \E sameVenue \in BOOLEAN : answer = Relate(question.a, question.b, rivals, sameVenue)
        BY <2>1
    <2>3. PICK sameVenue \in BOOLEAN : answer = Relate(question.a, question.b, rivals, sameVenue)
        BY <2>2
    <2> QED BY <2>1, <2>3, PriceComplete
<1> QED BY <1>1, PairsKept, PTL

-----------------------------------------------------------------------------
(* The rows two syncs leave give the fee charged at every time.            *)

\* The last of changes up to a time is one of them, and none is later.
LEMMA NewestOf ==
    ASSUME NEW C, C # {}, NEW t \in Int, \A c \in C : c.at \in Int /\ c.at <= t
    PROVE  Newest(C) \in C /\ \A c \in C : c.at <= Newest(C).at
<1> DEFINE ago == [c \in C |-> t - c.at]
<1>1. ago \in [C -> Nat]
    OBVIOUS
<1>2. PICK last \in C : \A c \in C : ago[last] <= ago[c]
    <2> HIDE DEF ago
    <2> QED BY <1>1, LeastBy
<1>3. \A c \in C : c.at <= last.at
    BY <1>2
<1> QED BY <1>3 DEF Newest

\* And so is the last of rows.
LEMMA LatestOf ==
    ASSUME NEW R, R # {}, NEW t \in Int, \A r \in R : r.from \in Int /\ r.from <= t
    PROVE  Latest(R) \in R /\ \A r \in R : r.from <= Latest(R).from
<1> DEFINE ago == [r \in R |-> t - r.from]
<1>1. ago \in [R -> Nat]
    OBVIOUS
<1>2. PICK last \in R : \A r \in R : ago[last] <= ago[r]
    <2> HIDE DEF ago
    <2> QED BY <1>1, LeastBy
<1>3. \A r \in R : r.from <= last.from
    BY <1>2
<1> QED BY <1>3 DEF Latest

\* A row as kalshi_schedules makes it: with no definition, or with its fee's.
KalshiRow(r) ==
    /\ r = [target |-> r.target, from |-> r.from, fee |-> r.fee, definition |-> r.definition, ref |-> r.ref]
    /\ r.from \in Int
    /\ r.definition # Unset =>
           r.fee \in Fee /\ r.fee.type \in Expressible /\ r.definition = Definition(r.fee, r.from)

\* A target's rows, each from a time of its own.
RowsOf(target, made) ==
    /\ \A r \in made : KalshiRow(r) /\ r.target = target
    /\ \A r, q \in made : r.from = q.from => r = q

\* A row from later than the others is the latest.
LEMMA LatestIs ==
    ASSUME NEW made, NEW r \in made, \A q \in made : q.from \in Int /\ q.from <= r.from,
           \A q \in made : q.from = r.from => q = r
    PROVE  Latest(made) = r
<1>1. Latest(made) \in made /\ \A q \in made : q.from <= Latest(made).from
    BY LatestOf
<1> QED BY <1>1

\* A fee that some definition expresses has one, which changes only with the rounding.
LEMMA DefinitionOf ==
    ASSUME NEW fee \in Fee, fee.type \in Expressible, NEW t
    PROVE  /\ Definition(fee, t) # Unset
           /\ Definition(fee, t) = [fee |-> fee, rounding |-> IF t >= AccumulatorFrom THEN "accumulator" ELSE "cent"]
<1>1. Definition(fee, t) = [fee |-> fee, rounding |-> IF t >= AccumulatorFrom THEN "accumulator" ELSE "cent"]
    BY DEF Definition
<1>2. Definition(fee, t) \in [fee : Fee, rounding : {"cent", "accumulator"}]
    BY <1>1
<1> QED BY <1>1, <1>2, FeesAssumption

\* Whether the rounding change adds a row after r.
Moves(made, r) ==
    /\ r \in made /\ r.from < AccumulatorFrom /\ r.definition # Unset
    /\ \A q \in made : q.from < AccumulatorFrom => q.from <= r.from
    /\ \A q \in made : q.from # AccumulatorFrom

\* The row of the rounding change carries over the rates of the one row that precedes it.
LEMMA CutoverAdds ==
    ASSUME NEW target, NEW made, RowsOf(target, made)
    PROVE  WithRoundingCutover(made) = made \cup {Moved(r) : r \in {q \in made : Moves(made, q)}}
<1> DEFINE before == {r \in made : r.from < AccumulatorFrom}
           last   == Latest(before)
<1>1. WithRoundingCutover(made) =
          IF before = {} \/ (\E r \in made : r.from = AccumulatorFrom) \/ last.definition = Unset
          THEN made ELSE made \cup {Moved(last)}
    BY DEF WithRoundingCutover
<1>2. CASE before = {}
    BY <1>1, <1>2 DEF Moves
<1>3. CASE before # {}
    <2>1. last \in before /\ \A r \in before : r.from <= last.from
        <3>1. \A r \in before : r.from \in Int /\ r.from <= AccumulatorFrom
            BY FeesAssumption DEF RowsOf, KalshiRow
        <3> HIDE DEF before
        <3> QED BY <1>3, <3>1, LatestOf, FeesAssumption
    <2>2. \A q \in made : Moves(made, q) <=> q = last /\ last.definition # Unset /\ \A r \in made : r.from # AccumulatorFrom
        <3> SUFFICES ASSUME NEW q \in made
                     PROVE  Moves(made, q) <=> q = last /\ last.definition # Unset /\ \A r \in made : r.from # AccumulatorFrom
            OBVIOUS
        <3>1. ASSUME Moves(made, q) PROVE q = last
            <4>1. q \in before /\ q.from <= last.from /\ last.from <= q.from
                BY <2>1, <3>1 DEF Moves
            <4>2. q.from = last.from
                <5> HIDE DEF last
                <5> QED BY <4>1, <2>1 DEF RowsOf, KalshiRow
            <4> HIDE DEF last
            <4> QED BY <4>2, <2>1 DEF RowsOf
        <3> HIDE DEF last
        <3> QED BY <2>1, <3>1 DEF Moves
    <2> HIDE DEF last
    <2> QED BY <1>1, <1>3, <2>1, <2>2
<1> QED BY <1>2, <1>3

\* Its row is of the same target.
LEMMA CutoverStays ==
    ASSUME NEW target, NEW made, RowsOf(target, made)
    PROVE  \A r \in WithRoundingCutover(made) : r.target = target
<1>1. \A r \in made : r.target = target /\ Moved(r).target = target
    BY DEF RowsOf, Moved
<1> QED BY <1>1, CutoverAdds

\* The rows of a registry at a target up to a time, and the fee they give.
Refs(registry) == {r.ref : r \in registry}
At(registry, target) == {r \in registry : r.target = target}
Held(registry, target, t) == {r \in registry : r.target = target /\ r.from <= t}

\* A target's rows with the row of the rounding change give the fee of the last of the target's own rows,
\* under the rounding of the time asked about.
LEMMA CutoverTells ==
    ASSUME NEW target, NEW made, RowsOf(target, made), NEW t \in Int,
           NEW registry, At(registry, target) = WithRoundingCutover(made)
    PROVE  LET past == {r \in made : r.from <= t}
               held == Held(registry, target, t)
           IN  /\ past = {} => held = {}
               /\ past # {} => /\ held # {}
                               /\ Latest(held).definition = IF Latest(past).definition = Unset THEN Unset
                                                            ELSE Definition(Latest(past).fee, t)
<1> DEFINE past == {r \in made : r.from <= t}
           held == Held(registry, target, t)
           l    == Latest(past)
<1>1. held = {r \in made \cup {Moved(r) : r \in {q \in made : Moves(made, q)}} : r.from <= t}
    BY CutoverAdds DEF Held, At
<1>2. held = past \cup {Moved(r) : r \in {q \in made : Moves(made, q) /\ AccumulatorFrom <= t}}
    BY <1>1 DEF Moved
<1>3. AccumulatorFrom \in Int /\ \A r \in made : r.from \in Int
    BY FeesAssumption DEF RowsOf, KalshiRow
<1>4. \A r \in made : Moves(made, r) /\ AccumulatorFrom <= t => r \in past
    BY <1>3 DEF Moves
<1>5. past = {} => held = {}
    <2> HIDE DEF past, held
    <2> QED BY <1>2, <1>4
<1>6. ASSUME past # {}
      PROVE  held # {} /\ Latest(held).definition = IF l.definition = Unset THEN Unset ELSE Definition(l.fee, t)
    <2>1. l \in past /\ \A r \in past : r.from <= l.from
        <3>1. \A r \in past : r.from \in Int /\ r.from <= t
            BY <1>3
        <3> HIDE DEF past
        <3> QED BY <1>6, <3>1, LatestOf
    <2>2. l \in made /\ l.from \in Int /\ l.from <= t /\ KalshiRow(l)
        <3> HIDE DEF l
        <3> QED BY <2>1 DEF RowsOf, KalshiRow
    <2>3. \A q \in past : q.from = l.from => q = l
        <3> HIDE DEF l
        <3> QED BY <2>2 DEF RowsOf
    <2> HIDE DEF l
    <2>4. CASE \E r \in made : Moves(made, r) /\ AccumulatorFrom <= t /\ l.from < AccumulatorFrom
        <3>1. PICK r \in made : Moves(made, r) /\ AccumulatorFrom <= t /\ l.from < AccumulatorFrom
            BY <2>4
        <3>2. r = l
            <4>1. r \in past /\ r.from <= l.from /\ l.from <= r.from
                BY <3>1, <1>4, <2>1, <2>2 DEF Moves
            <4> QED BY <4>1, <2>3, <2>2, <1>3
        <3>3. Moved(l) \in held
            <4> HIDE DEF past, held
            <4> QED BY <3>1, <3>2, <1>2
        <3>4. \A q \in held : q.from \in Int /\ q.from <= AccumulatorFrom /\ (q.from = AccumulatorFrom => q = Moved(l))
            <4> SUFFICES ASSUME NEW q \in held
                         PROVE  q.from \in Int /\ q.from <= AccumulatorFrom /\ (q.from = AccumulatorFrom => q = Moved(l))
                OBVIOUS
            <4>1. CASE q \in past
                BY <4>1, <1>3, <2>1, <2>2, <3>1
            <4>2. CASE q \notin past
                <5>1. PICK p \in made : Moves(made, p) /\ q = Moved(p)
                    <6> HIDE DEF past, held
                    <6> QED BY <4>2, <1>2
                <5>2. p = l
                    <6>1. p.from \in Int /\ p.from <= l.from /\ l.from <= p.from
                        BY <5>1, <3>1, <3>2, <1>3, <2>2 DEF Moves
                    <6> QED BY <6>1, <2>2 DEF RowsOf
                <5> QED BY <5>1, <5>2, <1>3 DEF Moved
            <4> QED BY <4>1, <4>2
        <3>5. Latest(held) = Moved(l)
            <4>1. Moved(l).from = AccumulatorFrom
                BY DEF Moved
            <4> HIDE DEF past, held
            <4> QED BY <3>3, <3>4, <4>1, LatestIs
        <3>6. l.definition # Unset /\ l.fee \in Fee /\ l.fee.type \in Expressible
            BY <3>1, <3>2, <2>2 DEF Moves, KalshiRow
        <3>7. Definition(l.fee, AccumulatorFrom) = Definition(l.fee, t)
            BY <3>6, <3>1, <1>3 DEF Definition
        <3>8. Latest(held).definition = Definition(l.fee, t)
            <4> HIDE DEF held
            <4> QED BY <3>5, <3>7 DEF Moved
        <3> HIDE DEF past, held
        <3> QED BY <3>3, <3>6, <3>8
    <2>5. CASE ~\E r \in made : Moves(made, r) /\ AccumulatorFrom <= t /\ l.from < AccumulatorFrom
        <3>1. l \in held
            <4> HIDE DEF past, held
            <4> QED BY <1>2, <2>1
        <3>2. \A q \in held : q.from \in Int /\ q.from <= l.from /\ (q.from = l.from => q = l)
            <4> SUFFICES ASSUME NEW q \in held
                         PROVE  q.from \in Int /\ q.from <= l.from /\ (q.from = l.from => q = l)
                OBVIOUS
            <4>1. CASE q \in past
                BY <4>1, <1>3, <2>1, <2>3
            <4>2. CASE q \notin past
                <5>1. PICK p \in made : Moves(made, p) /\ AccumulatorFrom <= t /\ q = Moved(p)
                    <6> HIDE DEF past, held
                    <6> QED BY <4>2, <1>2
                <5>2. l.from >= AccumulatorFrom /\ l.from # AccumulatorFrom
                    BY <5>1, <2>5, <2>2, <1>3 DEF Moves
                <5> QED BY <5>1, <5>2, <1>3, <2>2 DEF Moved
            <4> QED BY <4>1, <4>2
        <3>3. Latest(held) = l
            <4> HIDE DEF past, held
            <4> QED BY <3>1, <3>2, LatestIs
        <3>4. ASSUME l.definition # Unset PROVE l.definition = Definition(l.fee, t)
            <4>1. l.definition = Definition(l.fee, l.from)
                BY <3>4, <2>2 DEF KalshiRow
            <4>2. ASSUME l.from < AccumulatorFrom, AccumulatorFrom <= t PROVE FALSE
                <5>1. \A q \in made : q.from <= AccumulatorFrom => q.from <= l.from
                    BY <1>3, <2>1, <4>2
                <5>2. Moves(made, l)
                    BY <5>1, <4>2, <3>4, <2>2, <1>3 DEF Moves
                <5> QED BY <5>2, <4>2, <2>5, <2>2
            <4>3. l.from >= AccumulatorFrom <=> t >= AccumulatorFrom
                BY <4>2, <2>2, <1>3
            <4> QED BY <4>1, <4>3 DEF Definition
        <3> HIDE DEF past, held
        <3> QED BY <3>1, <3>3, <3>4
    <2> QED BY <2>4, <2>5
<1> QED BY <1>5, <1>6

\* What a second sync adds at a target: no row of those the first one knew, whatever it now makes of
\* them, and all rows that are new, which take effect after the rounding change.
Adds(target, first, new, before, after) ==
    /\ RowsOf(target, first \cup new) /\ \A r \in new : r.from > AccumulatorFrom
    /\ At(before, target) = WithRoundingCutover(first) /\ new \subseteq At(after, target)
    /\ \A r \in new : r.ref \notin Refs(before)
    /\ \A r \in At(after, target) : r \in new \/ r.ref \in Refs(before)

\* So a second sync leaves the rows that one sync of all of them would have.
LEMMA SecondSync ==
    ASSUME NEW target, NEW first, NEW new, NEW before, NEW after, Adds(target, first, new, before, after)
    PROVE  At(Synced(before, after), target) = WithRoundingCutover(first \cup new)
<1>1. At(Synced(before, after), target)
        = At(before, target) \cup {r \in At(after, target) : r.ref \notin Refs(before)}
    BY DEF Synced, At, Refs
<1>2. {r \in At(after, target) : r.ref \notin Refs(before)} = new
    BY DEF Adds
<1> DEFINE moved(made) == {Moved(r) : r \in {q \in made : Moves(made, q)}}
<1>3. WithRoundingCutover(first) = first \cup moved(first)
    <2>1. RowsOf(target, first)
        BY DEF RowsOf, Adds
    <2> QED BY <2>1, CutoverAdds
<1>4. WithRoundingCutover(first \cup new) = (first \cup new) \cup moved(first \cup new)
    BY CutoverAdds DEF Adds
<1>5. \A q \in first \cup new : q.from \in Int
    BY DEF RowsOf, Adds, KalshiRow
<1>6. moved(first \cup new) = moved(first)
    <2>1. {q \in first \cup new : Moves(first \cup new, q)} = {q \in first : Moves(first, q)}
        BY <1>5, FeesAssumption DEF Moves, Adds
    <2> QED BY <2>1
<1> HIDE DEF moved
<1>7. At(Synced(before, after), target) = WithRoundingCutover(first) \cup new
    BY <1>1, <1>2 DEF Adds
<1> QED BY <1>3, <1>4, <1>6, <1>7

-----------------------------------------------------------------------------
(* One fee history.                                                        *)

\* The two targets.
Series == <<"group", "series">>
Event  == <<"event", "event">>

\* The changes the syncs know of, the unrecorded one with them.
Known(h, n) == WithUnrecorded(PublishedAt(h, n).current, PublishedAt(h, n).changes)

BaseChange(h) == [id |-> <<"unrecorded", "series">>, series |-> "series", at |-> UnrecordedFrom, fee |-> h.base]

\* The change a sync supposes of a series that charges other than the default.
Unrecorded(h) == IF h.base = DefaultFee THEN {} ELSE {BaseChange(h)}

\* A sync knows the changes announced, or the unrecorded one where there are none.
LEMMA KnownChanges ==
    ASSUME NEW h, Orderly(h)
    PROVE  /\ Known(h, 1) = IF h.early = {} THEN Unrecorded(h) ELSE h.early
           /\ Known(h, 2) = IF h.early \cup h.late = {} THEN Unrecorded(h) ELSE h.early \cup h.late
<1>1. ASSUME NEW C, C \subseteq h.early \cup h.late, NEW t
      PROVE  WithUnrecorded([s \in {"series"} |-> ChargedInSeries(h, C, t)], C) = IF C = {} THEN Unrecorded(h) ELSE C
    <2> DEFINE current == [s \in {"series"} |-> ChargedInSeries(h, C, t)]
               others  == {x \in DOMAIN current : current[x] # DefaultFee} \ {c.series : c \in C}
    <2>1. WithUnrecorded(current, C) =
              C \cup {[id |-> <<"unrecorded", s>>, series |-> s, at |-> UnrecordedFrom, fee |-> current[s]] : s \in others}
        BY DEF WithUnrecorded
    <2>2. CASE C # {}
        <3>1. others = {}
            <4>1. "series" \in {c.series : c \in C}
                <5>1. PICK c \in C : TRUE
                    BY <2>2
                <5>2. c.series = "series"
                    BY <1>1, <5>1 DEF Orderly
                <5> QED BY <5>2
            <4> QED BY <4>1
        <3>2. WithUnrecorded(current, C) = C
            <4> HIDE DEF others, current
            <4> QED BY <2>1, <3>1
        <3> QED BY <2>2, <3>2
    <2>3. CASE C = {}
        <3>1. current["series"] = h.base /\ DOMAIN current = {"series"}
            BY <2>3 DEF ChargedInSeries
        <3>2. others = IF h.base = DefaultFee THEN {} ELSE {"series"}
            <4> HIDE DEF current
            <4> QED BY <2>3, <3>1
        <3>3. WithUnrecorded(current, C) = Unrecorded(h)
            <4> HIDE DEF others, current
            <4>1. CASE others = {}
                BY <2>1, <2>3, <3>2, <4>1 DEF Unrecorded
            <4>2. CASE others = {"series"}
                <5>1. h.base # DefaultFee
                    BY <3>2, <4>2
                <5> QED BY <2>1, <2>3, <3>1, <4>2, <5>1 DEF Unrecorded, BaseChange
            <4> QED BY <4>1, <4>2, <3>2
        <3> QED BY <2>3, <3>3
    <2> QED BY <2>2, <2>3
<1>2. /\ PublishedAt(h, 1).current = [s \in {"series"} |-> ChargedInSeries(h, h.early, SyncTimes[1])]
      /\ PublishedAt(h, 1).changes = h.early
      /\ PublishedAt(h, 2).current = [s \in {"series"} |-> ChargedInSeries(h, h.early \cup h.late, SyncTimes[2])]
      /\ PublishedAt(h, 2).changes = h.early \cup h.late
    BY DEF PublishedAt
<1>3. Known(h, 1) = IF h.early = {} THEN Unrecorded(h) ELSE h.early
    <2>1. Known(h, 1) = WithUnrecorded([s \in {"series"} |-> ChargedInSeries(h, h.early, SyncTimes[1])], h.early)
        BY <1>2 DEF Known
    <2>2. h.early \subseteq h.early \cup h.late
        OBVIOUS
    <2> QED BY <1>1, <2>1, <2>2
<1>4. Known(h, 2) = IF h.early \cup h.late = {} THEN Unrecorded(h) ELSE h.early \cup h.late
    <2>1. Known(h, 2) = WithUnrecorded([s \in {"series"} |-> ChargedInSeries(h, h.early \cup h.late, SyncTimes[2])],
                                       h.early \cup h.late)
        BY <1>2 DEF Known
    <2> QED BY <1>1, <2>1
<1> QED BY <1>3, <1>4

\* All changes that either sync knows of.
All(h) == Known(h, 1) \cup h.late

\* They are of the series, at times of their own, and referred to apart from each other and the overrides.
LEMMA AllChanges ==
    ASSUME NEW h, Orderly(h)
    PROVE  /\ \A c \in All(h) : c.series = "series" /\ c.at \in Int /\ c.fee \in Fee
           /\ Recorded(All(h))
           /\ \A c \in All(h), o \in h.overridden \cup h.then : c.id # o.id
           /\ Known(h, 2) \subseteq All(h) /\ h.late \subseteq Known(h, 2)
           /\ Known(h, 2) = h.late \/ Known(h, 2) = All(h)
           /\ Known(h, 1) \cap h.late = {}
<1>1. /\ BaseChange(h).series = "series" /\ BaseChange(h).at = UnrecordedFrom /\ BaseChange(h).fee = h.base
      /\ BaseChange(h).id = <<"unrecorded", "series">>
    BY DEF BaseChange
<1>2. /\ UnrecordedFrom \in Int /\ AccumulatorFrom \in Int /\ UnrecordedFrom < AccumulatorFrom
    BY FeesAssumption
<1>3. Known(h, 1) \subseteq {BaseChange(h)} \/ Known(h, 1) = h.early
    BY KnownChanges DEF Unrecorded
<1>4. \A c \in All(h) : c \in h.early \cup h.late \/ c = BaseChange(h)
    BY <1>3 DEF All
<1>5. /\ \A c \in All(h) : c.series = "series" /\ c.at \in Int /\ c.fee \in Fee
      /\ \A c \in All(h), o \in h.overridden \cup h.then : c.id # o.id
    BY <1>1, <1>2, <1>4 DEF Orderly
<1>6. Recorded(All(h))
    <2>1. CASE Known(h, 1) = h.early
        BY <2>1 DEF All, Orderly
    <2>2. CASE Known(h, 1) \subseteq {BaseChange(h)}
        <3>1. \A c \in h.late : c.at \in Int /\ c.at # UnrecordedFrom /\ c.id # BaseChange(h).id
            BY <1>1, <1>2 DEF Orderly
        <3>2. Recorded(h.late)
            BY DEF Orderly, Recorded
        <3> QED BY <1>1, <2>2, <3>1, <3>2 DEF All, Recorded
    <2> QED BY <1>3, <2>1, <2>2
<1>7. Known(h, 1) \cap h.late = {}
    <2>1. \A c \in h.late : c # BaseChange(h)
        BY <1>1, <1>2 DEF Orderly
    <2>2. h.early \cap h.late = {}
        BY DEF Orderly, After
    <2> QED BY <1>3, <2>1, <2>2
<1>8. Known(h, 2) \subseteq All(h) /\ h.late \subseteq Known(h, 2) /\ (Known(h, 2) = h.late \/ Known(h, 2) = All(h))
    <2>1. CASE h.early = {}
        BY <2>1, KnownChanges DEF All
    <2>2. CASE h.early # {}
        BY <2>2, KnownChanges DEF All
    <2> QED BY <2>1, <2>2
<1> QED BY <1>5, <1>6, <1>7, <1>8

\* The row a sync makes of a change.
SeriesRow(c) == ScheduleRow(Series, c, c.fee)

\* A change's row.
LEMMA SeriesRowIs ==
    ASSUME NEW c, c.at \in Int, c.fee \in Fee
    PROVE  KalshiRow(SeriesRow(c)) /\ SeriesRow(c).target = Series /\ SeriesRow(c).from = c.at /\ SeriesRow(c).fee = c.fee
           /\ SeriesRow(c).definition = Definition(c.fee, c.at)
BY DefinitionOf DEF SeriesRow, ScheduleRow, KalshiRow, Definition

\* The rows of changes are the series'.
LEMMA SeriesRowsOf ==
    ASSUME NEW h, Orderly(h), NEW C, C \subseteq All(h)
    PROVE  RowsOf(Series, {SeriesRow(c) : c \in C})
<1>1. \A c \in C : c.at \in Int /\ c.fee \in Fee
    BY AllChanges
<1>2. \A c, d \in C : c.at = d.at => c = d
    BY AllChanges DEF Recorded
<1> QED BY <1>1, <1>2, SeriesRowIs DEF RowsOf

\* The series' fee at a time, by the changes a sync knows of, is a fee.
LEMMA StandingIsFee ==
    ASSUME NEW C, \A c \in C : c.at \in Int /\ c.fee \in Fee, NEW t \in Int
    PROVE  SeriesAt(C, "series", t) \in Fee
<1> DEFINE past == {c \in C : c.series = "series" /\ c.at <= t}
<1>1. CASE past = {}
    BY <1>1, FeesAssumption DEF SeriesAt
<1>2. CASE past # {}
    <2>1. \A c \in past : c.at \in Int /\ c.at <= t
        OBVIOUS
    <2>2. Newest(past) \in past
        <3> HIDE DEF past
        <3> QED BY <1>2, <2>1, NewestOf
    <2>3. SeriesAt(C, "series", t) = Newest(past).fee
        BY <1>2 DEF SeriesAt
    <2> QED BY <2>2, <2>3
<1> QED BY <1>1, <1>2

\* An override that leaves out both parts.
Lifts(o) == o.type = Unset /\ o.multiplier = Unset

\* An override's row: of no fee if it lifts the one before it, else of what it gives and its series' fee fills.
LEMMA EventRowIs ==
    ASSUME NEW h, Orderly(h), NEW o \in h.overridden \cup h.then, NEW C, C \subseteq All(h)
    PROVE  /\ KalshiRow(EventRow(C, o)) /\ EventRow(C, o).target = Event /\ EventRow(C, o).from = o.at
           /\ Lifts(o) => EventRow(C, o).definition = Unset /\ EventRow(C, o).ref = <<o.id>>
           /\ ~Lifts(o) => /\ EventRow(C, o) = ScheduleRow(Event, o, Filled(C, o)) /\ Filled(C, o) \in Fee
                           /\ EventRow(C, o).fee = Filled(C, o)
                           /\ EventRow(C, o).definition = Definition(Filled(C, o), o.at)
<1>1. o.event = "event" /\ o.series = "series" /\ o.at \in Int
      /\ o.type \in FeeTypes \cup {Unset} /\ o.multiplier \in Multipliers \cup {Unset}
    BY DEF Orderly
<1>2. SeriesAt(C, "series", o.at) \in Fee
    BY <1>1, StandingIsFee, AllChanges
<1>3. Filled(C, o) \in Fee
    BY <1>1, <1>2 DEF Filled, Fee
<1>4. CASE Lifts(o)
    BY <1>1, <1>4 DEF EventRow, KalshiRow, Lifts, Event
<1>5. CASE ~Lifts(o)
    <2>1. EventRow(C, o) = ScheduleRow(Event, o, Filled(C, o))
        BY <1>1, <1>5 DEF EventRow, Lifts, Event
    <2> QED BY <1>1, <1>3, <1>5, <2>1, DefinitionOf DEF ScheduleRow, KalshiRow, Definition
<1> QED BY <1>4, <1>5

\* The rows of the overrides listed at a sync.
EventBase(h, n) == {EventRow(Known(h, n), o) : o \in PublishedAt(h, n).overrides}

\* A sync makes the rows of the series of the changes it knows, and the rows of the event of the overrides listed.
LEMMA OneTargetEach ==
    ASSUME NEW h, Orderly(h), NEW n \in 1..2
    PROVE  LET made == KalshiSchedules(PublishedAt(h, n)) IN
           /\ At(made, Series) = WithRoundingCutover({SeriesRow(c) : c \in Known(h, n)})
           /\ At(made, Event) = WithRoundingCutover(EventBase(h, n))
           /\ \A r \in made : r.target \in {Series, Event}
<1> DEFINE C == Known(h, n)
           O == PublishedAt(h, n).overrides
           ofSeries == WithRoundingCutover({SeriesRow(c) : c \in C})
           ofEvent  == WithRoundingCutover({EventRow(C, o) : o \in O})
<1>1. C \subseteq All(h) /\ O \subseteq h.overridden \cup h.then
    <2>1. C \subseteq All(h)
        <3>1. Known(h, 1) \subseteq All(h) /\ Known(h, 2) \subseteq All(h)
            BY AllChanges DEF All
        <3>2. n = 1 \/ n = 2
            OBVIOUS
        <3> QED BY <3>1, <3>2
    <2>2. O \subseteq h.overridden \cup h.then
        BY DEF PublishedAt, StillListedAt
    <2> QED BY <2>1, <2>2
<1>2. \A c \in C : c.series = "series"
    BY <1>1, AllChanges
<1>3. \A o \in O : o.event = "event"
    BY <1>1 DEF Orderly
<1>4. WithRoundingCutover({}) = {}
    BY DEF WithRoundingCutover
<1>5. UNION {SeriesRows(C, s) : s \in {c.series : c \in C}} = ofSeries
    <2>1. SeriesRows(C, "series") = ofSeries
        <3>1. {d \in C : d.series = "series"} = C
            BY <1>2
        <3> HIDE DEF C
        <3> QED BY <3>1 DEF SeriesRows, SeriesRow, Series
    <2>2. CASE C = {}
        <3> HIDE DEF C
        <3> QED BY <2>2, <1>4
    <2>3. CASE C # {}
        <3>1. {c.series : c \in C} = {"series"}
            <4> HIDE DEF C
            <4> QED BY <2>3, <1>2
        <3> HIDE DEF C, ofSeries
        <3> QED BY <3>1, <2>1
    <2> QED BY <2>2, <2>3
<1>6. UNION {EventRows(C, O, e) : e \in {o.event : o \in O}} = ofEvent
    <2>1. EventRows(C, O, "event") = ofEvent
        <3>1. {d \in O : d.event = "event"} = O
            BY <1>3
        <3> HIDE DEF C, O
        <3> QED BY <3>1 DEF EventRows
    <2>2. CASE O = {}
        <3> HIDE DEF C, O
        <3> QED BY <2>2, <1>4
    <2>3. CASE O # {}
        <3>1. {o.event : o \in O} = {"event"}
            <4> HIDE DEF O
            <4> QED BY <2>3, <1>3
        <3> HIDE DEF C, O, ofEvent
        <3> QED BY <3>1, <2>1
    <2> QED BY <2>2, <2>3
<1>7. KalshiSchedules(PublishedAt(h, n)) = ofSeries \cup ofEvent
    <2>1. KalshiSchedules(PublishedAt(h, n)) =
              (UNION {SeriesRows(C, s) : s \in {c.series : c \in C}}) \cup (UNION {EventRows(C, O, e) : e \in {o.event : o \in O}})
        BY DEF KalshiSchedules, Known
    <2> HIDE DEF C, O, ofSeries, ofEvent
    <2> QED BY <2>1, <1>5, <1>6
<1>8. \A r \in ofSeries : r.target = Series
    <2>1. RowsOf(Series, {SeriesRow(c) : c \in C})
        BY <1>1, SeriesRowsOf
    <2> HIDE DEF C
    <2> QED BY <2>1, CutoverStays
<1>9. \A r \in ofEvent : r.target = Event
    <2>1. RowsOf(Event, {EventRow(C, o) : o \in O})
        <3>1. \A o \in O : KalshiRow(EventRow(C, o)) /\ EventRow(C, o).target = Event /\ EventRow(C, o).from = o.at
            <4> HIDE DEF C, O
            <4> QED BY <1>1, EventRowIs
        <3>2. \A o, p \in O : o.at = p.at => o = p
            BY <1>1 DEF Orderly, Recorded
        <3> HIDE DEF C, O
        <3> QED BY <3>1, <3>2 DEF RowsOf
    <2> HIDE DEF C, O
    <2> QED BY <2>1, CutoverStays
<1>10. Series # Event
    BY DEF Series, Event
<1> HIDE DEF C, O, ofSeries, ofEvent
<1>11. /\ At(ofSeries \cup ofEvent, Series) = ofSeries
       /\ At(ofSeries \cup ofEvent, Event) = ofEvent
       /\ \A r \in ofSeries \cup ofEvent : r.target \in {Series, Event}
    BY <1>8, <1>9, <1>10 DEF At
<1>12. ofEvent = WithRoundingCutover(EventBase(h, n))
    BY DEF C, O, ofEvent, EventBase
<1> QED BY <1>7, <1>11, <1>12 DEF C, ofSeries

\* The references of the rows made of the change or override with an id.
Refers(ref, id) ==
    \/ ref = <<id>>
    \/ \E type \in FeeTypes : ref = <<id, "unsupported", type>>
    \/ ref = <<<<id>>, "accumulator">>

\* A reference is of one change or override.
LEMMA RefersToOne ==
    ASSUME NEW ref, NEW i, NEW j, Refers(ref, i), Refers(ref, j)
    PROVE  i = j
<1>1. ASSUME NEW x, NEW y, NEW u, NEW v, NEW w
      PROVE  /\ <<x>> # <<u, v>> /\ <<x>> # <<u, v, w>> /\ <<x, y>> # <<u, v, w>>
             /\ (<<x>> = <<u>> => x = u) /\ (<<x, y>> = <<u, v>> => x = u)
    <2>1. Len(<<x>>) = 1 /\ Len(<<u, v>>) = 2 /\ Len(<<u, v, w>>) = 3 /\ Len(<<x, y>>) = 2
        OBVIOUS
    <2> QED BY <2>1
<1>2. ASSUME NEW s, NEW t, <<i, "unsupported", s>> = <<j, "unsupported", t>> PROVE i = j
    BY <1>2
<1>3. CASE ref = <<i>>
    BY <1>1, <1>3 DEF Refers
<1>4. CASE \E type \in FeeTypes : ref = <<i, "unsupported", type>>
    BY <1>1, <1>2, <1>4 DEF Refers
<1>5. CASE ref = <<<<i>>, "accumulator">>
    BY <1>1, <1>5 DEF Refers
<1> QED BY <1>3, <1>4, <1>5 DEF Refers

\* The row made of a change refers to it, and so does the row that moves it to the new rounding.
LEMMA ScheduleRowRefers ==
    ASSUME NEW target, NEW c, NEW fee \in Fee
    PROVE  /\ Refers(ScheduleRow(target, c, fee).ref, c.id)
           /\ ScheduleRow(target, c, fee).definition # Unset =>
                  ScheduleRow(target, c, fee).ref = <<c.id>> /\ Refers(Moved(ScheduleRow(target, c, fee)).ref, c.id)
<1>1. fee.type \in FeeTypes
    BY DEF Fee
<1> QED BY <1>1 DEF ScheduleRow, Definition, Refers, Moved

\* What kalshi_schedules makes of changes refers to them.
LEMMA CutoverRefers ==
    ASSUME NEW target, NEW made, RowsOf(target, made), NEW Ids,
           \A r \in made : \E id \in Ids : Refers(r.ref, id) /\ (r.definition # Unset => r.ref = <<id>>)
    PROVE  \A r \in WithRoundingCutover(made) : \E id \in Ids : Refers(r.ref, id)
<1> SUFFICES ASSUME NEW r \in WithRoundingCutover(made) PROVE \E id \in Ids : Refers(r.ref, id)
    OBVIOUS
<1>1. CASE r \in made
    <2>1. PICK id \in Ids : Refers(r.ref, id)
        BY <1>1
    <2> QED BY <2>1
<1>2. CASE \E q \in made : Moves(made, q) /\ r = Moved(q)
    <2>1. PICK q \in made : Moves(made, q) /\ r = Moved(q)
        BY <1>2
    <2>2. PICK id \in Ids : q.definition # Unset => q.ref = <<id>>
        BY <2>1
    <2>3. r.ref = <<<<id>>, "accumulator">>
        BY <2>1, <2>2 DEF Moves, Moved
    <2> QED BY <2>3 DEF Refers
<1> QED BY <1>1, <1>2, CutoverAdds

\* What the syncs leave of a history.
Left(h) == Synced(Synced({}, KalshiSchedules(PublishedAt(h, 1))), KalshiSchedules(PublishedAt(h, 2)))

\* The first sync finds nothing.
LEMMA FirstSync == ASSUME NEW h PROVE Synced({}, KalshiSchedules(PublishedAt(h, 1))) = KalshiSchedules(PublishedAt(h, 1))
BY DEF Synced

\* The series' rows refer to the changes they are made of.
LEMMA SeriesRefers ==
    ASSUME NEW h, Orderly(h), NEW C, C \subseteq All(h)
    PROVE  \A r \in WithRoundingCutover({SeriesRow(c) : c \in C}) : \E id \in {c.id : c \in C} : Refers(r.ref, id)
<1> DEFINE made == {SeriesRow(c) : c \in C}
           Ids  == {c.id : c \in C}
<1>1. RowsOf(Series, made)
    BY SeriesRowsOf
<1>2. \A r \in made : \E id \in Ids : Refers(r.ref, id) /\ (r.definition # Unset => r.ref = <<id>>)
    <2> SUFFICES ASSUME NEW c \in C
                 PROVE  Refers(SeriesRow(c).ref, c.id) /\ (SeriesRow(c).definition # Unset => SeriesRow(c).ref = <<c.id>>)
        OBVIOUS
    <2>1. c.fee \in Fee
        BY AllChanges
    <2> QED BY <2>1, ScheduleRowRefers DEF SeriesRow
<1> HIDE DEF made, Ids
<1>3. \A r \in WithRoundingCutover(made) : \E id \in Ids : Refers(r.ref, id)
    BY <1>1, <1>2, CutoverRefers
<1> QED BY <1>3 DEF made, Ids

\* The row made of an override refers to it.
LEMMA EventRowRefers ==
    ASSUME NEW h, Orderly(h), NEW o \in h.overridden \cup h.then, NEW C, C \subseteq All(h)
    PROVE  Refers(EventRow(C, o).ref, o.id) /\ (EventRow(C, o).definition # Unset => EventRow(C, o).ref = <<o.id>>)
<1>1. CASE Lifts(o)
    BY <1>1, EventRowIs DEF Refers
<1>2. CASE ~Lifts(o)
    BY <1>2, EventRowIs, ScheduleRowRefers
<1> QED BY <1>1, <1>2

\* The rows of overrides are the event's.
LEMMA EventRowsOf ==
    ASSUME NEW h, Orderly(h), NEW O, O \subseteq h.overridden \cup h.then, NEW C, C \subseteq All(h)
    PROVE  RowsOf(Event, {EventRow(C, o) : o \in O})
<1>1. \A o \in O : KalshiRow(EventRow(C, o)) /\ EventRow(C, o).target = Event /\ EventRow(C, o).from = o.at
    BY EventRowIs
<1>2. \A o, p \in O : o.at = p.at => o = p
    BY DEF Orderly, Recorded
<1> QED BY <1>1, <1>2 DEF RowsOf

\* The event's rows refer to the overrides they are made of.
LEMMA EventRefers ==
    ASSUME NEW h, Orderly(h), NEW O, O \subseteq h.overridden \cup h.then, NEW C, C \subseteq All(h)
    PROVE  \A r \in WithRoundingCutover({EventRow(C, o) : o \in O}) : \E id \in {o.id : o \in O} : Refers(r.ref, id)
<1> DEFINE made == {EventRow(C, o) : o \in O}
           Ids  == {o.id : o \in O}
<1>1. RowsOf(Event, made)
    BY EventRowsOf
<1>2. \A r \in made : \E id \in Ids : Refers(r.ref, id) /\ (r.definition # Unset => r.ref = <<id>>)
    BY EventRowRefers
<1> HIDE DEF made, Ids
<1>3. \A r \in WithRoundingCutover(made) : \E id \in Ids : Refers(r.ref, id)
    BY <1>1, <1>2, CutoverRefers
<1> QED BY <1>3 DEF made, Ids

\* The first sync's rows refer to what it knew.
LEMMA FirstRefers ==
    ASSUME NEW h, Orderly(h), NEW r \in KalshiSchedules(PublishedAt(h, 1)), NEW id, Refers(r.ref, id)
    PROVE  id \in {c.id : c \in Known(h, 1)} \cup {o.id : o \in h.overridden}
<1> DEFINE C == Known(h, 1)
           O == PublishedAt(h, 1).overrides
<1>1. C \subseteq All(h)
    BY DEF All
<1>2. O \subseteq h.overridden
    BY DEF PublishedAt, StillListedAt
<1>3. r \in WithRoundingCutover({SeriesRow(c) : c \in C}) \/ r \in WithRoundingCutover({EventRow(C, o) : o \in O})
    <2>1. 1 \in 1..2
        OBVIOUS
    <2>2. LET made == KalshiSchedules(PublishedAt(h, 1)) IN
          /\ At(made, Series) = WithRoundingCutover({SeriesRow(c) : c \in C})
          /\ At(made, Event) = WithRoundingCutover({EventRow(C, o) : o \in O})
          /\ \A q \in made : q.target \in {Series, Event}
        BY <2>1, OneTargetEach DEF EventBase
    <2> HIDE DEF C, O
    <2> QED BY <2>2 DEF At
<1> HIDE DEF C, O
<1>4. \E i \in {c.id : c \in C} \cup {o.id : o \in O} : Refers(r.ref, i)
    <2>1. O \subseteq h.overridden \cup h.then
        BY <1>2
    <2> QED BY <1>1, <1>3, <2>1, SeriesRefers, EventRefers
<1>5. id \in {c.id : c \in C} \cup {o.id : o \in O}
    BY <1>4, RefersToOne
<1> QED BY <1>2, <1>5 DEF C

\* The series' rows that are left are those of all changes either sync knew of.
LEMMA SeriesLeft ==
    ASSUME NEW h, Orderly(h)
    PROVE  At(Left(h), Series) = WithRoundingCutover({SeriesRow(c) : c \in All(h)})
<1> DEFINE K1 == KalshiSchedules(PublishedAt(h, 1))
           K2 == KalshiSchedules(PublishedAt(h, 2))
           first == {SeriesRow(c) : c \in Known(h, 1)}
           second == {SeriesRow(c) : c \in Known(h, 2)}
           new == {SeriesRow(c) : c \in h.late}
           added == WithRoundingCutover(second)
<1>1. first \cup new = {SeriesRow(c) : c \in All(h)}
    BY DEF All
<1>2. RowsOf(Series, first \cup new) /\ RowsOf(Series, first) /\ RowsOf(Series, second)
    <2>1. Known(h, 1) \subseteq All(h) /\ Known(h, 2) \subseteq All(h)
        BY AllChanges DEF All
    <2> HIDE DEF first, new, second
    <2>2. RowsOf(Series, first \cup new)
        BY <1>1, SeriesRowsOf
    <2>3. RowsOf(Series, first) /\ RowsOf(Series, second)
        BY <2>1, SeriesRowsOf DEF first, second
    <2> QED BY <2>2, <2>3
<1>3. At(K1, Series) = WithRoundingCutover(first) /\ At(K2, Series) = added
    <2>1. 1 \in 1..2 /\ 2 \in 1..2
        OBVIOUS
    <2> QED BY <2>1, OneTargetEach DEF At
<1>4. \A c \in h.late : /\ SeriesRow(c).from = c.at /\ c.at > AccumulatorFrom
                         /\ Refers(SeriesRow(c).ref, c.id)
    <2> SUFFICES ASSUME NEW c \in h.late
                 PROVE  SeriesRow(c).from = c.at /\ c.at > AccumulatorFrom /\ Refers(SeriesRow(c).ref, c.id)
        OBVIOUS
    <2>1. c \in All(h) /\ c.at \in Int /\ c.fee \in Fee /\ c.at > AccumulatorFrom
        BY AllChanges DEF All, Orderly
    <2> QED BY <2>1, SeriesRowIs, ScheduleRowRefers DEF SeriesRow
<1>5. \A r \in new : r.from > AccumulatorFrom
    BY <1>4
<1>6. new \subseteq second /\ second \subseteq first \cup new
    BY <1>1, AllChanges
<1>7. added = second \cup {Moved(r) : r \in {q \in second : Moves(second, q)}}
    BY <1>2, CutoverAdds
<1>8. WithRoundingCutover(first) = first \cup {Moved(r) : r \in {q \in first : Moves(first, q)}}
    BY <1>2, CutoverAdds
<1>9. \A r \in new : r.ref \notin Refs(K1)
    <2> SUFFICES ASSUME NEW c \in h.late, NEW q \in K1, q.ref = SeriesRow(c).ref PROVE FALSE
        BY DEF Refs
    <2>1. Refers(q.ref, c.id)
        BY <1>4
    <2>2. c.id \in {d.id : d \in Known(h, 1)} \cup {o.id : o \in h.overridden}
        BY <2>1, FirstRefers
    <2>3. c \in All(h) /\ Known(h, 1) \subseteq All(h)
        BY DEF All
    <2>4. PICK d \in Known(h, 1) : d.id = c.id
        BY <2>2, <2>3, AllChanges
    <2>5. d = c
        BY <2>3, <2>4, AllChanges DEF Recorded
    <2> QED BY <2>4, <2>5, AllChanges
<1>10. second = new \/ second = first \cup new
    BY <1>1, AllChanges
<1>11. \A r \in added : r \in new \/ r \in WithRoundingCutover(first)
    <2> SUFFICES ASSUME NEW r \in added, r \notin new PROVE r \in WithRoundingCutover(first)
        OBVIOUS
    <2>1. CASE r \in second
        <3> HIDE DEF first, second, new, added
        <3> QED BY <2>1, <1>6, <1>8
    <2>2. CASE \E q \in second : Moves(second, q) /\ r = Moved(q)
        <3>1. PICK q \in second : Moves(second, q) /\ r = Moved(q)
            BY <2>2
        <3>2. q \notin new
            <4>1. \A n \in new : n.from \in Int /\ AccumulatorFrom \in Int
                BY <1>2, FeesAssumption DEF RowsOf, KalshiRow
            <4> HIDE DEF first, second, new, added
            <4> QED BY <3>1, <1>5, <4>1 DEF Moves
        <3>3. Moves(first, q)
            <4> HIDE DEF first, second, new, added
            <4> QED BY <3>1, <3>2, <1>10 DEF Moves
        <3> HIDE DEF first, second, new, added
        <3> QED BY <3>1, <3>3, <1>8 DEF Moves
    <2> HIDE DEF first, second, new, added
    <2> QED BY <2>1, <2>2, <1>7
<1>12. \A r \in added : r.target = Series
    BY <1>3 DEF At
<1>13. new \subseteq added
    <2> HIDE DEF first, second, new, added
    <2> QED BY <1>6, <1>7
<1>14. \A r \in added : r \in new \/ r.ref \in Refs(K1)
    <2> SUFFICES ASSUME NEW r \in added, r \notin new PROVE r.ref \in Refs(K1)
        OBVIOUS
    <2>1. r \in K1
        BY <1>3, <1>11 DEF At
    <2> QED BY <2>1 DEF Refs
<1>15. Left(h) = Synced(K1, K2)
    BY FirstSync DEF Left
<1> HIDE DEF first, second, new, added, K1, K2
<1>16. At(Synced(K1, K2), Series) = WithRoundingCutover(first \cup new)
    <2>1. Adds(Series, first, new, K1, K2)
        BY <1>2, <1>3, <1>5, <1>9, <1>13, <1>14 DEF Adds
    <2> QED BY <2>1, SecondSync
<1> QED BY <1>1, <1>15, <1>16

\* What either sync makes of an override known to the first is one reference: the series' fee when the
\* override began is the same, or a type that a definition expresses in both.
LEMMA StandingSame ==
    ASSUME NEW h, Orderly(h), NEW o \in h.overridden
    PROVE  LET a == SeriesAt(Known(h, 1), "series", o.at)
               b == SeriesAt(Known(h, 2), "series", o.at)
           IN  a = b \/ (a.type \in Expressible /\ b.type \in Expressible)
<1>1. o.at \in Int /\ \A c \in h.late : c.at \in Int /\ c.at > o.at
    BY DEF Orderly, After
<1>2. CASE Known(h, 2) = All(h)
    <2>1. {c \in Known(h, 1) : c.series = "series" /\ c.at <= o.at} = {c \in Known(h, 2) : c.series = "series" /\ c.at <= o.at}
        BY <1>1, <1>2 DEF All
    <2> QED BY <2>1 DEF SeriesAt
<1>3. CASE Known(h, 2) = h.late /\ Known(h, 2) # All(h)
    <2>1. {c \in Known(h, 2) : c.series = "series" /\ c.at <= o.at} = {}
        BY <1>1, <1>3
    <2>2. SeriesAt(Known(h, 2), "series", o.at) = DefaultFee
        BY <2>1 DEF SeriesAt
    <2>3. h.early = {} /\ Known(h, 1) = {BaseChange(h)} /\ h.late # {} /\ h.base # DefaultFee
        BY <1>3, KnownChanges DEF All, Unrecorded
    <2>4. h.base.type \in Expressible /\ DefaultFee.type \in Expressible
        BY <2>3, FeesAssumption DEF Orderly
    <2>5. SeriesAt(Known(h, 1), "series", o.at) \in {DefaultFee, h.base}
        <3> DEFINE past == {c \in Known(h, 1) : c.series = "series" /\ c.at <= o.at}
        <3>1. CASE past = {}
            BY <3>1 DEF SeriesAt
        <3>2. CASE past # {}
            <4>1. past = {BaseChange(h)}
                BY <3>2, <2>3
            <4>2. Newest({BaseChange(h)}) = BaseChange(h)
                <5>1. BaseChange(h).at \in Int
                    BY FeesAssumption DEF BaseChange
                <5>2. {BaseChange(h)} # {} /\ \A c \in {BaseChange(h)} : c.at \in Int /\ c.at <= BaseChange(h).at
                    BY <5>1
                <5>3. Newest({BaseChange(h)}) \in {BaseChange(h)}
                    BY <5>1, <5>2, NewestOf
                <5> QED BY <5>3
            <4>3. SeriesAt(Known(h, 1), "series", o.at) = Newest(past).fee
                BY <3>2 DEF SeriesAt
            <4>4. BaseChange(h).fee = h.base
                BY DEF BaseChange
            <4> QED BY <4>1, <4>2, <4>3, <4>4
        <3> QED BY <3>1, <3>2
    <2> QED BY <2>2, <2>4, <2>5
<1> QED BY <1>2, <1>3, AllChanges

\* So both syncs refer to it alike, and neither or both give it a definition.
LEMMA SameReference ==
    ASSUME NEW h, Orderly(h), NEW o \in h.overridden
    PROVE  /\ EventRow(Known(h, 1), o).ref = EventRow(Known(h, 2), o).ref
           /\ EventRow(Known(h, 1), o).definition = Unset <=> EventRow(Known(h, 2), o).definition = Unset
<1> DEFINE f1 == Filled(Known(h, 1), o)
           f2 == Filled(Known(h, 2), o)
<1>1. Known(h, 1) \subseteq All(h) /\ Known(h, 2) \subseteq All(h)
    BY AllChanges DEF All
<1>2. CASE Lifts(o)
    BY <1>1, <1>2, EventRowIs
<1>3. CASE ~Lifts(o)
    <2>1. /\ EventRow(Known(h, 1), o) = ScheduleRow(Event, o, f1) /\ f1 \in Fee
          /\ EventRow(Known(h, 2), o) = ScheduleRow(Event, o, f2) /\ f2 \in Fee
        BY <1>1, <1>3, EventRowIs
    <2>2. f1.type = f2.type \/ (f1.type \in Expressible /\ f2.type \in Expressible)
        <3>1. o.series = "series"
            BY DEF Orderly
        <3>2. /\ f1.type = IF o.type # Unset THEN o.type ELSE SeriesAt(Known(h, 1), "series", o.at).type
              /\ f2.type = IF o.type # Unset THEN o.type ELSE SeriesAt(Known(h, 2), "series", o.at).type
            BY <3>1 DEF Filled
        <3> HIDE DEF f1, f2
        <3> QED BY <3>2, StandingSame
    <2> HIDE DEF f1, f2
    <2>3. /\ ScheduleRow(Event, o, f1).ref = ScheduleRow(Event, o, f2).ref
          /\ ScheduleRow(Event, o, f1).definition = Unset <=> f1.type \notin Expressible
          /\ ScheduleRow(Event, o, f2).definition = Unset <=> f2.type \notin Expressible
        <3>1. ScheduleRow(Event, o, f1).ref = ScheduleRow(Event, o, f2).ref
            BY <2>2 DEF ScheduleRow
        <3>2. /\ ScheduleRow(Event, o, f1).definition = Definition(f1, o.at)
              /\ ScheduleRow(Event, o, f2).definition = Definition(f2, o.at)
            BY DEF ScheduleRow
        <3>3. \A f \in Fee : Definition(f, o.at) = Unset <=> f.type \notin Expressible
            BY DefinitionOf DEF Definition
        <3> QED BY <2>1, <3>1, <3>2, <3>3
    <2> QED BY <2>1, <2>2, <2>3
<1> QED BY <1>2, <1>3

\* The overrides listed at the first sync.
Listed(h) == StillListedAt(h, h.overridden, SyncTimes[1])

\* What is listed at the two syncs.
LEMMA ListedAtSyncs ==
    ASSUME NEW h, Orderly(h), NEW O, O = PublishedAt(h, 2).overrides
    PROVE  /\ PublishedAt(h, 1).overrides = Listed(h) /\ Listed(h) \subseteq h.overridden
           /\ h.then \subseteq O /\ O \subseteq Listed(h) \cup h.then
           /\ \A o \in O, p \in h.overridden : o.at < p.at /\ p.at <= SyncTimes[1] => ~h.forgets
<1>1. SyncTimes[1] \in Int /\ SyncTimes[2] \in Int /\ SyncTimes[1] < SyncTimes[2]
    BY HistoriesAssumption
<1>2. PublishedAt(h, 1).overrides = Listed(h) /\ Listed(h) \subseteq h.overridden
    BY DEF PublishedAt, Listed, StillListedAt
<1>3. O = {o \in h.overridden \cup h.then :
              ~(h.forgets /\ \E p \in h.overridden \cup h.then : o.at < p.at /\ p.at <= SyncTimes[2])}
    BY DEF PublishedAt, StillListedAt
<1>4. Listed(h) = {o \in h.overridden : ~(h.forgets /\ \E p \in h.overridden : o.at < p.at /\ p.at <= SyncTimes[1])}
    BY DEF Listed, StillListedAt
<1>5. \A p \in h.overridden \cup h.then : p.at \in Int
    BY DEF Orderly
<1>6. h.then \subseteq O
    <2>1. h.forgets => h.then \subseteq StillListedAt(h, h.overridden \cup h.then, SyncTimes[2])
        BY DEF Orderly
    <2> QED BY <1>3, <2>1 DEF StillListedAt
<1>7. \A p \in h.overridden : p.at <= SyncTimes[1] => p.at <= SyncTimes[2]
    BY <1>1, <1>5
<1> QED BY <1>2, <1>3, <1>4, <1>6, <1>7

\* The sync that first sees an override, and the row it makes of it.
FirstSeen(h, o) == IF o \in h.then THEN 2 ELSE 1
FirstRow(h, o) == EventRow(Known(h, FirstSeen(h, o)), o)

\* The event's rows that are left are those of the overrides that the first sync saw and of those that
\* the second was first to see.
LEMMA EventLeft ==
    ASSUME NEW h, Orderly(h)
    PROVE  /\ RowsOf(Event, {FirstRow(h, o) : o \in Listed(h) \cup h.then})
           /\ At(Left(h), Event) = WithRoundingCutover({FirstRow(h, o) : o \in Listed(h) \cup h.then})
<1> DEFINE K1 == KalshiSchedules(PublishedAt(h, 1))
           K2 == KalshiSchedules(PublishedAt(h, 2))
           O  == PublishedAt(h, 2).overrides
           first == {EventRow(Known(h, 1), o) : o \in Listed(h)}
           second == {EventRow(Known(h, 2), o) : o \in O}
           new == {EventRow(Known(h, 2), o) : o \in h.then}
<1>1. Known(h, 1) \subseteq All(h) /\ Known(h, 2) \subseteq All(h)
    BY AllChanges DEF All
<1>2. /\ Listed(h) \subseteq h.overridden /\ h.then \subseteq O /\ O \subseteq Listed(h) \cup h.then
      /\ PublishedAt(h, 1).overrides = Listed(h)
      /\ \A o \in O, p \in h.overridden : o.at < p.at /\ p.at <= SyncTimes[1] => ~h.forgets
    BY ListedAtSyncs
<1>3. \A o \in h.overridden : o \notin h.then
    BY DEF Orderly, After
<1>4. {FirstRow(h, o) : o \in Listed(h) \cup h.then} = first \cup new
    BY <1>2, <1>3 DEF FirstRow, FirstSeen
<1>5. RowsOf(Event, first \cup new)
    <2>1. \A o \in Listed(h) \cup h.then : /\ KalshiRow(FirstRow(h, o)) /\ FirstRow(h, o).target = Event
                                           /\ FirstRow(h, o).from = o.at
        BY <1>1, <1>2, EventRowIs DEF FirstRow, FirstSeen
    <2>2. \A o, p \in Listed(h) \cup h.then : o.at = p.at => o = p
        BY <1>2 DEF Orderly, Recorded
    <2>3. RowsOf(Event, {FirstRow(h, o) : o \in Listed(h) \cup h.then})
        BY <2>1, <2>2 DEF RowsOf
    <2> HIDE DEF first, new
    <2> QED BY <2>3, <1>4
<1>6. RowsOf(Event, first) /\ RowsOf(Event, second)
    <2>1. O \subseteq h.overridden \cup h.then /\ Listed(h) \subseteq h.overridden \cup h.then
        BY <1>2
    <2> HIDE DEF O
    <2> QED BY <1>1, <2>1, EventRowsOf
<1>7. At(K1, Event) = WithRoundingCutover(first) /\ At(K2, Event) = WithRoundingCutover(second)
    <2>1. 1 \in 1..2 /\ 2 \in 1..2
        OBVIOUS
    <2>2. At(K1, Event) = WithRoundingCutover(EventBase(h, 1)) /\ At(K2, Event) = WithRoundingCutover(EventBase(h, 2))
        BY <2>1, OneTargetEach
    <2>3. EventBase(h, 1) = first /\ EventBase(h, 2) = second
        BY <1>2 DEF EventBase
    <2> HIDE DEF K1, K2, first, second
    <2> QED BY <2>2, <2>3
<1>8. \A o \in h.then : EventRow(Known(h, 2), o).from > AccumulatorFrom /\ Refers(EventRow(Known(h, 2), o).ref, o.id)
    <2> SUFFICES ASSUME NEW o \in h.then
                 PROVE  EventRow(Known(h, 2), o).from > AccumulatorFrom /\ Refers(EventRow(Known(h, 2), o).ref, o.id)
        OBVIOUS
    <2>1. o.at > AccumulatorFrom
        BY DEF Orderly
    <2> QED BY <1>1, <2>1, EventRowIs, EventRowRefers
<1>9. \A r \in new : r.ref \notin Refs(K1)
    <2> SUFFICES ASSUME NEW o \in h.then, NEW q \in K1, q.ref = EventRow(Known(h, 2), o).ref PROVE FALSE
        BY DEF Refs
    <2>1. Refers(q.ref, o.id)
        BY <1>8
    <2>2. o.id \in {d.id : d \in Known(h, 1)} \cup {p.id : p \in h.overridden}
        BY <2>1, FirstRefers
    <2>3. \A d \in Known(h, 1) : d.id # o.id
        BY <1>1, AllChanges
    <2>4. PICK p \in h.overridden : p.id = o.id
        BY <2>2, <2>3
    <2>5. p = o
        BY <2>4 DEF Orderly, Recorded
    <2> QED BY <2>4, <2>5, <1>3
<1>10. WithRoundingCutover(first) = first \cup {Moved(r) : r \in {q \in first : Moves(first, q)}}
    BY <1>6, CutoverAdds
<1>11. WithRoundingCutover(second) = second \cup {Moved(r) : r \in {q \in second : Moves(second, q)}}
    BY <1>6, CutoverAdds
<1>12. ASSUME NEW r \in WithRoundingCutover(second), r \notin new PROVE r.ref \in Refs(K1)
    <2>1. CASE r \in second
        <3>1. PICK o \in O : r = EventRow(Known(h, 2), o)
            BY <2>1
        <3>2. o \in Listed(h)
            BY <1>2, <1>12, <3>1
        <3>3. r.ref = EventRow(Known(h, 1), o).ref
            BY <1>2, <3>1, <3>2, SameReference
        <3>4. EventRow(Known(h, 1), o) \in WithRoundingCutover(first)
            <4>1. EventRow(Known(h, 1), o) \in first
                BY <3>2
            <4> HIDE DEF first
            <4> QED BY <4>1, <1>10
        <3> QED BY <3>3, <3>4, <1>7 DEF At, Refs
    <2>2. CASE \E q \in second : Moves(second, q) /\ r = Moved(q)
        <3>1. PICK q \in second : Moves(second, q) /\ r = Moved(q)
            BY <2>2
        <3>2. PICK o \in O : q = EventRow(Known(h, 2), o)
            BY <3>1
        <3> DEFINE e == EventRow(Known(h, 1), o)
        <3>3. o \in h.overridden \cup h.then /\ q.from = o.at /\ o.at \in Int /\ o.at < AccumulatorFrom
            <4>1. o \in h.overridden \cup h.then
                BY <1>2
            <4>2. q.from = o.at
                BY <3>2, <4>1, <1>1, EventRowIs
            <4>3. o.at \in Int
                BY <4>1 DEF Orderly
            <4> QED BY <4>1, <4>2, <4>3, <3>1 DEF Moves
        <3>4. o \in Listed(h)
            BY <1>2, <3>3, FeesAssumption DEF Orderly
        <3>5. e \in first /\ e.from = o.at /\ e.ref = q.ref /\ e.definition # Unset
            <4>1. e.from = o.at
                BY <1>1, <3>3, EventRowIs
            <4>2. q.definition # Unset
                BY <3>1 DEF Moves
            <4>3. e.ref = q.ref /\ e.definition # Unset
                BY <1>2, <3>2, <3>4, <4>2, SameReference
            <4> QED BY <3>4, <4>1, <4>3
        <3>6. ASSUME NEW p \in Listed(h), p.at <= AccumulatorFrom PROVE p.at <= o.at
            <4>1. p.at \in Int /\ AccumulatorFrom \in Int /\ SyncTimes[1] \in Int /\ AccumulatorFrom <= SyncTimes[1]
                BY <1>2, FeesAssumption, HistoriesAssumption DEF Orderly
            <4>2. CASE p \in O
                <5>1. EventRow(Known(h, 2), p) \in second /\ EventRow(Known(h, 2), p).from = p.at
                    BY <4>2, <1>1, <1>2, EventRowIs
                <5>2. p.at # AccumulatorFrom
                    BY <5>1, <3>1 DEF Moves
                <5> QED BY <3>1, <3>3, <3>6, <4>1, <5>1, <5>2 DEF Moves
            <4>3. CASE p \notin O
                <5>1. h.forgets
                    BY <4>3, <1>2 DEF PublishedAt, StillListedAt
                <5> QED BY <5>1, <1>2, <3>3, <3>6, <4>1
            <4> QED BY <4>2, <4>3
        <3>7. Moves(first, e)
            <4>1. \A p \in Listed(h) : EventRow(Known(h, 1), p).from = p.at /\ p.at \in Int
                BY <1>1, <1>2, EventRowIs DEF Orderly
            <4>2. AccumulatorFrom \in Int
                BY FeesAssumption
            <4>3. \A d \in first : d.from < AccumulatorFrom => d.from <= e.from
                BY <3>5, <3>6, <4>1, <4>2
            <4>4. \A d \in first : d.from # AccumulatorFrom
                BY <3>3, <3>6, <4>1, <4>2
            <4> HIDE DEF first, e
            <4> QED BY <3>3, <3>5, <4>3, <4>4 DEF Moves
        <3>8. Moved(e) \in WithRoundingCutover(first)
            <4> HIDE DEF first, e
            <4> QED BY <3>7, <1>10 DEF Moves
        <3>9. Moved(e).ref = r.ref
            BY <3>1, <3>5 DEF Moved
        <3> QED BY <3>8, <3>9, <1>7 DEF At, Refs
    <2> HIDE DEF second
    <2> QED BY <2>1, <2>2, <1>11
<1>13. new \subseteq At(K2, Event)
    <2>1. new \subseteq second
        BY <1>2
    <2> HIDE DEF new, second, K2
    <2> QED BY <2>1, <1>7, <1>11
<1>14. Left(h) = Synced(K1, K2)
    BY FirstSync DEF Left
<1>15. \A r \in new : r.from > AccumulatorFrom
    BY <1>8
<1> HIDE DEF first, second, new, K1, K2
<1>16. At(Synced(K1, K2), Event) = WithRoundingCutover(first \cup new)
    <2>1. Adds(Event, first, new, K1, K2)
        BY <1>5, <1>7, <1>9, <1>12, <1>13, <1>15 DEF Adds
    <2> QED BY <2>1, SecondSync
<1> QED BY <1>4, <1>5, <1>14, <1>16

\* A change from later than the others is the newest.
LEMMA NewestIs ==
    ASSUME NEW C, NEW c \in C, \A d \in C : d.at \in Int /\ d.at <= c.at, \A d \in C : d.at = c.at => d = c
    PROVE  Newest(C) = c
<1>1. Newest(C) \in C /\ \A d \in C : d.at <= Newest(C).at
    BY NewestOf
<1> QED BY <1>1

\* The changes, and the rows, up to a time.
Past(C, t) == {c \in C : c.at <= t}
UpTo(made, t) == {r \in made : r.from <= t}

\* Rows, one of each change.
RowEach(C, row, made) ==
    /\ \A c \in C : row[c] \in made /\ row[c].from = c.at /\ c.at \in Int
    /\ \A r \in made : \E c \in C : r = row[c]
    /\ \A c, d \in C : c.at = d.at => c = d

\* The row of the newest change up to a time is the latest row up to then.
LEMMA LatestRow ==
    ASSUME NEW C, NEW row, NEW made, RowEach(C, row, made), NEW t \in Int
    PROVE  LET n == Newest(Past(C, t)) IN
           /\ Past(C, t) = {} <=> UpTo(made, t) = {}
           /\ Past(C, t) # {} => /\ n \in Past(C, t) /\ \A c \in Past(C, t) : c.at <= n.at
                                 /\ Latest(UpTo(made, t)) = row[n]
<1> DEFINE n == Newest(Past(C, t))
<1>1. Past(C, t) = {} <=> UpTo(made, t) = {}
    BY DEF Past, UpTo, RowEach
<1>2. ASSUME Past(C, t) # {}
      PROVE  n \in Past(C, t) /\ (\A c \in Past(C, t) : c.at <= n.at) /\ Latest(UpTo(made, t)) = row[n]
    <2>1. n \in Past(C, t) /\ \A c \in Past(C, t) : c.at <= n.at
        <3>1. \A c \in Past(C, t) : c.at \in Int /\ c.at <= t
            BY DEF Past, RowEach
        <3> QED BY <1>2, <3>1, NewestOf
    <2> HIDE DEF n
    <2>2. row[n] \in UpTo(made, t)
        BY <2>1 DEF Past, UpTo, RowEach
    <2>3. \A q \in UpTo(made, t) : q.from \in Int /\ q.from <= row[n].from /\ (q.from = row[n].from => q = row[n])
        <3> SUFFICES ASSUME NEW q \in UpTo(made, t)
                     PROVE  q.from \in Int /\ q.from <= row[n].from /\ (q.from = row[n].from => q = row[n])
            OBVIOUS
        <3>1. PICK c \in C : q = row[c]
            BY DEF UpTo, RowEach
        <3> QED BY <2>1, <3>1 DEF Past, UpTo, RowEach
    <2>4. Latest(UpTo(made, t)) = row[n]
        BY <2>2, <2>3, LatestIs
    <2> QED BY <2>1, <2>4
<1> QED BY <1>1, <1>2

\* The series' rows give what the series charged.
LEMMA SeriesTells ==
    ASSUME NEW h, Orderly(h), NEW t \in Int, t >= UnrecordedFrom
    PROVE  LET held == Held(Left(h), Series, t)
               fee  == ChargedInSeries(h, h.early \cup h.late, t)
           IN  /\ fee \in Fee
               /\ held = {} => fee = DefaultFee
               /\ held # {} => Latest(held).definition = IF fee.type \in Expressible THEN Definition(fee, t) ELSE Unset
<1> DEFINE held == Held(Left(h), Series, t)
           fee  == ChargedInSeries(h, h.early \cup h.late, t)
           made == {SeriesRow(c) : c \in All(h)}
           past == Past(All(h), t)
           announced == Past(h.early \cup h.late, t)
           n    == Newest(past)
<1>1. \A c \in All(h) : c.at \in Int /\ c.fee \in Fee
    BY AllChanges
<1>2. \A c, d \in All(h) : c.at = d.at => c = d
    BY AllChanges DEF Recorded
<1>3. \A c \in All(h) : SeriesRow(c).from = c.at /\ SeriesRow(c).definition = Definition(c.fee, c.at) /\ SeriesRow(c).fee = c.fee
    BY <1>1, SeriesRowIs
<1>4. /\ past = {} <=> UpTo(made, t) = {}
      /\ past # {} => /\ n \in past /\ (\A c \in past : c.at <= n.at)
                      /\ Latest(UpTo(made, t)) = SeriesRow(n)
    <2> DEFINE row == [c \in All(h) |-> SeriesRow(c)]
    <2>1. \A c \in All(h) : row[c] = SeriesRow(c)
        OBVIOUS
    <2>2. (\A c \in All(h) : row[c] \in made) /\ \A r \in made : \E c \in All(h) : r = row[c]
        BY <2>1
    <2> HIDE DEF row, made
    <2>3. \A c \in All(h) : row[c].from = c.at /\ c.at \in Int
        BY <1>1, <1>3, <2>1
    <2>4. RowEach(All(h), row, made)
        BY <1>2, <2>2, <2>3 DEF RowEach
    <2>5. /\ Past(All(h), t) = {} <=> UpTo(made, t) = {}
          /\ Past(All(h), t) # {} => /\ Newest(Past(All(h), t)) \in Past(All(h), t)
                                     /\ \A c \in Past(All(h), t) : c.at <= Newest(Past(All(h), t)).at
                                     /\ Latest(UpTo(made, t)) = row[Newest(Past(All(h), t))]
        BY <2>4, LatestRow
    <2>6. past # {} => row[n] = SeriesRow(n)
        BY <2>1, <2>5 DEF Past
    <2> QED BY <2>5, <2>6
<1>5. RowsOf(Series, made) /\ At(Left(h), Series) = WithRoundingCutover(made)
    BY SeriesRowsOf, SeriesLeft
<1>6. /\ UpTo(made, t) = {} => held = {}
      /\ UpTo(made, t) # {} =>
             /\ held # {}
             /\ Latest(held).definition =
                    IF Latest(UpTo(made, t)).definition = Unset THEN Unset
                    ELSE Definition(Latest(UpTo(made, t)).fee, t)
    <2> HIDE DEF made
    <2> QED BY <1>5, CutoverTells DEF UpTo
<1>7. fee = IF announced = {} THEN h.base ELSE Newest(announced).fee
    BY DEF ChargedInSeries, Past
<1>8. h.base \in Fee /\ DefaultFee \in Fee
    BY FeesAssumption DEF Orderly
<1>9. /\ h.early \cup h.late \subseteq All(h) \/ (h.base # DefaultFee /\ h.early = {})
      /\ h.early # {} => Known(h, 1) = h.early
      /\ h.early = {} => Known(h, 1) = Unrecorded(h)
    BY KnownChanges DEF All, Orderly
<1>10. All(h) = (IF h.early = {} THEN Unrecorded(h) ELSE h.early) \cup h.late
    BY KnownChanges DEF All
<1>11. announced \subseteq past
    BY <1>10 DEF Past
<1>12. BaseChange(h).at = UnrecordedFrom /\ BaseChange(h).fee = h.base
    BY DEF BaseChange
<1>13. CASE past = {}
    <2>1. announced = {} /\ fee = h.base
        BY <1>7, <1>11, <1>13
    <2>2. h.base = DefaultFee
        <3>1. h.base # DefaultFee => h.early = {}
            BY DEF Orderly
        <3>2. h.base # DefaultFee => BaseChange(h) \in past
            BY <1>10, <1>12, <3>1 DEF Unrecorded, Past
        <3> QED BY <3>2, <1>13
    <2>3. held = {}
        BY <1>4, <1>6, <1>13
    <2>4. fee \in Fee /\ fee = DefaultFee /\ held = {}
        <3> HIDE DEF held, fee
        <3> QED BY <1>8, <2>1, <2>2, <2>3
    <2> QED BY <2>4
<1>14. CASE past # {}
    <2>1. n \in past /\ (\A c \in past : c.at <= n.at) /\ n \in All(h)
        BY <1>4, <1>14 DEF Past
    <2>2. n.fee = fee
        <3> HIDE DEF n
        <3>1. CASE announced = {}
            <4>1. n \in Unrecorded(h)
                BY <2>1, <3>1, <1>10 DEF Past
            <4> QED BY <4>1, <3>1, <1>7, <1>12 DEF Unrecorded
        <3>2. CASE announced # {}
            <4>1. n \in announced
                <5> SUFFICES ASSUME n \notin announced PROVE FALSE
                    OBVIOUS
                <5>1. n = BaseChange(h) /\ h.early = {}
                    BY <2>1, <1>10 DEF Unrecorded, Past
                <5>2. PICK c \in announced : TRUE
                    BY <3>2
                <5>3. c \in h.late /\ c.at <= UnrecordedFrom
                    BY <5>1, <5>2, <1>11, <1>12, <2>1 DEF Past
                <5> QED BY <5>3, FeesAssumption DEF Orderly
            <4>2. Newest(announced) = n
                <5>1. \A d \in announced : d.at \in Int /\ d.at <= n.at /\ (d.at = n.at => d = n)
                    BY <1>1, <1>2, <1>11, <2>1 DEF Past
                <5> HIDE DEF announced
                <5> QED BY <4>1, <5>1, NewestIs
            <4> QED BY <4>2, <3>2, <1>7
        <3> QED BY <3>1, <3>2
    <2>3. fee \in Fee
        BY <2>1, <2>2, <1>1
    <2>4. held # {} /\ Latest(held).definition =
              IF SeriesRow(n).definition = Unset THEN Unset ELSE Definition(SeriesRow(n).fee, t)
        <3> HIDE DEF held, past, n
        <3> QED BY <1>4, <1>6, <1>14
    <2>5. held # {} /\ Latest(held).definition = IF fee.type \in Expressible THEN Definition(fee, t) ELSE Unset
        <3> HIDE DEF held, fee, n
        <3>1. SeriesRow(n).fee = fee /\ SeriesRow(n).definition = Definition(fee, n.at)
            BY <1>3, <2>1, <2>2
        <3>2. SeriesRow(n).definition = Unset <=> fee.type \notin Expressible
            BY <2>3, <3>1, DefinitionOf DEF Definition
        <3> QED BY <2>4, <3>1, <3>2
    <2> QED BY <2>3, <2>5
<1> QED BY <1>13, <1>14

\* What the first sync to see an override takes for its series' fee when it began was that fee.
LEMMA StandingIs ==
    ASSUME NEW h, Orderly(h), NEW o \in h.overridden \cup h.then
    PROVE  SeriesAt(Known(h, FirstSeen(h, o)), "series", o.at) = ChargedInSeries(h, h.early \cup h.late, o.at)
<1> DEFINE C == Known(h, FirstSeen(h, o))
<1>1. o.at \in Int /\ (o \in h.overridden \/ o \in h.then)
    BY DEF Orderly
<1>2. \A c \in h.late : o \notin h.then => c.at \in Int /\ ~(c.at <= o.at)
    BY <1>1 DEF Orderly, After
<1>3. Known(h, 1) \subseteq All(h) /\ Known(h, 2) \subseteq All(h)
    BY AllChanges DEF All
<1>4. \A c \in C : c.series = "series"
    BY <1>3, AllChanges DEF FirstSeen
<1>5. SeriesAt(C, "series", o.at) = IF Past(C, o.at) = {} THEN DefaultFee ELSE Newest(Past(C, o.at)).fee
    <2>1. {c \in C : c.series = "series" /\ c.at <= o.at} = Past(C, o.at)
        BY <1>4 DEF Past
    <2> HIDE DEF C
    <2> QED BY <2>1 DEF SeriesAt
<1>6. ChargedInSeries(h, h.early \cup h.late, o.at) =
          IF Past(h.early \cup h.late, o.at) = {} THEN h.base ELSE Newest(Past(h.early \cup h.late, o.at)).fee
    BY DEF ChargedInSeries, Past
<1>7. ASSUME h.base = DefaultFee
      PROVE SeriesAt(C, "series", o.at) = ChargedInSeries(h, h.early \cup h.late, o.at)
    <2>1. Known(h, 1) = h.early /\ Known(h, 2) = h.early \cup h.late
        BY <1>7, KnownChanges DEF Unrecorded
    <2>2. Past(C, o.at) = Past(h.early \cup h.late, o.at)
        <3>1. CASE o \in h.then
            BY <3>1, <2>1 DEF FirstSeen
        <3>2. CASE o \notin h.then
            BY <3>2, <2>1, <1>2 DEF FirstSeen, Past
        <3> QED BY <3>1, <3>2
    <2> HIDE DEF C
    <2> QED BY <1>5, <1>6, <1>7, <2>2
<1>8. ASSUME h.base # DefaultFee
      PROVE SeriesAt(C, "series", o.at) = ChargedInSeries(h, h.early \cup h.late, o.at)
    <2>1. h.early = {} /\ o.at >= UnrecordedFrom /\ (h.late = {} \/ h.then = {})
        BY <1>8 DEF Orderly
    <2>2. C = {BaseChange(h)}
        BY <1>8, <2>1, KnownChanges DEF Unrecorded, FirstSeen
    <2>3. BaseChange(h).at = UnrecordedFrom /\ BaseChange(h).fee = h.base /\ UnrecordedFrom \in Int
        BY FeesAssumption DEF BaseChange
    <2> HIDE DEF C
    <2>4. Past(C, o.at) = {BaseChange(h)}
        BY <2>1, <2>2, <2>3 DEF Past
    <2>5. Newest({BaseChange(h)}) = BaseChange(h)
        <3> DEFINE only == {BaseChange(h)}
        <3>1. BaseChange(h) \in only /\ \A d \in only : d.at \in Int /\ d.at <= BaseChange(h).at /\ d = BaseChange(h)
            BY <2>3
        <3> HIDE DEF only
        <3>2. Newest(only) = BaseChange(h)
            BY <3>1, NewestIs
        <3> QED BY <3>2 DEF only
    <2>6. Past(h.early \cup h.late, o.at) = {}
        BY <2>1, <1>2 DEF Past
    <2> QED BY <1>5, <1>6, <2>3, <2>4, <2>5, <2>6
<1> QED BY <1>7, <1>8

\* The event's rows give the override in force, with what it leaves out as it stood when it began.
LEMMA EventTells ==
    ASSUME NEW h, Orderly(h), NEW t \in Int, h.overridden = {} \/ ~h.forgets \/ t >= SyncTimes[1]
    PROVE  LET held == Held(Left(h), Event, t)
               own  == Expressed(Overridden(h, t))
           IN  /\ held = {} => own = {}
               /\ held # {} => \/ own = {} /\ Latest(held).definition = Unset
                               \/ \E f \in Fee : own = {f} /\ f.type \in Expressible /\ Latest(held).definition = Definition(f, t)
<1> DEFINE held == Held(Left(h), Event, t)
           own  == Expressed(Overridden(h, t))
           O    == h.overridden \cup h.then
           L    == Listed(h) \cup h.then
           made == {FirstRow(h, o) : o \in L}
           row  == [o \in L |-> FirstRow(h, o)]
           m    == Newest(Past(O, t))
<1>1. L \subseteq O
    BY ListedAtSyncs
<1>2. (\A o \in O : o.at \in Int) /\ \A o, p \in O : o.at = p.at => o = p
    BY DEF Orderly, Recorded
<1>3. Known(h, 1) \subseteq All(h) /\ Known(h, 2) \subseteq All(h)
    BY AllChanges DEF All
<1>4. \A o \in O : Known(h, FirstSeen(h, o)) \subseteq All(h)
    BY <1>3 DEF FirstSeen
<1>5. \A o \in L : FirstRow(h, o).from = o.at
    <2> HIDE DEF L
    <2> QED BY <1>1, <1>4, EventRowIs DEF FirstRow
<1>6. RowEach(L, row, made)
    <2>1. \A o \in L : row[o] = FirstRow(h, o)
        OBVIOUS
    <2>2. (\A o \in L : row[o] \in made) /\ \A r \in made : \E o \in L : r = row[o]
        BY <2>1
    <2> HIDE DEF L, row, made
    <2> QED BY <1>1, <1>2, <1>5, <2>1, <2>2 DEF RowEach
<1>7. /\ Past(L, t) = {} <=> UpTo(made, t) = {}
      /\ Past(L, t) # {} => Newest(Past(L, t)) \in Past(L, t) /\ Latest(UpTo(made, t)) = row[Newest(Past(L, t))]
    <2> HIDE DEF L, row, made
    <2> QED BY <1>6, LatestRow
<1>8. /\ UpTo(made, t) = {} => held = {}
      /\ UpTo(made, t) # {} =>
             /\ held # {}
             /\ Latest(held).definition =
                    IF Latest(UpTo(made, t)).definition = Unset THEN Unset
                    ELSE Definition(Latest(UpTo(made, t)).fee, t)
    <2>1. RowsOf(Event, made) /\ At(Left(h), Event) = WithRoundingCutover(made)
        BY EventLeft
    <2> HIDE DEF made
    <2> QED BY <2>1, CutoverTells DEF UpTo
<1>9. ASSUME Past(O, t) # {}
      PROVE  m \in Past(L, t) /\ Newest(Past(L, t)) = m
    <2>1. m \in Past(O, t) /\ \A o \in Past(O, t) : o.at <= m.at
        <3>1. \A o \in Past(O, t) : o.at \in Int /\ o.at <= t
            BY <1>2 DEF Past
        <3> HIDE DEF O
        <3> QED BY <1>9, <3>1, NewestOf
    <2> HIDE DEF m
    <2>2. m \in L
        <3> SUFFICES ASSUME m \in h.overridden, m \notin Listed(h) PROVE FALSE
            BY <2>1 DEF Past
        <3>1. h.forgets /\ \E p \in h.overridden : m.at < p.at /\ p.at <= SyncTimes[1]
            BY DEF Listed, StillListedAt
        <3>2. PICK p \in h.overridden : m.at < p.at /\ p.at <= SyncTimes[1]
            BY <3>1
        <3>3. p.at <= t
            BY <3>1, <3>2, <1>2, HistoriesAssumption
        <3> QED BY <3>2, <3>3, <2>1, <1>2 DEF Past
    <2>3. m \in Past(L, t)
        BY <2>1, <2>2 DEF Past
    <2>4. \A o \in Past(L, t) : o.at \in Int /\ o.at <= m.at /\ (o.at = m.at => o = m)
        <3>1. m \in O /\ Past(L, t) \subseteq Past(O, t)
            BY <1>1, <2>1 DEF Past
        <3> HIDE DEF O, L
        <3> QED BY <1>2, <2>1, <3>1 DEF Past
    <2>5. Newest(Past(L, t)) = m
        <3> HIDE DEF L
        <3> QED BY <2>3, <2>4, NewestIs
    <2> QED BY <2>3, <2>5
<1>10. ASSUME Past(O, t) = {}
       PROVE  held = {} /\ own = {}
    <2>1. Past(L, t) = {}
        BY <1>1, <1>10 DEF Past
    <2>2. Overridden(h, t) = {}
        BY <1>10 DEF Overridden, Past
    <2> HIDE DEF L, made, held
    <2> QED BY <1>7, <1>8, <2>1, <2>2 DEF Expressed
<1>11. ASSUME Past(O, t) # {}
       PROVE  /\ held # {}
              /\ \/ own = {} /\ Latest(held).definition = Unset
                 \/ \E f \in Fee : own = {f} /\ f.type \in Expressible /\ Latest(held).definition = Definition(f, t)
    <2> DEFINE C == Known(h, FirstSeen(h, m))
               f == Filled(C, m)
    <2>1. m \in O /\ m \in L
        BY <1>1, <1>9, <1>11 DEF Past
    <2>2. C \subseteq All(h)
        BY <1>4, <2>1
    <2>3. Latest(UpTo(made, t)) = EventRow(C, m)
        <3>1. row[m] = FirstRow(h, m)
            BY <2>1
        <3>2. Latest(UpTo(made, t)) = row[m]
            <4> HIDE DEF L, row, made, m
            <4> QED BY <1>7, <1>9, <1>11
        <3> HIDE DEF row, made, m
        <3> QED BY <3>1, <3>2 DEF FirstRow
    <2>4. /\ held # {}
          /\ Latest(held).definition = IF EventRow(C, m).definition = Unset THEN Unset ELSE Definition(EventRow(C, m).fee, t)
        <3> HIDE DEF L, made, held, m, C
        <3> QED BY <1>7, <1>8, <1>9, <1>11, <2>3
    <2>5. SeriesAt(C, "series", m.at) = ChargedInSeries(h, h.early \cup h.late, m.at)
        <3> HIDE DEF m
        <3> QED BY <2>1, StandingIs
    <2>6. Overridden(h, t) = IF Lifts(m) THEN {} ELSE {f}
        <3>1. m.series = "series"
            <4> HIDE DEF m
            <4> QED BY <2>1 DEF Orderly
        <3>2. m = Newest({o \in h.overridden \cup h.then : o.at <= t}) /\ {o \in h.overridden \cup h.then : o.at <= t} # {}
            BY <1>11 DEF Past
        <3> HIDE DEF m, C
        <3>3. Overridden(h, t) =
                  IF Lifts(m) THEN {}
                  ELSE {[type       |-> IF m.type = Unset THEN ChargedInSeries(h, h.early \cup h.late, m.at).type ELSE m.type,
                         multiplier |-> IF m.multiplier = Unset THEN ChargedInSeries(h, h.early \cup h.late, m.at).multiplier
                                        ELSE m.multiplier]}
            BY <3>2 DEF Overridden, Lifts
        <3> QED BY <2>5, <3>1, <3>3 DEF Filled
    <2> HIDE DEF m, C, f, held
    <2>7. CASE Lifts(m)
        <3>1. EventRow(C, m).definition = Unset
            BY <2>1, <2>2, <2>7, EventRowIs
        <3>2. own = {}
            BY <2>6, <2>7 DEF Expressed
        <3> QED BY <2>4, <3>1, <3>2
    <2>8. CASE ~Lifts(m)
        <3>1. EventRow(C, m).fee = f /\ EventRow(C, m).definition = Definition(f, m.at) /\ f \in Fee
            BY <2>1, <2>2, <2>8, EventRowIs DEF f
        <3>2. CASE f.type \in Expressible
            <4>1. Definition(f, m.at) # Unset
                BY <3>1, <3>2, DefinitionOf
            <4>2. own = {f}
                BY <2>6, <2>8, <3>2 DEF Expressed
            <4>3. Latest(held).definition = Definition(f, t)
                BY <2>4, <3>1, <4>1
            <4> QED BY <2>4, <3>1, <3>2, <4>2, <4>3
        <3>3. CASE f.type \notin Expressible
            <4>1. Definition(f, m.at) = Unset
                BY <3>3 DEF Definition
            <4>2. own = {}
                BY <2>6, <2>8, <3>3 DEF Expressed
            <4> QED BY <2>4, <3>1, <4>1, <4>2
        <3> QED BY <3>2, <3>3
    <2> QED BY <2>7, <2>8
<1> HIDE DEF held, own, O
<1> QED BY <1>10, <1>11 DEF held, own

\* Whether a target has a fee set at a time.
Sets(registry, target, t) == Held(registry, target, t) # {} /\ Latest(Held(registry, target, t)).definition # Unset

\* Of two targets the first that sets a fee is asked.
LEMMA InForceOfTwo ==
    ASSUME NEW registry, NEW a, NEW b, NEW t, NEW default
    PROVE  InForce(registry, <<a, b>>, t, default) =
               IF Sets(registry, a, t) THEN Latest(Held(registry, a, t)).definition
               ELSE IF Sets(registry, b, t) THEN Latest(Held(registry, b, t)).definition ELSE default
<1> DEFINE targets == <<a, b>>
           setting == {i \in DOMAIN targets : Sets(registry, targets[i], t)}
           first   == CHOOSE i \in setting : \A j \in setting : i <= j
<1>1. DOMAIN targets = {1, 2} /\ targets[1] = a /\ targets[2] = b
    OBVIOUS
<1>2. InForce(registry, targets, t, default) =
          IF setting = {} THEN default ELSE Latest(Held(registry, targets[first], t)).definition
    BY DEF InForce, Sets, Held
<1> HIDE DEF targets
<1>3. CASE Sets(registry, a, t)
    <2>1. 1 \in setting /\ \A j \in setting : j \in Int /\ 1 <= j
        BY <1>1, <1>3
    <2>2. first = 1
        <3> HIDE DEF setting
        <3>1. \A i \in setting : (\A j \in setting : i <= j) => i = 1
            BY <2>1
        <3> QED BY <2>1, <3>1
    <2>3. setting # {}
        BY <2>1
    <2> HIDE DEF setting, first
    <2> QED BY <1>1, <1>2, <1>3, <2>2, <2>3 DEF targets
<1>4. CASE ~Sets(registry, a, t) /\ Sets(registry, b, t)
    <2>1. setting = {2}
        BY <1>1, <1>4
    <2>2. first = 2
        BY <2>1
    <2> HIDE DEF setting, first
    <2> QED BY <1>1, <1>2, <1>4, <2>1, <2>2 DEF targets
<1>5. CASE ~Sets(registry, a, t) /\ ~Sets(registry, b, t)
    <2>1. setting = {}
        BY <1>1, <1>5
    <2> HIDE DEF setting, first
    <2> QED BY <1>2, <1>5, <2>1 DEF targets
<1> QED BY <1>3, <1>4, <1>5

\* The first part of FeeInForce, of one history.
LEMMA FeesRight ==
    ASSUME NEW h, Orderly(h), NEW t \in Int, t >= UnrecordedFrom, h.overridden = {} \/ ~h.forgets \/ t >= SyncTimes[1]
    PROVE  InForce(Left(h), <<<<"event", "event">>, <<"group", "series">>>>, t, Definition(DefaultFee, t))
               = [fee |-> Charged(h, t), rounding |-> IF t >= AccumulatorFrom THEN "accumulator" ELSE "cent"]
<1> DEFINE ofEvent  == Held(Left(h), Event, t)
           ofSeries == Held(Left(h), Series, t)
           own      == Expressed(Overridden(h, t))
           fee      == ChargedInSeries(h, h.early \cup h.late, t)
           series   == Expressed({fee})
           said     == InForce(Left(h), <<Event, Series>>, t, Definition(DefaultFee, t))
           given(f) == [fee |-> f, rounding |-> IF t >= AccumulatorFrom THEN "accumulator" ELSE "cent"]
<1>1. said = IF Sets(Left(h), Event, t) THEN Latest(ofEvent).definition
             ELSE IF Sets(Left(h), Series, t) THEN Latest(ofSeries).definition ELSE Definition(DefaultFee, t)
    BY InForceOfTwo
<1>2. /\ ofEvent = {} => own = {}
      /\ ofEvent # {} => \/ own = {} /\ Latest(ofEvent).definition = Unset
                         \/ \E f \in Fee : own = {f} /\ f.type \in Expressible /\ Latest(ofEvent).definition = Definition(f, t)
    BY EventTells
<1>3. /\ fee \in Fee
      /\ ofSeries = {} => fee = DefaultFee
      /\ ofSeries # {} => Latest(ofSeries).definition = IF fee.type \in Expressible THEN Definition(fee, t) ELSE Unset
    BY SeriesTells
<1>4. \A f \in Fee : f.type \in Expressible => Definition(f, t) = given(f) /\ Definition(f, t) # Unset
    BY DefinitionOf
<1>5. DefaultFee \in Fee /\ DefaultFee.type \in Expressible
    BY FeesAssumption
<1>6. series = IF fee.type \in Expressible THEN {fee} ELSE {}
    BY DEF Expressed
<1>7. Charged(h, t) = CHOOSE f \in (IF own # {} THEN own ELSE IF series # {} THEN series ELSE {DefaultFee}) : TRUE
    BY DEF Charged
<1>8. Sets(Left(h), Event, t) <=> ofEvent # {} /\ Latest(ofEvent).definition # Unset
    BY DEF Sets
<1>9. Sets(Left(h), Series, t) <=> ofSeries # {} /\ Latest(ofSeries).definition # Unset
    BY DEF Sets
<1> HIDE DEF ofEvent, ofSeries, own, fee, series, said, given
<1>10. said = given(Charged(h, t))
    <2>1. CASE own # {}
        <3>1. PICK f \in Fee : own = {f} /\ f.type \in Expressible /\ Latest(ofEvent).definition = Definition(f, t) /\ ofEvent # {}
            BY <1>2, <2>1
        <3>2. Charged(h, t) = f
            BY <1>7, <2>1, <3>1
        <3> QED BY <1>1, <1>4, <1>8, <3>1, <3>2
    <2>2. CASE own = {}
        <3>1. ~Sets(Left(h), Event, t)
            BY <1>2, <1>8, <2>2
        <3>2. CASE fee.type \in Expressible
            <4>1. Charged(h, t) = fee
                BY <1>6, <1>7, <2>2, <3>2
            <4>2. said = Definition(fee, t)
                <5>1. Definition(fee, t) # Unset
                    BY <1>3, <1>4, <3>2
                <5> QED BY <1>1, <1>3, <1>9, <3>1, <3>2, <5>1
            <4> QED BY <1>3, <1>4, <3>2, <4>1, <4>2
        <3>3. CASE fee.type \notin Expressible
            <4>1. Charged(h, t) = DefaultFee
                BY <1>6, <1>7, <2>2, <3>3
            <4>2. said = Definition(DefaultFee, t)
                BY <1>1, <1>3, <1>9, <3>1, <3>3
            <4> QED BY <1>4, <1>5, <4>1, <4>2
        <3> QED BY <3>2, <3>3
    <2> QED BY <2>1, <2>2
<1> QED BY <1>10 DEF said, given, Event, Series

\* What a sync sees of rates.
Seen(rates, n) == IntlSchedules([g \in {"type"} |-> rates[n]], SyncTimes[n])

\* The second part, of one pair of rates.
LEMMA RatesRight ==
    ASSUME NEW rates \in RateHistories, NEW n \in DOMAIN rates
    PROVE  InForce(Synced(Synced({}, Seen(rates, 1)), Seen(rates, 2)), <<<<"group", "type">>>>, SyncTimes[n], Unset) = rates[n]
<1> DEFINE from(i) == IF "type" \in DOMAIN Rollout /\ Rollout["type"].rates = rates[i] THEN Rollout["type"].from ELSE SyncTimes[i]
           row(i)  == [target |-> <<"group", "type">>, definition |-> rates[i], ref |-> <<"type", rates[i]>>, from |-> from(i)]
           kept    == Synced(Synced({}, Seen(rates, 1)), Seen(rates, 2))
           targets == <<<<"group", "type">>>>
           t       == SyncTimes[n]
           held    == Held(kept, <<"group", "type">>, t)
<1>1. DOMAIN rates = 1..2 /\ rates[1] # Unset /\ rates[2] # Unset /\ n \in {1, 2}
    BY RatesAssumption
<1>2. SyncTimes[1] \in Int /\ SyncTimes[2] \in Int /\ SyncTimes[1] < SyncTimes[2]
    BY HistoriesAssumption
<1>3. \A i \in {1, 2} : Seen(rates, i) = {row(i)}
    BY DEF Seen, IntlSchedules
<1>4. kept = IF rates[1] = rates[2] THEN {row(1)} ELSE {row(1), row(2)}
    <2>1. row(1).ref = row(2).ref <=> rates[1] = rates[2]
        <3>1. \A x, y : <<"type", x>> = <<"type", y>> => x = y
            OBVIOUS
        <3> QED BY <3>1
    <2> HIDE DEF row
    <2> QED BY <1>3, <2>1 DEF Synced
<1>5. from(1) \in Int /\ from(1) <= SyncTimes[1]
    BY <1>2, RatesAssumption
<1>6. rates[1] # rates[2] => from(2) = SyncTimes[2]
    BY RatesAssumption
<1>7. InForce(kept, targets, t, Unset) = IF held # {} /\ Latest(held).definition # Unset THEN Latest(held).definition ELSE Unset
    <2> DEFINE setting == {i \in DOMAIN targets : held # {} /\ Latest(held).definition # Unset}
    <2>1. DOMAIN targets = {1} /\ targets[1] = <<"group", "type">>
        OBVIOUS
    <2>2. setting = {i \in DOMAIN targets : {r \in kept : r.target = targets[i] /\ r.from <= t} # {}
                                              /\ Latest({r \in kept : r.target = targets[i] /\ r.from <= t}).definition # Unset}
        BY <2>1 DEF Held
    <2>3. InForce(kept, targets, t, Unset) = IF setting = {} THEN Unset ELSE
              Latest({r \in kept : r.target = targets[CHOOSE i \in setting : \A j \in setting : i <= j] /\ r.from <= t}).definition
        <3> HIDE DEF kept, targets, t
        <3> QED BY <2>2 DEF InForce
    <2>4. setting = IF held # {} /\ Latest(held).definition # Unset THEN {1} ELSE {}
        BY <2>1
    <2>5. (CHOOSE i \in {1} : \A j \in {1} : i <= j) = 1
        OBVIOUS
    <2>6. held = {r \in kept : r.target = targets[1] /\ r.from <= t}
        BY <2>1 DEF Held
    <2> HIDE DEF setting, held, targets, kept, t
    <2> QED BY <2>3, <2>4, <2>5, <2>6
<1>8. Latest(held) = row(n) \/ (n = 2 /\ rates[1] = rates[2] /\ Latest(held) = row(1))
    <2>1. /\ \A i \in {1, 2} : row(i).target = <<"group", "type">> /\ row(i).from = from(i) /\ row(i).definition = rates[i]
        OBVIOUS
    <2> HIDE DEF row, from, kept
    <2>2. CASE rates[1] = rates[2] \/ n = 1
        <3>1. held = {row(1)}
            BY <1>1, <1>2, <1>4, <1>5, <1>6, <2>1, <2>2 DEF Held
        <3>2. Latest({row(1)}) = row(1)
            <4>1. \A q \in {row(1)} : q.from \in Int /\ q.from <= row(1).from /\ q = row(1)
                BY <1>5, <2>1
            <4> DEFINE only == {row(1)}
            <4>2. row(1) \in only
                OBVIOUS
            <4> HIDE DEF only
            <4>3. \A q \in only : q.from \in Int /\ q.from <= row(1).from /\ q = row(1)
                BY <4>1 DEF only
            <4>4. Latest(only) = row(1)
                BY <4>2, <4>3, LatestIs
            <4> QED BY <4>4 DEF only
        <3> HIDE DEF held
        <3> QED BY <1>1, <2>2, <3>1, <3>2
    <2>3. CASE rates[1] # rates[2] /\ n = 2
        <3>1. held = {row(1), row(2)}
            BY <1>1, <1>2, <1>4, <1>5, <1>6, <2>1, <2>3 DEF Held
        <3>2. row(2) \in held /\ \A q \in held : q.from \in Int /\ q.from <= row(2).from /\ (q.from = row(2).from => q = row(2))
            BY <1>2, <1>5, <1>6, <2>1, <2>3, <3>1
        <3> HIDE DEF held
        <3>3. Latest(held) = row(2)
            BY <3>2, LatestIs
        <3> QED BY <2>3, <3>3
    <2> QED BY <1>1, <2>2, <2>3
<1>9. held # {}
    <2>1. row(1) \in kept
        <3> HIDE DEF row, kept
        <3> QED BY <1>4
    <2>2. SyncTimes[1] <= t
        BY <1>1, <1>2
    <2>3. row(1) \in held
        <3>1. row(1).target = <<"group", "type">> /\ row(1).from = from(1)
            OBVIOUS
        <3> HIDE DEF row, kept, from
        <3> QED BY <1>1, <1>2, <1>5, <2>1, <2>2, <3>1 DEF Held
    <2> QED BY <2>3
<1>10. Latest(held).definition = rates[n]
    <2>1. \A i \in {1, 2} : row(i).definition = rates[i]
        OBVIOUS
    <2> HIDE DEF row, held
    <2> QED BY <1>1, <1>8, <2>1
<1> HIDE DEF held
<1>11. rates[n] # Unset
    BY <1>1
<1> QED BY <1>7, <1>9, <1>10, <1>11

\* An answer about fees, or rates, is what the syncs leave of a history, or of rates.
FeesAnswered ==
    /\ question.asks = "fees" /\ answer # Unanswered =>
           question.history \in FeeHistories /\ answer = Left(question.history)
    /\ question.asks = "rates" /\ answer # Unanswered =>
           /\ question.rates \in RateHistories
           /\ answer = Synced(Synced({}, Seen(question.rates, 1)), Seen(question.rates, 2))

\* Whatever a series charges, whatever overrides it and whatever becomes known between the two syncs,
\* in the histories the rows can follow, the rows give at every time the fee that was charged
\* (kalshi_schedules, polymarket_intl_schedules, sync_venue_fee_schedules).
THEOREM FeesFollow == Asking => []FeeInForce
<1>1. Unasked => FeesAnswered
    BY DEF Unasked, FeesAnswered
<1>2. FeesAnswered /\ [Ask]_<<question, answer>> => FeesAnswered'
    <2> SUFFICES ASSUME FeesAnswered, [Ask]_<<question, answer>> PROVE FeesAnswered'
        OBVIOUS
    <2>1. CASE AskPair
        <3>1. PICK b \in Propositions : question' = [asks |-> "pair", a |-> question.a, b |-> b]
            BY <2>1, Zenon DEF AskPair
        <3> QED BY <3>1 DEF FeesAnswered
    <2>2. CASE AskListing
        <3>1. PICK C \in Listings : question' = [asks |-> "listing", contracts |-> C]
            BY <2>2, Zenon DEF AskListing
        <3> QED BY <3>1 DEF FeesAnswered
    <2>3. CASE AskMerge
        <3>1. PICK m \in Mergers : question' = [asks |-> "merge", merge |-> m]
            BY <2>3, Zenon DEF AskMerge
        <3> QED BY <3>1 DEF FeesAnswered
    <2>4. CASE AskFees
        <3>1. PICK h \in FeeHistories : question' = [asks |-> "fees", history |-> h] /\ answer' = Left(h)
            BY <2>4, Zenon DEF AskFees, Left
        <3> QED BY <3>1 DEF FeesAnswered
    <2>5. CASE AskRates
        <3>1. PICK rates \in RateHistories :
                /\ question' = [asks |-> "rates", rates |-> rates]
                /\ answer' = Synced(Synced({}, Seen(rates, 1)), Seen(rates, 2))
            BY <2>5, Zenon DEF AskRates, Seen
        <3> QED BY <3>1 DEF FeesAnswered
    <2>6. CASE AskCategories
        <3>1. PICK b \in Batches : question' = [asks |-> "categories", batch |-> b]
            BY <2>6, Zenon DEF AskCategories
        <3> QED BY <3>1 DEF FeesAnswered
    <2>7. CASE UNCHANGED <<question, answer>>
        BY <2>7 DEF FeesAnswered
    <2> QED BY <2>1, <2>2, <2>3, <2>4, <2>5, <2>6, <2>7 DEF Ask
<1>3. FeesAnswered => FeeInForce
    <2> SUFFICES ASSUME FeesAnswered PROVE FeeInForce
        OBVIOUS
    <2>1. ASSUME Answered("fees"), NEW t \in UnrecordedFrom..SyncTimes[2] + 2,
                 question.history.overridden = {} \/ ~question.history.forgets \/ t >= SyncTimes[1]
          PROVE  InForce(answer, <<<<"event", "event">>, <<"group", "series">>>>, t, Definition(DefaultFee, t))
                     = [fee |-> Charged(question.history, t), rounding |-> IF t >= AccumulatorFrom THEN "accumulator" ELSE "cent"]
        <3>1. answer = Left(question.history) /\ Orderly(question.history)
            BY <2>1, HistoriesAssumption DEF FeesAnswered, Answered
        <3>2. t \in Int /\ t >= UnrecordedFrom
            BY FeesAssumption, HistoriesAssumption
        <3> QED BY <2>1, <3>1, <3>2, FeesRight
    <2>2. ASSUME Answered("rates"), NEW n \in DOMAIN question.rates
          PROVE  InForce(answer, <<<<"group", "type">>>>, SyncTimes[n], Unset) = question.rates[n]
        <3>1. /\ question.rates \in RateHistories
              /\ answer = Synced(Synced({}, Seen(question.rates, 1)), Seen(question.rates, 2))
            BY <2>2 DEF FeesAnswered, Answered
        <3> QED BY <3>1, RatesRight
    <2> QED BY <2>1, <2>2, Zenon DEF FeeInForce
<1> QED BY <1>1, <1>2, <1>3, PTL DEF Asking

-----------------------------------------------------------------------------
(* A batch delivered again keeps what was answered.                        *)

\* An attempt at a batch.
Attempted(b, n, cache) == Canonicalized(b.events, cache, b.attempts[n].answers, b.attempts[n].retries)

\* An item, if any, of the nth attempt.
OfAttempt(n, item) == item = Unanswered \/ item.category = [title |-> item.title, attempt |-> n]

\* An item given an event at an attempt.
GivenAt(n, item, ev) == item.title = ev.title /\ item.category = [title |-> ev.title, attempt |-> n]

\* What is assumed of batches, of one.
LEMMA BatchIs ==
    ASSUME NEW b \in Batches
    PROVE  /\ DOMAIN b.attempts = 1..2
           /\ \A i, j \in DOMAIN b.events : b.events[i].id = b.events[j].id => i = j
           /\ \A n \in 1..2, i \in DOMAIN b.events : NeedsModel(b.events[i]) => OfAttempt(n, b.attempts[n].retries[b.events[i].id])
           /\ \A n \in 1..2 : \A r : OfAttempt(n, ItemAt(b.attempts[n].answers, r))
<1>1. ASSUME NEW n \in 1..2, NEW i \in DOMAIN b.events, NeedsModel(b.events[i])
      PROVE  OfAttempt(n, b.attempts[n].retries[b.events[i].id])
    <2>1. b.events[i] \in ToSet(b.events)
        BY DEF ToSet
    <2> QED BY <1>1, <2>1, BatchesAssumption DEF OfAttempt
<1>2. ASSUME NEW n \in 1..2, NEW r PROVE OfAttempt(n, ItemAt(b.attempts[n].answers, r))
    <2>1. CASE r.number \in DOMAIN b.attempts[n].answers /\ r.place \in DOMAIN b.attempts[n].answers[r.number]
        <3>1. ItemAt(b.attempts[n].answers, r) = b.attempts[n].answers[r.number][r.place]
            BY <2>1 DEF ItemAt
        <3>2. \A k \in DOMAIN b.attempts[n].answers : \A j \in DOMAIN b.attempts[n].answers[k] :
                 OfAttempt(n, b.attempts[n].answers[k][j])
            BY BatchesAssumption DEF OfAttempt
        <3> QED BY <2>1, <3>1, <3>2
    <2>2. CASE ~(r.number \in DOMAIN b.attempts[n].answers /\ r.place \in DOMAIN b.attempts[n].answers[r.number])
        BY <2>2 DEF ItemAt, OfAttempt
    <2> QED BY <2>1, <2>2
<1>3. DOMAIN b.attempts = 1..2 /\ \A i, j \in DOMAIN b.events : b.events[i].id = b.events[j].id => i = j
    BY BatchesAssumption
<1> QED BY <1>1, <1>2, <1>3

\* What an attempt with a cache ends with.
EndsWith(b, n, cache, out) ==
    LET events == b.events
    IN  /\ \A id \in DOMAIN cache : id \in DOMAIN out.cache /\ out.cache[id] = cache[id]
        /\ \A i \in DOMAIN events : NeedsModel(events[i]) =>
              /\ events[i].id \in DOMAIN out.cache \ DOMAIN cache => GivenAt(n, out.cache[events[i].id], events[i])
              /\ events[i].id \notin DOMAIN out.cache => ~Matches(b.attempts[n].retries[events[i].id], events[i])
        /\ out.raised <=> \E i \in DOMAIN events : NeedsModel(events[i]) /\ events[i].id \notin DOMAIN out.cache
        /\ out.raised => out.results = {}
        /\ ~out.raised => \A r \in out.results : \E i \in DOMAIN events :
              /\ r.ev = events[i]
              /\ r.given = IF NeedsModel(events[i]) THEN Merged(events[i], out.cache[events[i].id]) ELSE FromLabels(events[i])

\* So it ends.
LEMMA AttemptEnds ==
    ASSUME NEW b \in Batches, NEW n \in 1..2, NEW cache
    PROVE  EndsWith(b, n, cache, Attempted(b, n, cache))
<1> DEFINE events   == b.events
           retries  == b.attempts[n].retries
           asked    == Asked(events, cache)
           uncached == {events[i] : i \in asked}
           first    == FirstRound(events, asked, b.attempts[n].answers)
           missed   == uncached \ {f.ev : f \in first}
           found    == first \cup SecondRound(missed, retries)
           answered == [id \in DOMAIN cache \cup {f.ev.id : f \in found} |->
                           IF \E f \in found : f.ev.id = id THEN (CHOOSE f \in found : f.ev.id = id).item ELSE cache[id]]
           raised   == \E ev \in uncached : ev.id \notin DOMAIN answered
           out      == Attempted(b, n, cache)
<1>1. out = [cache   |-> answered,
             raised  |-> raised,
             results |-> IF raised THEN {}
                         ELSE {[ev |-> events[i], given |-> IF NeedsModel(events[i])
                                                            THEN Merged(events[i], answered[events[i].id])
                                                            ELSE FromLabels(events[i])] : i \in DOMAIN events}]
    BY DEF Attempted, Canonicalized, Kept
<1>2. out.cache = answered /\ out.raised = raised
    <2> HIDE DEF answered, raised, out
    <2> QED BY <1>1
<1>3. asked = {i \in DOMAIN events : NeedsModel(events[i]) /\ events[i].id \notin DOMAIN cache}
    BY DEF Asked
<1>4. \A f \in found : \E i \in asked : f.ev = events[i] /\ GivenAt(n, f.item, events[i])
    <2> SUFFICES ASSUME NEW f \in found PROVE \E i \in asked : f.ev = events[i] /\ GivenAt(n, f.item, events[i])
        OBVIOUS
    <2>1. CASE f \in first
        <3> DEFINE item(i) == ItemAt(b.attempts[n].answers, Request(asked, i))
        <3>1. PICK i \in asked : f.ev = events[i] /\ f.item = item(i) /\ Matches(item(i), events[i])
            <4> HIDE DEF asked, events
            <4> QED BY <2>1 DEF FirstRound
        <3>2. OfAttempt(n, item(i))
            BY BatchIs
        <3> HIDE DEF item
        <3> QED BY <3>1, <3>2 DEF OfAttempt, Matches, GivenAt
    <2>2. CASE f \in SecondRound(missed, retries)
        <3>1. PICK ev \in missed : f.ev = ev /\ f.item = retries[ev.id] /\ Matches(retries[ev.id], ev)
            <4> HIDE DEF missed, retries
            <4> QED BY <2>2 DEF SecondRound
        <3>2. PICK i \in asked : ev = events[i]
            OBVIOUS
        <3>3. i \in DOMAIN events /\ NeedsModel(events[i])
            BY <1>3
        <3>4. OfAttempt(n, retries[events[i].id])
            BY <3>3, BatchIs
        <3> HIDE DEF retries, events, asked
        <3> QED BY <3>1, <3>2, <3>4 DEF OfAttempt, Matches, GivenAt
    <2> QED BY <2>1, <2>2
<1>5. \A i, j \in DOMAIN events : events[i].id = events[j].id => i = j
    BY BatchIs
<1>6. \A i \in asked : Matches(retries[events[i].id], events[i]) => \E f \in found : f.ev = events[i]
    <2> SUFFICES ASSUME NEW i \in asked, Matches(retries[events[i].id], events[i]) PROVE \E f \in found : f.ev = events[i]
        OBVIOUS
    <2>1. CASE events[i] \in missed
        <3>1. [ev |-> events[i], item |-> retries[events[i].id]] \in SecondRound(missed, retries)
            <4> HIDE DEF missed, retries, events, asked
            <4> QED BY <2>1 DEF SecondRound
        <3>2. [ev |-> events[i], item |-> retries[events[i].id]].ev = events[i]
            OBVIOUS
        <3> HIDE DEF first, missed, retries, events, asked
        <3> QED BY <3>1, <3>2
    <2>2. CASE events[i] \notin missed
        <3>1. events[i] \in uncached
            OBVIOUS
        <3> HIDE DEF uncached, first
        <3> QED BY <2>2, <3>1
    <2> QED BY <2>1, <2>2
<1> HIDE DEF found, asked, events
<1>7. DOMAIN answered = DOMAIN cache \cup {f.ev.id : f \in found}
    OBVIOUS
<1>8. \A id \in DOMAIN answered : (\A f \in found : f.ev.id # id) => answered[id] = cache[id]
    OBVIOUS
<1>9. ASSUME NEW i \in DOMAIN events, events[i].id \in {f.ev.id : f \in found}
      PROVE  i \in asked /\ GivenAt(n, answered[events[i].id], events[i])
    <2> DEFINE f == CHOOSE g \in found : g.ev.id = events[i].id
    <2>1. f \in found /\ f.ev.id = events[i].id
        BY <1>9
    <2>2. answered[events[i].id] = f.item
        BY <1>7, <1>9
    <2> HIDE DEF f, answered
    <2>3. PICK j \in asked : f.ev = events[j] /\ GivenAt(n, f.item, events[j])
        BY <2>1, <1>4
    <2>4. j = i
        BY <2>1, <2>3, <1>3, <1>5
    <2> QED BY <2>2, <2>3, <2>4
<1>10. \A f \in found : f.ev.id \notin DOMAIN cache
    BY <1>3, <1>4
<1> HIDE DEF answered
<1>11. \A id \in DOMAIN cache : id \in DOMAIN out.cache /\ out.cache[id] = cache[id]
    BY <1>2, <1>7, <1>8, <1>10
<1>12. ASSUME NEW i \in DOMAIN events, NeedsModel(events[i])
       PROVE  /\ events[i].id \in DOMAIN out.cache \ DOMAIN cache => GivenAt(n, out.cache[events[i].id], events[i])
              /\ events[i].id \notin DOMAIN out.cache => ~Matches(retries[events[i].id], events[i])
    <2>1. events[i].id \in DOMAIN out.cache \ DOMAIN cache => GivenAt(n, out.cache[events[i].id], events[i])
        BY <1>2, <1>7, <1>9
    <2>2. ASSUME events[i].id \notin DOMAIN out.cache PROVE ~Matches(retries[events[i].id], events[i])
        <3>1. i \in asked
            BY <1>2, <1>3, <1>7, <1>12, <2>2
        <3> QED BY <1>2, <1>6, <1>7, <2>2, <3>1
    <2> QED BY <2>1, <2>2
<1>13. out.raised <=> \E i \in DOMAIN events : NeedsModel(events[i]) /\ events[i].id \notin DOMAIN out.cache
    BY <1>2, <1>3, <1>7
<1>14. out.raised => out.results = {}
    <2> HIDE DEF out
    <2> QED BY <1>1, <1>2
<1>15. ASSUME ~out.raised, NEW r \in out.results
       PROVE  \E i \in DOMAIN events :
              /\ r.ev = events[i]
              /\ r.given = IF NeedsModel(events[i]) THEN Merged(events[i], out.cache[events[i].id]) ELSE FromLabels(events[i])
    <2> HIDE DEF out, raised
    <2> QED BY <1>1, <1>2, <1>15
<1> QED BY <1>11, <1>12, <1>13, <1>14, <1>15 DEF EndsWith, events

\* What the batch ends with, delivered again if its first attempt fails.
Ended(b) == LET first == Attempted(b, 1, <<>>) IN IF first.raised THEN Attempted(b, 2, first.cache) ELSE first

\* The attempts at which an event was answered by a request of its own.
AnsweredAt(b, ev) == {n \in DOMAIN b.attempts : Matches(b.attempts[n].retries[ev.id], ev)}

\* The property, of one batch.
LEMMA BatchStays ==
    ASSUME NEW b \in Batches
    PROVE  /\ Ended(b).raised => \E ev \in ToSet(b.events) : NeedsModel(ev) /\ AnsweredAt(b, ev) = {}
           /\ \A r \in Ended(b).results :
                 IF r.ev.category # Unanswered THEN r.given.category = r.ev.category
                 ELSE /\ r.given.category.title = r.ev.title
                      /\ 1 \in AnsweredAt(b, r.ev) => r.given.category.attempt = 1
<1> DEFINE events == b.events
           one  == Attempted(b, 1, <<>>)
           two  == Attempted(b, 2, one.cache)
           out  == Ended(b)
<1>1. EndsWith(b, 1, <<>>, one) /\ EndsWith(b, 2, one.cache, two)
    BY AttemptEnds
<1>2. out = IF one.raised THEN two ELSE one
    BY DEF Ended
<1>3. \A ev : AnsweredAt(b, ev) = {n \in {1, 2} : Matches(b.attempts[n].retries[ev.id], ev)}
    BY BatchIs DEF AnsweredAt
<1>4. \A i \in DOMAIN events : events[i] \in ToSet(events)
    BY DEF ToSet
<1> HIDE DEF one, two, out
<1>5. ASSUME out.raised PROVE \E ev \in ToSet(events) : NeedsModel(ev) /\ AnsweredAt(b, ev) = {}
    <2>1. one.raised /\ out = two
        BY <1>2, <1>5
    <2>2. PICK i \in DOMAIN events : NeedsModel(events[i]) /\ events[i].id \notin DOMAIN two.cache
        BY <1>1, <1>5, <2>1 DEF EndsWith
    <2>3. events[i].id \notin DOMAIN one.cache
        BY <1>1, <2>2 DEF EndsWith
    <2>4. ~Matches(b.attempts[1].retries[events[i].id], events[i]) /\ ~Matches(b.attempts[2].retries[events[i].id], events[i])
        BY <1>1, <2>2, <2>3 DEF EndsWith
    <2>5. AnsweredAt(b, events[i]) = {}
        BY <1>3, <2>4
    <2> QED BY <1>4, <2>2, <2>5
<1>6. ASSUME NEW r \in out.results
      PROVE  IF r.ev.category # Unanswered THEN r.given.category = r.ev.category
             ELSE /\ r.given.category.title = r.ev.title
                  /\ 1 \in AnsweredAt(b, r.ev) => r.given.category.attempt = 1
    <2>1. ~out.raised /\ (out = one \/ (out = two /\ one.raised))
        BY <1>1, <1>2, <1>6 DEF EndsWith
    <2>2. PICK i \in DOMAIN events :
            /\ r.ev = events[i]
            /\ r.given = IF NeedsModel(events[i]) THEN Merged(events[i], out.cache[events[i].id]) ELSE FromLabels(events[i])
        BY <1>1, <1>6, <2>1 DEF EndsWith
    <2>3. CASE r.ev.category # Unanswered
        BY <2>2, <2>3 DEF Merged, FromLabels
    <2>4. CASE r.ev.category = Unanswered
        <3>1. NeedsModel(events[i])
            BY <2>2, <2>4 DEF NeedsModel
        <3>2. r.given.category = out.cache[events[i].id].category
            BY <2>2, <2>4, <3>1 DEF Merged
        <3>3. events[i].id \in DOMAIN out.cache
            BY <1>1, <2>1, <3>1 DEF EndsWith
        <3>4. \/ GivenAt(1, out.cache[events[i].id], events[i])
              \/ GivenAt(2, out.cache[events[i].id], events[i]) /\ ~Matches(b.attempts[1].retries[events[i].id], events[i])
            <4>1. DOMAIN <<>> = {}
                OBVIOUS
            <4>2. events[i].id \in DOMAIN one.cache => GivenAt(1, one.cache[events[i].id], events[i])
                BY <1>1, <3>1, <4>1 DEF EndsWith
            <4>3. CASE out = one
                BY <3>3, <4>2, <4>3
            <4>4. CASE out = two
                <5>1. CASE events[i].id \in DOMAIN one.cache
                    <6>1. two.cache[events[i].id] = one.cache[events[i].id]
                        BY <1>1, <5>1 DEF EndsWith
                    <6> QED BY <4>2, <4>4, <5>1, <6>1
                <5>2. CASE events[i].id \notin DOMAIN one.cache
                    <6>1. ~Matches(b.attempts[1].retries[events[i].id], events[i])
                        BY <1>1, <3>1, <5>2 DEF EndsWith
                    <6>2. GivenAt(2, two.cache[events[i].id], events[i])
                        BY <1>1, <3>1, <3>3, <4>4, <5>2 DEF EndsWith
                    <6> QED BY <4>4, <6>1, <6>2
                <5> QED BY <5>1, <5>2
            <4> QED BY <2>1, <4>3, <4>4
        <3>5. r.given.category.title = r.ev.title
            BY <2>2, <3>2, <3>4 DEF GivenAt
        <3>6. 1 \in AnsweredAt(b, r.ev) => r.given.category.attempt = 1
            <4>1. 1 \in AnsweredAt(b, r.ev) => Matches(b.attempts[1].retries[events[i].id], events[i])
                BY <1>3, <2>2
            <4>2. GivenAt(1, out.cache[events[i].id], events[i]) => out.cache[events[i].id].category.attempt = 1
                BY DEF GivenAt
            <4>3. SUFFICES ASSUME 1 \in AnsweredAt(b, r.ev) PROVE r.given.category.attempt = 1
                OBVIOUS
            <4>4. GivenAt(1, out.cache[events[i].id], events[i])
                BY <3>4, <4>1, <4>3
            <4> QED BY <3>2, <4>2, <4>4
        <3> QED BY <2>4, <3>5, <3>6
    <2> QED BY <2>3, <2>4
<1> QED BY <1>5, <1>6 DEF out

\* An answer about categories is what a batch ends with.
CategoriesAnswered ==
    question.asks = "categories" /\ answer # Unanswered =>
        question.batch \in Batches /\ answer = Ended(question.batch)

\* Whatever a batch of events holds and however the model answers its requests, a batch that fails and
\* is delivered again keeps every answer it got, gives none of them to another event, and fails only for
\* an event that was not answered (canonicalize_events, _llm_canonicalize, _match_chunk).
THEOREM AnswersKept == Asking => []AnswersStay
<1>1. Unasked => CategoriesAnswered
    BY DEF Unasked, CategoriesAnswered
<1>2. CategoriesAnswered /\ [Ask]_<<question, answer>> => CategoriesAnswered'
    <2> SUFFICES ASSUME CategoriesAnswered, [Ask]_<<question, answer>> PROVE CategoriesAnswered'
        OBVIOUS
    <2>1. CASE AskPair
        <3>1. PICK b \in Propositions : question' = [asks |-> "pair", a |-> question.a, b |-> b]
            BY <2>1, Zenon DEF AskPair
        <3> QED BY <3>1 DEF CategoriesAnswered
    <2>2. CASE AskListing
        <3>1. PICK C \in Listings : question' = [asks |-> "listing", contracts |-> C]
            BY <2>2, Zenon DEF AskListing
        <3> QED BY <3>1 DEF CategoriesAnswered
    <2>3. CASE AskMerge
        <3>1. PICK m \in Mergers : question' = [asks |-> "merge", merge |-> m]
            BY <2>3, Zenon DEF AskMerge
        <3> QED BY <3>1 DEF CategoriesAnswered
    <2>4. CASE AskFees
        <3>1. PICK h \in FeeHistories : question' = [asks |-> "fees", history |-> h]
            BY <2>4, Zenon DEF AskFees
        <3> QED BY <3>1 DEF CategoriesAnswered
    <2>5. CASE AskRates
        <3>1. PICK rates \in RateHistories : question' = [asks |-> "rates", rates |-> rates]
            BY <2>5, Zenon DEF AskRates
        <3> QED BY <3>1 DEF CategoriesAnswered
    <2>6. CASE AskCategories
        <3>1. PICK b \in Batches : question' = [asks |-> "categories", batch |-> b] /\ answer' = Ended(b)
            BY <2>6, Zenon DEF AskCategories, Ended, Attempted
        <3> QED BY <3>1 DEF CategoriesAnswered
    <2>7. CASE UNCHANGED <<question, answer>>
        BY <2>7 DEF CategoriesAnswered
    <2> QED BY <2>1, <2>2, <2>3, <2>4, <2>5, <2>6, <2>7 DEF Ask
<1>3. CategoriesAnswered => AnswersStay
    <2> SUFFICES ASSUME CategoriesAnswered, Answered("categories") PROVE AnswersStay
        BY Zenon DEF AnswersStay
    <2>1. question.batch \in Batches /\ answer = Ended(question.batch)
        BY DEF CategoriesAnswered, Answered
    <2> DEFINE b == question.batch
    <2>2. /\ answer.raised => \E ev \in ToSet(b.events) : NeedsModel(ev) /\ AnsweredAt(b, ev) = {}
          /\ \A r \in answer.results :
                IF r.ev.category # Unanswered THEN r.given.category = r.ev.category
                ELSE /\ r.given.category.title = r.ev.title
                     /\ 1 \in AnsweredAt(b, r.ev) => r.given.category.attempt = 1
        BY <2>1, BatchStays
    <2> QED BY <2>2 DEF AnswersStay, AnsweredAt
<1> QED BY <1>1, <1>2, <1>3, PTL DEF Asking

-----------------------------------------------------------------------------
(* Keys that are short for others, followed step by step, and what is left  *)
(* out of a unit, step by step.                                            *)

\* A set with 0 and every number after one it has has all.
LEMMA FromZero ==
    ASSUME NEW S, 0 \in S, \A n \in Nat : n \in S => n + 1 \in S
    PROVE  Nat \subseteq S
<1> SUFFICES ASSUME Nat \ S # {} PROVE FALSE
    OBVIOUS
<1>1. [n \in Nat \ S |-> n] \in [Nat \ S -> Nat]
    OBVIOUS
<1>2. PICK n \in Nat \ S : \A m \in Nat \ S : n <= m
    BY <1>1, LeastBy
<1>3. n # 0
    BY <1>2
<1>4. n - 1 \in Nat /\ (n - 1) + 1 = n /\ ~(n <= n - 1)
    BY <1>2, <1>3
<1> QED BY <1>2, <1>4

\* What a key of C is short for, if it is short for one.
OneStep(C, x) == IF x \in Aliases(C) THEN CHOOSE l \in LongerKeys(C, x) : TRUE ELSE x

\* to goes from a key step by step.
Walks(C, key, n, to) == to = [i \in 0..n |-> IF i = 0 THEN key ELSE OneStep(C, to[i - 1])]

\* From every key there is such a walk, of any length.
LEMMA StepsTaken ==
    ASSUME NEW C, NEW key, NEW n \in Nat
    PROVE  \E to : Walks(C, key, n, to)
<1> DEFINE S == {k \in Nat : \E to : Walks(C, key, k, to)}
<1>1. 0 \in S
    <2>1. Walks(C, key, 0, [i \in 0..0 |-> key])
        BY DEF Walks
    <2> QED BY <2>1
<1>2. ASSUME NEW k \in Nat, k \in S PROVE k + 1 \in S
    <2>1. PICK to : Walks(C, key, k, to)
        BY <1>2
    <2> DEFINE more == [i \in 0..(k + 1) |-> IF i = k + 1 THEN OneStep(C, to[k]) ELSE to[i]]
    <2>2. \A i \in 0..k : more[i] = to[i]
        OBVIOUS
    <2>3. \A i \in 0..(k + 1) : more[i] = IF i = 0 THEN key ELSE OneStep(C, more[i - 1])
        <3>1. ASSUME NEW i \in 0..k PROVE more[i] = IF i = 0 THEN key ELSE OneStep(C, more[i - 1])
            <4>1. to[i] = IF i = 0 THEN key ELSE OneStep(C, to[i - 1])
                BY <2>1 DEF Walks
            <4>2. i # 0 => i - 1 \in 0..k
                OBVIOUS
            <4> HIDE DEF more
            <4> QED BY <2>2, <4>1, <4>2
        <3>2. more[k + 1] = OneStep(C, more[k])
            <4>1. more[k + 1] = OneStep(C, to[k])
                OBVIOUS
            <4> QED BY <2>2, <4>1
        <3> HIDE DEF more
        <3> QED BY <3>1, <3>2
    <2>4. DOMAIN more = 0..(k + 1) /\ more = [i \in 0..(k + 1) |-> more[i]]
        OBVIOUS
    <2> HIDE DEF more
    <2>5. Walks(C, key, k + 1, more)
        BY <2>3, <2>4 DEF Walks
    <2> QED BY <2>5
<1>3. Nat \subseteq S
    <2> HIDE DEF S
    <2> QED BY <1>1, <1>2, FromZero
<1> QED BY <1>3

\* What a key resolves to is where such a walk ends.
LEMMA ResolveIs ==
    ASSUME NEW C, IsFiniteSet(Aliases(C)), NEW key
    PROVE  \E n \in Nat : \E to : Walks(C, key, n, to) /\ Resolve(C, key) = to[n]
<1> DEFINE n == Cardinality(Aliases(C))
           chosen == CHOOSE to : Walks(C, key, n, to)
<1>1. n \in Nat
    BY FS_CardinalityType
<1>2. Resolve(C, key) = chosen[n]
    BY DEF Resolve, OneStep, Walks
<1> HIDE DEF n
<1>3. \E to : Walks(C, key, n, to)
    BY <1>1, StepsTaken
<1>4. Walks(C, key, n, chosen)
    BY <1>3
<1> HIDE DEF chosen
<1> QED BY <1>1, <1>2, <1>4

\* It is a key of the subject, for one of its keys, and the key itself, if that is not short for another.
LEMMA ResolvesTo ==
    ASSUME NEW C, IsFiniteSet(Aliases(C)), NEW key
    PROVE  /\ key \in SubjectKeys(C) => Resolve(C, key) \in SubjectKeys(C)
           /\ key \notin Aliases(C) => Resolve(C, key) = key
<1>1. PICK n \in Nat : \E to : Walks(C, key, n, to) /\ Resolve(C, key) = to[n]
    BY ResolveIs
<1>6. PICK to : Walks(C, key, n, to) /\ Resolve(C, key) = to[n]
    BY <1>1
<1>2. to = [i \in 0..n |-> IF i = 0 THEN key ELSE OneStep(C, to[i - 1])]
    BY <1>6 DEF Walks
<1>3. ASSUME NEW Good, key \in Good, \A x \in Good : OneStep(C, x) \in Good
      PROVE  Resolve(C, key) \in Good
    <2> DEFINE S == {i \in Nat : i \in 0..n => to[i] \in Good}
    <2>1. 0 \in S
        BY <1>2, <1>3
    <2>2. ASSUME NEW i \in Nat, i \in S PROVE i + 1 \in S
        <3>1. i + 1 \in 0..n => i \in 0..n /\ to[i + 1] = OneStep(C, to[i])
            <4>1. ASSUME i + 1 \in 0..n PROVE i \in 0..n /\ to[i + 1] = OneStep(C, to[i])
                <5>1. i \in 0..n /\ i + 1 # 0 /\ (i + 1) - 1 = i
                    BY <4>1
                <5>2. to[i + 1] = OneStep(C, to[(i + 1) - 1])
                    BY <1>2, <4>1, <5>1
                <5> QED BY <5>1, <5>2
            <4> QED BY <4>1
        <3> QED BY <1>3, <2>2, <3>1
    <2>3. Nat \subseteq S
        <3> HIDE DEF S
        <3> QED BY <2>1, <2>2, FromZero
    <2> QED BY <1>6, <2>3
<1>4. ASSUME NEW x \in SubjectKeys(C) PROVE OneStep(C, x) \in SubjectKeys(C)
    <2>1. CASE x \in Aliases(C)
        <3>1. Cardinality(LongerKeys(C, x)) = 1
            BY <2>1 DEF Aliases
        <3>2. LongerKeys(C, x) # {}
            BY <3>1, FS_EmptySet
        <3>3. OneStep(C, x) \in LongerKeys(C, x)
            BY <2>1, <3>2 DEF OneStep
        <3> QED BY <3>3 DEF LongerKeys
    <2>2. CASE x \notin Aliases(C)
        BY <2>2 DEF OneStep
    <2> QED BY <2>1, <2>2
<1>5. ASSUME key \notin Aliases(C) PROVE Resolve(C, key) = key
    <2>1. \A x \in {key} : OneStep(C, x) \in {key}
        BY <1>5 DEF OneStep
    <2> QED BY <1>3, <2>1
<1> QED BY <1>3, <1>4, <1>5

\* What is left out, step by step.
LeavesOut(C, n, leftOut) ==
    leftOut = [i \in 0..n |-> IF i = 0 THEN {} ELSE leftOut[i - 1] \cup Collisions(C, DerivePairs(C, leftOut[i - 1]))]

\* The rows of a unit are those between what is not left out, and what is left out is of the unit.
LEMMA SettledAre ==
    ASSUME NEW C, IsFiniteSet(C)
    PROVE  SettledRows(C).rows = DerivePairs(C, SettledRows(C).out) /\ SettledRows(C).out \subseteq C
<1> DEFINE n == Cardinality(C)
           chosen == CHOOSE leftOut : LeavesOut(C, n, leftOut)
           once == Collisions(C, DerivePairs(C, {}))
           all == [i \in 0..n |-> IF i = 0 THEN {} ELSE once]
<1>1. n \in Nat
    BY FS_CardinalityType
<1>2. SettledRows(C) = [rows |-> DerivePairs(C, chosen[n]), out |-> chosen[n]]
    BY DEF SettledRows, LeavesOut
<1> HIDE DEF n
<1>3. Collisions(C, DerivePairs(C, once)) \subseteq once
    <2>1. DerivePairs(C, once) \subseteq DerivePairs(C, {})
        <3> HIDE DEF once
        <3> QED BY DEF DerivePairs
    <2>2. \A S, T : S \subseteq T => Collisions(C, S) \subseteq Collisions(C, T)
        BY DEF Collisions
    <2> QED BY <2>1, <2>2
<1>4. LeavesOut(C, n, all)
    <2>1. \A i \in 0..n : all[i] = IF i = 0 THEN {} ELSE once
        OBVIOUS
    <2>2. all = [i \in 0..n |-> all[i]]
        OBVIOUS
    <2>3. ASSUME NEW i \in 0..n
          PROVE  all[i] = IF i = 0 THEN {} ELSE all[i - 1] \cup Collisions(C, DerivePairs(C, all[i - 1]))
        <3>1. CASE i = 0
            BY <2>1, <3>1
        <3>2. CASE i = 1
            <4>1. all[i] = once /\ all[i - 1] = {}
                BY <1>1, <2>1, <3>2
            <4> HIDE DEF all
            <4> QED BY <3>2, <4>1
        <3>3. CASE i > 1
            <4>1. i - 1 \in 0..n /\ i - 1 # 0 /\ i # 0
                BY <1>1, <3>3
            <4>2. all[i] = once /\ all[i - 1] = once
                BY <2>1, <4>1
            <4> HIDE DEF all, once
            <4> QED BY <1>3, <4>1, <4>2
        <3> QED BY <1>1, <3>1, <3>2, <3>3
    <2> HIDE DEF all
    <2> QED BY <2>2, <2>3 DEF LeavesOut
<1>5. LeavesOut(C, n, chosen)
    <2>1. \E leftOut : LeavesOut(C, n, leftOut)
        <3> HIDE DEF all
        <3> QED BY <1>4
    <2> QED BY <2>1
<1> HIDE DEF chosen, all, once
<1>6. \A i \in 0..n : chosen[i] = IF i = 0 THEN {}
                                  ELSE chosen[i - 1] \cup Collisions(C, DerivePairs(C, chosen[i - 1]))
    BY <1>5 DEF LeavesOut
<1> DEFINE S == {i \in Nat : i \in 0..n => chosen[i] \subseteq C}
<1>7. 0 \in S
    BY <1>6
<1>8. ASSUME NEW i \in Nat, i \in S PROVE i + 1 \in S
    <2>1. ASSUME i + 1 \in 0..n PROVE chosen[i + 1] \subseteq C
        <3>1. i \in 0..n /\ i + 1 # 0 /\ (i + 1) - 1 = i
            BY <1>1, <2>1
        <3>2. chosen[i + 1] = chosen[i] \cup Collisions(C, DerivePairs(C, chosen[i]))
            BY <1>6, <2>1, <3>1
        <3>3. chosen[i] \subseteq C
            BY <1>8, <3>1
        <3> QED BY <3>2, <3>3 DEF Collisions
    <2> QED BY <2>1
<1>9. n \in S
    <2> HIDE DEF S
    <2> QED BY <1>1, <1>7, <1>8, FromZero
<1> QED BY <1>1, <1>2, <1>9

-----------------------------------------------------------------------------
(* Keys renamed in a proposition. *)

\* What a key is called once renamed.
Spelled(keys, k) == IF k \in DOMAIN keys THEN keys[k] ELSE k

\* A score's sides, renamed.
SidesSpelled(scores, keys) ==
    [k \in {Spelled(keys, s) : s \in DOMAIN scores} |-> scores[CHOOSE s \in DOMAIN scores : Spelled(keys, s) = k]]

\* The fields no renaming touches.
KeptFields == Fields \ {"entity", "measure", "scores"}

\* A proposition with all its fields.
Plain(p) ==
    /\ p = [x \in Fields |-> p[x]]
    /\ p.measure = None \/ p.measure = [head |-> p.measure.head, of |-> p.measure.of]
    /\ p.scores = None \/ (p.scores = [s \in DOMAIN p.scores |-> p.scores[s]] /\ IsFiniteSet(DOMAIN p.scores))

\* Renaming changes the keys only.
LEMMA RenamedIs ==
    ASSUME NEW p, Plain(p), NEW keys
    PROVE  /\ Renamed(p, keys) = [x \in Fields |-> Renamed(p, keys)[x]]
           /\ \A x \in KeptFields : Renamed(p, keys)[x] = p[x]
           /\ Renamed(p, keys).entity = Spelled(keys, p.entity)
           /\ Renamed(p, keys).measure = IF p.measure = None THEN None
                                         ELSE [head |-> p.measure.head, of |-> Spelled(keys, p.measure.of)]
           /\ Renamed(p, keys).scores = IF p.scores = None THEN None ELSE SidesSpelled(p.scores, keys)
<1> DEFINE measure == IF p.measure = None THEN p.measure ELSE [p.measure EXCEPT !.of = Spelled(keys, @)]
           scores == IF p.scores = None THEN p.scores ELSE SidesSpelled(p.scores, keys)
<1>1. Renamed(p, keys) = [p EXCEPT !.entity = Spelled(keys, p.entity), !.measure = measure, !.scores = scores]
    BY DEF Renamed, Spelled, SidesSpelled
<1>2. p.measure # None => measure = [head |-> p.measure.head, of |-> Spelled(keys, p.measure.of)]
    BY DEF Plain
<1> HIDE DEF measure, scores
<1>3. Renamed(p, keys) = [x \in Fields |-> IF x = "entity" THEN Spelled(keys, p.entity)
                                           ELSE IF x = "measure" THEN measure
                                           ELSE IF x = "scores" THEN scores ELSE p[x]]
    BY <1>1 DEF Plain, Fields
<1>4. {"entity", "measure", "scores"} \subseteq Fields
    BY DEF Fields
<1>5. /\ Renamed(p, keys).entity = Spelled(keys, p.entity)
      /\ Renamed(p, keys).measure = measure /\ Renamed(p, keys).scores = scores
    BY <1>3, <1>4
<1>6. \A x \in KeptFields : Renamed(p, keys)[x] = p[x]
    BY <1>3 DEF KeptFields
<1>7. Renamed(p, keys) = [x \in Fields |-> Renamed(p, keys)[x]]
    BY <1>3
<1>8. measure = IF p.measure = None THEN None ELSE [head |-> p.measure.head, of |-> Spelled(keys, p.measure.of)]
    BY <1>2 DEF measure
<1>9. scores = IF p.scores = None THEN None ELSE SidesSpelled(p.scores, keys)
    BY DEF scores
<1> QED BY <1>5, <1>6, <1>7, <1>8, <1>9

-----------------------------------------------------------------------------
(* Propositions under other names: nothing the rules say of them depends on *)
(* what their keys are called, as long as no two are called alike, nor on  *)
(* what a measure is called that no rule reads by name.                    *)

\* No two keys are spelled alike, and what has no key has none.
KeepsKeys(f) == IsInjective(f) /\ None \in DOMAIN f /\ f[None] = None

\* A measure's head is what it was, or neither is one a rule reads.
HeadAlike(h, k) == h = k \/ {h, k} \cap ReadHeads = {}

\* What measures are called, whose the rules read are called what they were.
HeadsKept(heads) == \A m \in DOMAIN heads : HeadAlike(m.head, heads[m])

\* A rule that reads heads reads such two alike.
LEMMA HeadsRead ==
    ASSUME NEW h, NEW k, HeadAlike(h, k)
    PROVE  /\ (k = "margin" <=> h = "margin") /\ (k = "winner" <=> h = "winner") /\ (k = "seats" <=> h = "seats")
           /\ (k = "team_goals" <=> h = "team_goals") /\ (k = "total_goals" <=> h = "total_goals")
           /\ (k \in CountedHeads <=> h \in CountedHeads) /\ (k \in ContestHeads <=> h \in ContestHeads)
           /\ (k \in ExclusiveHeads <=> h \in ExclusiveHeads)
<1>1. {"margin", "winner", "seats", "team_goals", "total_goals"} \subseteq ReadHeads
    BY DEF ReadHeads, CountedHeads
<1>2. CountedHeads \subseteq ReadHeads /\ ContestHeads \subseteq ReadHeads /\ ExclusiveHeads \subseteq ReadHeads
    BY DEF ReadHeads
<1> QED BY <1>1, <1>2 DEF HeadAlike

\* r is read as p is, but for its keys.
ReadAs(p, r) ==
    /\ p = [x \in Fields |-> p[x]] /\ r = [x \in Fields |-> r[x]]
    /\ r.kind = p.kind /\ r.comparator = p.comparator /\ r.value = p.value /\ r.unit = p.unit
    /\ r.low = p.low /\ r.lowIn = p.lowIn /\ r.high = p.high /\ r.highIn = p.highIn
    /\ r.observation = p.observation /\ r.start = p.start /\ r.end = p.end /\ r.scope = p.scope
    /\ r.stability = p.stability /\ r.negated = p.negated /\ r.game = p.game
    /\ r.undated = p.undated /\ r.senate = p.senate

\* r.scores are those of p, of the sides' other names.
ScoredAs(f, p, r) ==
    \E s, t \in DOMAIN f :
        /\ s # t /\ p.scores \in [{s, t} -> Int] /\ r.scores \in [{f[s], f[t]} -> Int]
        /\ r.scores[f[s]] = p.scores[s] /\ r.scores[f[t]] = p.scores[t] /\ r.scores # None

\* r is p with its keys spelled by f, and its measure's head by heads.
SpelledBy(f, heads, p, r) ==
    /\ ReadAs(p, r)
    /\ p.entity \in DOMAIN f /\ r.entity = f[p.entity]
    /\ IF p.measure = None THEN r.measure = None
       ELSE /\ p.measure = [head |-> p.measure.head, of |-> p.measure.of]
            /\ p.measure \in DOMAIN heads /\ p.measure.of \in DOMAIN f
            /\ r.measure = [head |-> heads[p.measure], of |-> f[p.measure.of]] /\ r.measure # None
    /\ IF p.scores = None THEN r.scores = None ELSE ScoredAs(f, p, r)

\* Rivals are rivals by their other names, and a draw is called what it was.
RivalsKept(f, R, S) == \A k, l \in DOMAIN f : {k, l} \in R => {f[k], f[l]} \in S
TieKept(f) == \A k \in DOMAIN f : f[k] = "tie" <=> k = "tie"

\* a and b name one thing when x and y, which are a and b by their other names, do.
NamedAs(a, b, x, y) ==
    /\ (a.measure = b.measure => x.measure = y.measure)
    /\ (x.measure.head = a.measure.head /\ y.measure.head = b.measure.head =>
            (x.measure = y.measure <=> a.measure = b.measure))
    /\ (x.entity = y.entity <=> a.entity = b.entity)
    /\ (SameEntity(x, y) <=> SameEntity(a, b))
    /\ (x.measure.of = y.entity <=> a.measure.of = b.entity)
    /\ HeadAlike(a.measure.head, x.measure.head) /\ HeadAlike(b.measure.head, y.measure.head)

\* Two propositions name one thing before when they do after.
LEMMA NamedAlike ==
    ASSUME NEW f, KeepsKeys(f), NEW heads, HeadsKept(heads), NEW a, NEW b, NEW x, NEW y,
           SpelledBy(f, heads, a, x), SpelledBy(f, heads, b, y), a.measure # None, b.measure # None
    PROVE  NamedAs(a, b, x, y)
<1>1. \A k, l \in DOMAIN f : f[k] = f[l] => k = l
    BY DEF KeepsKeys, IsInjective
<1>2. /\ x.measure.head = heads[a.measure] /\ y.measure.head = heads[b.measure]
      /\ a.measure \in DOMAIN heads /\ b.measure \in DOMAIN heads
      /\ x.measure.of = f[a.measure.of] /\ y.measure.of = f[b.measure.of]
      /\ {a.measure.of, b.measure.of, a.entity, b.entity} \subseteq DOMAIN f
      /\ x.entity = f[a.entity] /\ y.entity = f[b.entity]
      /\ x.measure = [head |-> x.measure.head, of |-> x.measure.of] /\ y.measure = [head |-> y.measure.head, of |-> y.measure.of]
      /\ a.measure = [head |-> a.measure.head, of |-> a.measure.of] /\ b.measure = [head |-> b.measure.head, of |-> b.measure.of]
    BY DEF SpelledBy
<1>3. /\ (x.measure = y.measure) <=> (x.measure.head = y.measure.head /\ x.measure.of = y.measure.of)
      /\ (a.measure = b.measure) <=> (a.measure.head = b.measure.head /\ a.measure.of = b.measure.of)
    BY <1>2
<1>8. a.measure = b.measure => x.measure = y.measure
    BY <1>2, <1>3
<1>9. x.measure.head = a.measure.head /\ y.measure.head = b.measure.head =>
          (x.measure = y.measure <=> a.measure = b.measure)
    BY <1>1, <1>2, <1>3
<1>4. (x.entity = y.entity <=> a.entity = b.entity)
    BY <1>1, <1>2
<1>5. None \in DOMAIN f /\ f[None] = None
    BY DEF KeepsKeys
<1>6. /\ (x.entity = None <=> a.entity = None) /\ (y.entity = None <=> b.entity = None)
      /\ (x.measure.of = y.entity <=> a.measure.of = b.entity)
      /\ (x.measure.of = x.entity <=> a.measure.of = a.entity)
    BY <1>1, <1>2, <1>5
<1>7. (SameEntity(x, y) <=> SameEntity(a, b))
    BY <1>4, <1>6 DEF SameEntity
<1>10. HeadAlike(a.measure.head, x.measure.head) /\ HeadAlike(b.measure.head, y.measure.head)
    BY <1>2 DEF HeadsKept
<1> QED BY <1>4, <1>6, <1>7, <1>8, <1>9, <1>10 DEF NamedAs

\* What a proposition's numbers are does not depend on its keys.
LEMMA ValuesAlike ==
    ASSUME NEW a, NEW x, ReadAs(a, x), HeadAlike(a.measure.head, x.measure.head)
    PROVE  ValueSet(x) = ValueSet(a) /\ ValueSet(Scaled(x)) = ValueSet(Scaled(a)) /\ Scale(x) = Scale(a)
           /\ ContestResult(x) = ContestResult(a)
<1>1. \A p, r : /\ r.kind = p.kind /\ r.comparator = p.comparator /\ r.value = p.value /\ r.unit = p.unit
               /\ r.low = p.low /\ r.lowIn = p.lowIn /\ r.high = p.high /\ r.highIn = p.highIn
               /\ r.negated = p.negated /\ HeadAlike(p.measure.head, r.measure.head)
               => ValueSet(r) = ValueSet(p)
    <2> SUFFICES ASSUME NEW p, NEW r,
                        r.kind = p.kind, r.comparator = p.comparator, r.value = p.value, r.unit = p.unit,
                        r.low = p.low, r.lowIn = p.lowIn, r.high = p.high, r.highIn = p.highIn,
                        r.negated = p.negated, HeadAlike(p.measure.head, r.measure.head)
                 PROVE  ValueSet(r) = ValueSet(p)
        OBVIOUS
    <2>1. BaseInterval(r) = BaseInterval(p)
        BY DEF BaseInterval
    <2>2. WholeNumbers(r) = WholeNumbers(p)
        BY HeadsRead DEF WholeNumbers
    <2> QED BY <2>1, <2>2 DEF ValueSet
<1>5. ContestResult(x) = ContestResult(a)
    BY HeadsRead DEF ReadAs, ContestResult
<1>2. ValueSet(x) = ValueSet(a) /\ Scale(x) = Scale(a) /\ ContestResult(x) = ContestResult(a)
    BY <1>1, <1>5 DEF ReadAs, Scale
<1>3. CASE Scale(a) = 1
    BY <1>2, <1>3 DEF Scaled
<1>4. CASE Scale(a) # 1
    <2> DEFINE s == Scaled(x)
               t == Scaled(a)
    <2>1. \A p : p = [z \in Fields |-> p[z]] /\ Scale(p) # 1 =>
              /\ Scaled(p).kind = p.kind /\ Scaled(p).comparator = p.comparator /\ Scaled(p).unit = p.unit
              /\ Scaled(p).lowIn = p.lowIn /\ Scaled(p).highIn = p.highIn /\ Scaled(p).negated = p.negated
              /\ Scaled(p).measure = p.measure
              /\ Scaled(p).value = IF p.value = None THEN p.value ELSE p.value * Scale(p)
              /\ Scaled(p).low = IF p.low = None THEN p.low ELSE p.low * Scale(p)
              /\ Scaled(p).high = IF p.high = None THEN p.high ELSE p.high * Scale(p)
        BY DEF Scaled, Fields
    <2>2. Scale(x) # 1 /\ a = [z \in Fields |-> a[z]] /\ x = [z \in Fields |-> x[z]]
        BY <1>2, <1>4 DEF ReadAs
    <2> QED BY <1>1, <1>2, <1>4, <2>1, <2>2 DEF ReadAs
<1> QED BY <1>2, <1>3, <1>4

\* Nor does when it is read.
LEMMA TimedAlike ==
    ASSUME NEW a, NEW b, NEW x, NEW y, ReadAs(a, x), ReadAs(b, y),
           HeadAlike(a.measure.head, x.measure.head), HeadAlike(b.measure.head, y.measure.head)
    PROVE  /\ SameReading(x, y) = SameReading(a, b) /\ ScopeMatches(x, y) = ScopeMatches(a, b)
           /\ StartsTogether(x, y) = StartsTogether(a, b) /\ WinnerTiming(x, y) = WinnerTiming(a, b)
<1>1. ContestResult(x) = ContestResult(a) /\ ContestResult(y) = ContestResult(b)
    BY ValuesAlike
<1>2. ScopeMatches(x, y) = ScopeMatches(a, b)
    BY DEF ReadAs, ScopeMatches
<1>3. StartsTogether(x, y) = StartsTogether(a, b)
    BY DEF ReadAs, StartsTogether
<1>4. ContestDeadlineFlags(x, y) = ContestDeadlineFlags(a, b)
    BY DEF ReadAs, ContestDeadlineFlags
<1>5. Settled(x, y) = Settled(a, b)
    BY DEF ReadAs, Settled
<1>6. SameReading(x, y) = SameReading(a, b)
    BY <1>1, <1>3, <1>4, <1>5 DEF ReadAs, SameReading
<1>7. WinnerTiming(x, y) = WinnerTiming(a, b)
    BY <1>4 DEF ReadAs, WinnerTiming
<1> QED BY <1>2, <1>3, <1>6, <1>7

\* Two propositions' values compare as they do by their other names, if they are of one measure when they were.
LEMMA ValuesKept ==
    ASSUME NEW f, KeepsKeys(f), NEW heads, HeadsKept(heads), NEW a, NEW b, NEW x, NEW y,
           SpelledBy(f, heads, a, x), SpelledBy(f, heads, b, y), a.measure # None, b.measure # None, x.measure = y.measure <=> a.measure = b.measure
    PROVE  Values(x, y) = Values(a, b)
<1>1. ReadAs(a, x) /\ ReadAs(b, y)
    BY DEF SpelledBy
<1>0. NamedAs(a, b, x, y)
    BY NamedAlike
<1>2. /\ (SameEntity(x, y) <=> SameEntity(a, b))
      /\ HeadAlike(a.measure.head, x.measure.head) /\ HeadAlike(b.measure.head, y.measure.head)
    BY <1>0 DEF NamedAs
<1>3. /\ ValueSet(x) = ValueSet(a) /\ ValueSet(Scaled(x)) = ValueSet(Scaled(a)) /\ Scale(x) = Scale(a)
      /\ ValueSet(y) = ValueSet(b) /\ ValueSet(Scaled(y)) = ValueSet(Scaled(b)) /\ Scale(y) = Scale(b)
      /\ ContestResult(x) = ContestResult(a)
    BY <1>1, <1>2, ValuesAlike
<1>4. SameReading(x, y) = SameReading(a, b) /\ ScopeMatches(x, y) = ScopeMatches(a, b)
    BY <1>1, <1>2, TimedAlike
<1>5. SameUnits(x, y) = SameUnits(a, b) /\ Sized(x, y) = Sized(a, b) /\ OneSide(x, y) = OneSide(a, b)
    BY <1>1, <1>3 DEF ReadAs, SameUnits, Sized, OneSide
<1>6. Comparable(x, y) = Comparable(a, b)
    BY <1>1, <1>2, <1>3, <1>4, <1>5 DEF ReadAs, Comparable
<1> QED BY <1>3, <1>4, <1>6 DEF Values

\* Two propositions' deadlines compare as they do by their other names.
LEMMA DeadlinesKept ==
    ASSUME NEW f, KeepsKeys(f), NEW heads, HeadsKept(heads), NEW a, NEW b, NEW x, NEW y,
           SpelledBy(f, heads, a, x), SpelledBy(f, heads, b, y), a.measure # None, b.measure # None, x.measure = y.measure <=> a.measure = b.measure, NEW sameVenue
    PROVE  Deadlines(x, y, sameVenue) = Deadlines(a, b, sameVenue)
<1>1. ReadAs(a, x) /\ ReadAs(b, y)
    BY DEF SpelledBy
<1>0. NamedAs(a, b, x, y)
    BY NamedAlike
<1>2. /\ (SameEntity(x, y) <=> SameEntity(a, b))
      /\ HeadAlike(a.measure.head, x.measure.head) /\ HeadAlike(b.measure.head, y.measure.head)
    BY <1>0 DEF NamedAs
<1>3. ScopeMatches(x, y) = ScopeMatches(a, b) /\ StartsTogether(x, y) = StartsTogether(a, b)
    BY <1>1, <1>2, TimedAlike
<1> QED BY <1>1, <1>2, <1>3 DEF Deadlines, ReadAs

\* A margin implies its side's win, and a team's total the game's, under the other names too.
LEMMA ImpliedKept ==
    ASSUME NEW f, KeepsKeys(f), NEW heads, HeadsKept(heads), NEW a, NEW b, NEW x, NEW y,
           SpelledBy(f, heads, a, x), SpelledBy(f, heads, b, y), a.measure # None, b.measure # None
    PROVE  /\ MarginImpliesWinner(x, y) = MarginImpliesWinner(a, b)
           /\ TeamTotalImpliesTotal(x, y) = TeamTotalImpliesTotal(a, b)
<1>1. ReadAs(a, x) /\ ReadAs(b, y)
    BY DEF SpelledBy
<1>0. NamedAs(a, b, x, y)
    BY NamedAlike
<1>2. /\ (SameEntity(x, y) <=> SameEntity(a, b)) /\ (x.measure.of = y.entity <=> a.measure.of = b.entity)
      /\ HeadAlike(a.measure.head, x.measure.head) /\ HeadAlike(b.measure.head, y.measure.head)
    BY <1>0 DEF NamedAs
<1>3. ScopeMatches(x, y) = ScopeMatches(a, b)
    BY <1>1, <1>2, TimedAlike
<1>4. ValueSet(x) = ValueSet(a) /\ ValueSet(y) = ValueSet(b)
    BY <1>1, <1>2, ValuesAlike
<1>7. /\ (x.measure.head = "margin" <=> a.measure.head = "margin")
      /\ (x.measure.head = "team_goals" <=> a.measure.head = "team_goals")
      /\ (y.measure.head = "winner" <=> b.measure.head = "winner")
      /\ (y.measure.head = "total_goals" <=> b.measure.head = "total_goals")
    BY <1>2, HeadsRead
<1>5. MarginImpliesWinner(x, y) = MarginImpliesWinner(a, b)
    BY <1>1, <1>2, <1>3, <1>4, <1>7 DEF MarginImpliesWinner, ReadAs
<1>6. TeamTotalImpliesTotal(x, y) = TeamTotalImpliesTotal(a, b)
    BY <1>1, <1>2, <1>3, <1>4, <1>7 DEF TeamTotalImpliesTotal, ReadAs
<1> QED BY <1>5, <1>6

\* Winners: what one event lists together may be listed so by another as well.
LEMMA WinnersKept ==
    ASSUME NEW f, KeepsKeys(f), NEW heads, HeadsKept(heads), NEW a, NEW b, NEW x, NEW y,
           SpelledBy(f, heads, a, x), SpelledBy(f, heads, b, y), a.measure # None, b.measure # None, NEW R, NEW S, RivalsKept(f, R, S),
           Winners(a, b, R) # None
    PROVE  Winners(x, y, S) = Winners(a, b, R)
<1>1. ReadAs(a, x) /\ ReadAs(b, y)
    BY DEF SpelledBy
<1>0. NamedAs(a, b, x, y)
    BY NamedAlike
<1>2. /\ (a.measure = b.measure => x.measure = y.measure) /\ (x.entity = y.entity <=> a.entity = b.entity)
      /\ HeadAlike(a.measure.head, x.measure.head) /\ HeadAlike(b.measure.head, y.measure.head)
    BY <1>0 DEF NamedAs
<1>3. ScopeMatches(x, y) = ScopeMatches(a, b) /\ WinnerTiming(x, y) = WinnerTiming(a, b)
    BY <1>1, <1>2, TimedAlike
<1>4. Exclude(a, b, R) => Exclude(x, y, S)
    BY <1>1, <1>2, HeadsRead DEF Exclude, SpelledBy, RivalsKept
<1>5. a.measure = b.measure
    BY DEF Winners
<1> QED BY <1>1, <1>2, <1>3, <1>4, <1>5 DEF Winners, ReadAs

-----------------------------------------------------------------------------
(* Scores *)

\* A score's sides are s and t, and their other names.
TwoSides(f, a, x, s, t) ==
    /\ s # t /\ f[s] # f[t]
    /\ DOMAIN a.scores = {s, t} /\ DOMAIN x.scores = {f[s], f[t]}
    /\ a.scores[s] \in Int /\ a.scores[t] \in Int
    /\ x.scores[f[s]] = a.scores[s] /\ x.scores[f[t]] = a.scores[t]
    /\ a.scores = [z \in {s, t} |-> a.scores[z]] /\ x.scores = [z \in {f[s], f[t]} |-> x.scores[z]]

\* A score by other names has its two sides by their other names.
LEMMA ScoresAre ==
    ASSUME NEW f, KeepsKeys(f), NEW heads, HeadsKept(heads), NEW a, NEW x, SpelledBy(f, heads, a, x), a.scores # None
    PROVE  \E s, t \in DOMAIN f : TwoSides(f, a, x, s, t)
<1>1. ScoredAs(f, a, x)
    BY DEF SpelledBy
<1>2. PICK s, t \in DOMAIN f :
        /\ s # t /\ a.scores \in [{s, t} -> Int] /\ x.scores \in [{f[s], f[t]} -> Int]
        /\ x.scores[f[s]] = a.scores[s] /\ x.scores[f[t]] = a.scores[t] /\ x.scores # None
    BY <1>1 DEF ScoredAs
<1>3. f[s] # f[t]
    BY <1>2 DEF KeepsKeys, IsInjective
<1> QED BY <1>2, <1>3 DEF TwoSides

\* Two scores are one before when they are after.
LEMMA OneScore ==
    ASSUME NEW f, KeepsKeys(f), NEW heads, HeadsKept(heads), NEW a, NEW b, NEW x, NEW y,
           SpelledBy(f, heads, a, x), SpelledBy(f, heads, b, y), a.scores # None, b.scores # None
    PROVE  x.scores = y.scores <=> a.scores = b.scores
<1>6. PICK s, t \in DOMAIN f : TwoSides(f, a, x, s, t)
    BY ScoresAre
<1>7. PICK u, v \in DOMAIN f : TwoSides(f, b, y, u, v)
    BY ScoresAre
<1>1. /\ s # t /\ f[s] # f[t]
      /\ DOMAIN a.scores = {s, t} /\ DOMAIN x.scores = {f[s], f[t]}
      /\ x.scores[f[s]] = a.scores[s] /\ x.scores[f[t]] = a.scores[t]
      /\ a.scores = [z \in {s, t} |-> a.scores[z]] /\ x.scores = [z \in {f[s], f[t]} |-> x.scores[z]]
    BY <1>6 DEF TwoSides
<1>2. /\ u # v /\ f[u] # f[v]
      /\ DOMAIN b.scores = {u, v} /\ DOMAIN y.scores = {f[u], f[v]}
      /\ y.scores[f[u]] = b.scores[u] /\ y.scores[f[v]] = b.scores[v]
      /\ b.scores = [z \in {u, v} |-> b.scores[z]] /\ y.scores = [z \in {f[u], f[v]} |-> y.scores[z]]
    BY <1>7 DEF TwoSides
<1>3. \A k, l \in DOMAIN f : f[k] = f[l] => k = l
    BY DEF KeepsKeys, IsInjective
<1>4. ASSUME a.scores = b.scores PROVE x.scores = y.scores
    <2>1. {s, t} = {u, v}
        BY <1>1, <1>2, <1>4
    <2>2. CASE u = s /\ v = t
        <3>1. /\ x.scores = [z \in {f[s], f[t]} |-> IF z = f[s] THEN a.scores[s] ELSE a.scores[t]]
              /\ y.scores = [z \in {f[s], f[t]} |-> IF z = f[s] THEN a.scores[s] ELSE a.scores[t]]
            BY <1>1, <1>2, <1>4, <2>2
        <3> QED BY <3>1
    <2>3. CASE u = t /\ v = s
        <3>1. /\ x.scores = [z \in {f[s], f[t]} |-> IF z = f[s] THEN a.scores[s] ELSE a.scores[t]]
              /\ y.scores = [z \in {f[s], f[t]} |-> IF z = f[s] THEN a.scores[s] ELSE a.scores[t]]
            BY <1>1, <1>2, <1>4, <2>3
        <3> QED BY <3>1
    <2> QED BY <1>1, <1>2, <2>1, <2>2, <2>3
<1>5. ASSUME x.scores = y.scores PROVE a.scores = b.scores
    <2>1. {f[s], f[t]} = {f[u], f[v]}
        BY <1>1, <1>2, <1>5
    <2>2. (u = s /\ v = t) \/ (u = t /\ v = s)
        BY <1>1, <1>2, <1>3, <2>1
    <2>3. CASE u = s /\ v = t
        <3>1. /\ a.scores = [z \in {s, t} |-> IF z = s THEN x.scores[f[s]] ELSE x.scores[f[t]]]
              /\ b.scores = [z \in {s, t} |-> IF z = s THEN x.scores[f[s]] ELSE x.scores[f[t]]]
            BY <1>1, <1>2, <1>5, <2>3
        <3> QED BY <3>1
    <2>4. CASE u = t /\ v = s
        <3>1. /\ a.scores = [z \in {s, t} |-> IF z = s THEN x.scores[f[s]] ELSE x.scores[f[t]]]
              /\ b.scores = [z \in {s, t} |-> IF z = s THEN x.scores[f[s]] ELSE x.scores[f[t]]]
            BY <1>1, <1>2, <1>5, <2>4
        <3> QED BY <3>1
    <2> QED BY <2>2, <2>3, <2>4
<1> QED BY <1>4, <1>5
\* A score leads to one value, and one leader, under its sides' other names.
LEMMA ScoreValueKept ==
    ASSUME NEW f, KeepsKeys(f), NEW heads, HeadsKept(heads), NEW a, NEW b, NEW x, NEW y,
           SpelledBy(f, heads, a, x), SpelledBy(f, heads, b, y), a.scores # None, b.measure # None
    PROVE  ScoreValue(x, y) = ScoreValue(a, b)
<1>6. PICK s, t \in DOMAIN f : TwoSides(f, a, x, s, t)
    BY ScoresAre
<1>1. /\ s # t /\ f[s] # f[t]
      /\ DOMAIN a.scores = {s, t} /\ DOMAIN x.scores = {f[s], f[t]}
      /\ a.scores[s] \in Int /\ a.scores[t] \in Int
      /\ x.scores[f[s]] = a.scores[s] /\ x.scores[f[t]] = a.scores[t]
    BY <1>6 DEF TwoSides
<1> DEFINE total == a.scores[s] + a.scores[t]
<1>12. ASSUME NEW p, NEW u, NEW v, u # v, p[u] \in Int, p[v] \in Int, NEW c \in {u, v}
       PROVE  p[c] + p[CHOOSE z \in {u, v} : z # c] = p[u] + p[v]
    <2> DEFINE other == CHOOSE z \in {u, v} : z # c
    <2>1. \E z \in {u, v} : z # c
        BY <1>12
    <2>2. other \in {u, v} /\ other # c
        BY <2>1
    <2> HIDE DEF other
    <2>3. p[c] + p[other] = p[u] + p[v]
        <3>1. (c = u /\ other = v) \/ (c = v /\ other = u)
            BY <1>12, <2>2
        <3> QED BY <1>12, <3>1
    <2> QED BY <2>3 DEF other
<1>2. \A c \in {s, t} : a.scores[c] + a.scores[CHOOSE z \in {s, t} : z # c] = total
    BY <1>1, <1>12
<1>3. \A c \in {f[s], f[t]} : x.scores[c] + x.scores[CHOOSE z \in {f[s], f[t]} : z # c] = total
    BY <1>1, <1>12
<1>4. /\ ReadAs(a, x) /\ ReadAs(b, y)
      /\ HeadAlike(b.measure.head, y.measure.head) /\ y.measure.of = f[b.measure.of] /\ b.measure.of \in DOMAIN f
    BY DEF SpelledBy, HeadsKept
<1>5. \A k, l \in DOMAIN f : f[k] = f[l] => k = l
    BY DEF KeepsKeys, IsInjective
<1>7. (y.measure.of \in DOMAIN x.scores) <=> (b.measure.of \in DOMAIN a.scores)
    BY <1>1, <1>4, <1>5
<1>8. b.measure.of \in DOMAIN a.scores => x.scores[y.measure.of] = a.scores[b.measure.of]
    BY <1>1, <1>4
<1>9. (CHOOSE z \in {s, t} : TRUE) \in {s, t} /\ (CHOOSE z \in {f[s], f[t]} : TRUE) \in {f[s], f[t]}
    OBVIOUS
<1> DEFINE totalOf(sides, scores) ==
               LET c == CHOOSE z \in sides : TRUE IN scores[c] + scores[CHOOSE z \in sides : z # c]
           valueOf(sides, scores, sum, p, q) ==
               IF q.unit # None /\ q.unit # p.unit THEN None
               ELSE CASE q.measure.head = "total_goals" -> sum
                      [] q.measure.head = "team_goals" /\ q.measure.of \in sides -> scores[q.measure.of]
                      [] q.measure.head = "margin" /\ q.measure.of \in sides /\ q.unit # None ->
                             2 * scores[q.measure.of] - sum
                      [] OTHER -> None
<1>10. totalOf(DOMAIN a.scores, a.scores) = total /\ totalOf(DOMAIN x.scores, x.scores) = total
    <2>1. totalOf({s, t}, a.scores) = total
        BY <1>2, <1>9
    <2>2. totalOf({f[s], f[t]}, x.scores) = total
        BY <1>3, <1>9
    <2> HIDE DEF totalOf, total
    <2> QED BY <1>1, <2>1, <2>2
<1>11. /\ ScoreValue(a, b) = valueOf(DOMAIN a.scores, a.scores, totalOf(DOMAIN a.scores, a.scores), a, b)
       /\ ScoreValue(x, y) = valueOf(DOMAIN x.scores, x.scores, totalOf(DOMAIN x.scores, x.scores), x, y)
    BY DEF ScoreValue
<1> HIDE DEF totalOf, total
<1>13. x.unit = a.unit /\ y.unit = b.unit
    BY <1>4 DEF ReadAs
<1>14. valueOf(DOMAIN x.scores, x.scores, total, x, y) = valueOf(DOMAIN a.scores, a.scores, total, a, b)
    <2>1. /\ (y.measure.head = "margin" <=> b.measure.head = "margin")
          /\ (y.measure.head = "team_goals" <=> b.measure.head = "team_goals")
          /\ (y.measure.head = "total_goals" <=> b.measure.head = "total_goals")
        BY <1>4, HeadsRead
    <2> QED BY <1>4, <1>7, <1>8, <1>13, <2>1
<1> HIDE DEF valueOf
<1> QED BY <1>10, <1>11, <1>14

\* Who leads, by the other name, and a draw stays one.
LEMMA LeaderKept ==
    ASSUME NEW f, KeepsKeys(f), NEW heads, HeadsKept(heads), NEW a, NEW x,
           SpelledBy(f, heads, a, x), a.scores # None, TieKept(f), NEW e \in DOMAIN f
    PROVE  /\ f[e] = Leader(x.scores) <=> e = Leader(a.scores)
           /\ f[e] \in DOMAIN x.scores \cup {"tie"} <=> e \in DOMAIN a.scores \cup {"tie"}
<1>6. PICK s, t \in DOMAIN f : TwoSides(f, a, x, s, t)
    BY ScoresAre
<1>1. /\ s # t /\ f[s] # f[t]
      /\ DOMAIN a.scores = {s, t} /\ DOMAIN x.scores = {f[s], f[t]}
      /\ a.scores[s] \in Int /\ a.scores[t] \in Int
      /\ x.scores[f[s]] = a.scores[s] /\ x.scores[f[t]] = a.scores[t]
    BY <1>6 DEF TwoSides
<1>2. \A k, l \in DOMAIN f : f[k] = f[l] => k = l
    BY DEF KeepsKeys, IsInjective
<1>3. ASSUME NEW p, NEW u, NEW v, u # v, DOMAIN p = {u, v}, p[u] \in Int, p[v] \in Int
      PROVE  Leader(p) = IF p[u] > p[v] THEN u ELSE IF p[v] > p[u] THEN v ELSE "tie"
    <2> DEFINE ahead == {k \in DOMAIN p : \E l \in DOMAIN p : p[k] > p[l]}
    <2>1. ahead = IF p[u] > p[v] THEN {u} ELSE IF p[v] > p[u] THEN {v} ELSE {}
        BY <1>3
    <2>2. Leader(p) = IF ahead = {} THEN "tie" ELSE CHOOSE k \in ahead : TRUE
        BY DEF Leader
    <2> HIDE DEF ahead
    <2> QED BY <2>1, <2>2
<1>4. Leader(a.scores) = IF a.scores[s] > a.scores[t] THEN s ELSE IF a.scores[t] > a.scores[s] THEN t ELSE "tie"
    BY <1>1, <1>3
<1>5. Leader(x.scores) = IF a.scores[s] > a.scores[t] THEN f[s] ELSE IF a.scores[t] > a.scores[s] THEN f[t] ELSE "tie"
    BY <1>1, <1>3
<1> QED BY <1>1, <1>2, <1>4, <1>5 DEF TieKept

\* What keeps a score from being compared at all.
NotCompared(score, other) ==
    \/ score.negated
    \/ {score.scope, other.scope} \subseteq FullGame /\ ~ScopeMatches(score, other)
    \/ ~({score.scope, other.scope} \subseteq FullGame) /\ score.scope # other.scope

\* What a score says of another proposition, by its kind.
OfScore(a, b)  == IF ~b.negated /\ a.unit = b.unit /\ a.scores = b.scores THEN Says(TRUE, TRUE, {}) ELSE None
OfWinner(a, b) == IF b.entity \notin DOMAIN a.scores \cup {"tie"} THEN None
                  ELSE Says((b.entity = Leader(a.scores)) # b.negated, FALSE, {})
OfNumber(a, b) == IF ScoreValue(a, b) = None THEN None
                  ELSE Says(Within({Point(ScoreValue(a, b))}, ValueSet(b)), FALSE, {})

OfKind(a, b) == CASE b.kind = "SCORE" -> OfScore(a, b)
                  [] b.kind = "WINNER" /\ b.measure.head = "winner" -> OfWinner(a, b)
                  [] b.kind \in Valued -> OfNumber(a, b)
                  [] OTHER -> None

\* What a score says of another proposition, kind by kind.
LEMMA ScoresSay ==
    ASSUME NEW a, NEW b
    PROVE  Scores(a, b) = IF NotCompared(a, b) THEN None ELSE OfKind(a, b)
BY Zenon DEF Scores, NotCompared, OfKind, OfScore, OfWinner, OfNumber

\* What a score says of another proposition is what it says by their other names.
LEMMA ScoresKept ==
    ASSUME NEW f, KeepsKeys(f), NEW heads, HeadsKept(heads), NEW a, NEW b, NEW x, NEW y,
           SpelledBy(f, heads, a, x), SpelledBy(f, heads, b, y), a.scores # None, b.kind = "SCORE" => b.scores # None, b.kind # "SCORE" => b.measure # None, TieKept(f)
    PROVE  Scores(x, y) = Scores(a, b)
<1>1. ReadAs(a, x) /\ ReadAs(b, y) /\ y.entity = f[b.entity] /\ b.entity \in DOMAIN f
    BY DEF SpelledBy
<1>2. ScopeMatches(x, y) = ScopeMatches(a, b)
    BY <1>1 DEF ReadAs, ScopeMatches
<1>5. NotCompared(x, y) = NotCompared(a, b)
    BY <1>1, <1>2 DEF ReadAs, NotCompared
<1>6. y.kind = b.kind /\ y.negated = b.negated /\ x.unit = a.unit /\ y.unit = b.unit
    BY <1>1 DEF ReadAs
<1>3. b.kind = "SCORE" => OfScore(x, y) = OfScore(a, b)
    <2> SUFFICES ASSUME b.kind = "SCORE" PROVE OfScore(x, y) = OfScore(a, b)
        OBVIOUS
    <2>1. x.scores = y.scores <=> a.scores = b.scores
        BY OneScore
    <2> QED BY <1>6, <2>1 DEF OfScore
<1>4. b.kind # "SCORE" => HeadAlike(b.measure.head, y.measure.head)
    BY DEF SpelledBy, HeadsKept
<1>7. b.kind # "SCORE" => OfWinner(x, y) = OfWinner(a, b)
    <2>1. /\ y.entity = Leader(x.scores) <=> b.entity = Leader(a.scores)
          /\ y.entity \in DOMAIN x.scores \cup {"tie"} <=> b.entity \in DOMAIN a.scores \cup {"tie"}
        BY <1>1, LeaderKept
    <2>2. ((y.entity = Leader(x.scores)) # y.negated) = ((b.entity = Leader(a.scores)) # b.negated)
        <3>1. (y.entity = Leader(x.scores)) = (b.entity = Leader(a.scores))
            BY <2>1
        <3> QED BY <1>6, <3>1, Zenon
    <2> QED BY <2>1, <2>2, Zenon DEF OfWinner
<1>8. b.kind # "SCORE" => OfNumber(x, y) = OfNumber(a, b)
    <2> SUFFICES ASSUME b.kind # "SCORE" PROVE OfNumber(x, y) = OfNumber(a, b)
        OBVIOUS
    <2>1. ValueSet(y) = ValueSet(b)
        BY <1>1, <1>4, ValuesAlike
    <2>2. ScoreValue(x, y) = ScoreValue(a, b)
        BY ScoreValueKept
    <2> QED BY <2>1, <2>2 DEF OfNumber
<1>9. OfKind(x, y) = OfKind(a, b)
    <2>1. CASE b.kind = "SCORE"
        <3>1. \A p, q : q.kind = "SCORE" => OfKind(p, q) = OfScore(p, q)
            BY DEF OfKind, Valued
        <3>2. y.kind = "SCORE"
            BY <1>6, <2>1
        <3> QED BY <1>3, <2>1, <3>1, <3>2
    <2>2. CASE b.kind # "SCORE"
        <3>1. (y.measure.head = "winner" <=> b.measure.head = "winner") /\ OfWinner(x, y) = OfWinner(a, b) /\ OfNumber(x, y) = OfNumber(a, b)
            BY <1>4, <1>7, <1>8, <2>2, HeadsRead
        <3>2. CASE b.kind = "WINNER" /\ b.measure.head = "winner"
            BY <1>6, <3>1, <3>2 DEF OfKind, Valued
        <3>3. CASE b.kind \in Valued
            BY <1>6, <3>1, <3>3 DEF OfKind, Valued
        <3>4. CASE b.kind \notin Valued /\ ~(b.kind = "WINNER" /\ b.measure.head = "winner")
            BY <1>6, <2>2, <3>1, <3>4 DEF OfKind
        <3> QED BY <3>2, <3>3, <3>4 DEF Valued
    <2> QED BY <2>1, <2>2
<1> QED BY <1>5, <1>9, ScoresSay

-----------------------------------------------------------------------------
(* Rows *)

\* A relation between two propositions is the one between them by their other names.
LEMMA RelateKept ==
    ASSUME NEW f, KeepsKeys(f), NEW heads, HeadsKept(heads), NEW a, NEW b, NEW x, NEW y,
           SpelledBy(f, heads, a, x), SpelledBy(f, heads, b, y),
           Usable(a), Usable(b), NEW R, NEW S, NEW sameVenue,
           RivalsKept(f, R, S), "SCORE" \in {a.kind, b.kind} => TieKept(f),
           Relate(a, b, R, sameVenue) # None
    PROVE  Relate(x, y, S, sameVenue) = Relate(a, b, R, sameVenue)
<1>1. x.kind = a.kind /\ y.kind = b.kind
    BY DEF SpelledBy, ReadAs
<1>2. /\ a.kind \in {"THRESHOLD", "RANGE", "OCCURS_BY", "WINNER", "SCORE"}
      /\ b.kind \in {"THRESHOLD", "RANGE", "OCCURS_BY", "WINNER", "SCORE"}
      /\ IF a.kind = "SCORE" THEN a.scores # None ELSE a.measure # None
      /\ IF b.kind = "SCORE" THEN b.scores # None ELSE b.measure # None
    BY DEF Usable
<1>3. CASE a.kind \in Valued /\ b.kind \in Valued
    <2>3. a.measure # None /\ b.measure # None
        BY <1>2, <1>3 DEF Valued
    <2>2. TeamTotalImpliesTotal(x, y) = TeamTotalImpliesTotal(a, b) /\ TeamTotalImpliesTotal(y, x) = TeamTotalImpliesTotal(b, a)
        BY <2>3, ImpliedKept
    <2>4. Values(a, b) # None \/ TeamTotalImpliesTotal(a, b) \/ TeamTotalImpliesTotal(b, a)
        <3> DEFINE said == IF Values(a, b) # None \/ a.kind = "RANGE" \/ b.kind = "RANGE" THEN Values(a, b)
                           ELSE IF TeamTotalImpliesTotal(a, b) THEN Says(TRUE, FALSE, {})
                           ELSE IF TeamTotalImpliesTotal(b, a) THEN Says(FALSE, TRUE, {}) ELSE None
        <3>1. Relate(a, b, R, sameVenue) = said
            BY <1>3 DEF Relate, Valued
        <3>2. said # None
            BY <3>1
        <3> QED BY <3>2
    <2>6. NamedAs(a, b, x, y)
        BY <2>3, NamedAlike
    <2>5. x.measure = y.measure <=> a.measure = b.measure
        <3>1. CASE Values(a, b) # None
            <4>1. a.measure = b.measure
                BY <3>1 DEF Values, Comparable
            <4> QED BY <2>6, <4>1 DEF NamedAs
        <3>2. CASE TeamTotalImpliesTotal(a, b) \/ TeamTotalImpliesTotal(b, a)
            <4>1. {a.measure.head, b.measure.head} = {"team_goals", "total_goals"}
                BY <3>2 DEF TeamTotalImpliesTotal
            <4>2. a.measure.head \in ReadHeads /\ b.measure.head \in ReadHeads
                <5>1. {"team_goals", "total_goals"} \subseteq ReadHeads
                    BY DEF ReadHeads, CountedHeads
                <5> QED BY <4>1, <5>1
            <4>3. HeadAlike(a.measure.head, x.measure.head) /\ HeadAlike(b.measure.head, y.measure.head)
                BY <2>6 DEF NamedAs
            <4>4. x.measure.head = a.measure.head /\ y.measure.head = b.measure.head
                BY <4>2, <4>3 DEF HeadAlike
            <4> QED BY <2>6, <4>4 DEF NamedAs
        <3> QED BY <2>4, <3>1, <3>2
    <2>1. Values(x, y) = Values(a, b)
        BY <2>3, <2>5, ValuesKept
    <2> QED BY <1>1, <1>3, <2>1, <2>2 DEF Relate
<1>4. CASE a.kind = "OCCURS_BY" /\ b.kind = "OCCURS_BY"
    <2>1. Deadlines(x, y, sameVenue) = Deadlines(a, b, sameVenue)
        <3>0. Relate(a, b, R, sameVenue) = Deadlines(a, b, sameVenue)
            BY <1>4 DEF Relate, Valued
        <3>3. a.measure # b.measure => Deadlines(a, b, sameVenue) = None
            BY DEF Deadlines
        <3>1. a.measure = b.measure
            BY <3>0, <3>3
        <3>4. NamedAs(a, b, x, y)
            BY <1>2, <1>4, NamedAlike
        <3>2. x.measure = y.measure
            BY <3>1, <3>4 DEF NamedAs
        <3> QED BY <1>2, <1>4, <3>1, <3>2, DeadlinesKept
    <2> QED BY <1>1, <1>4, <2>1 DEF Relate, Valued
<1>5. CASE a.kind = "WINNER" /\ b.kind = "WINNER"
    <2>1. Relate(a, b, R, sameVenue) = Winners(a, b, R) /\ Relate(x, y, S, sameVenue) = Winners(x, y, S)
        BY <1>1, <1>5 DEF Relate, Valued
    <2>2. Winners(x, y, S) = Winners(a, b, R)
        BY <1>2, <1>5, <2>1, WinnersKept
    <2> QED BY <2>1, <2>2
<1>6. CASE a.kind = "SCORE"
    <2>1. Scores(x, y) = Scores(a, b)
        BY <1>2, <1>6, ScoresKept
    <2> QED BY <1>1, <1>6, <2>1 DEF Relate, Valued
<1>7. CASE b.kind = "SCORE" /\ a.kind # "SCORE"
    <2>1. Scores(y, x) = Scores(b, a)
        BY <1>2, <1>7, ScoresKept
    <2> QED BY <1>1, <1>7, <2>1 DEF Relate, Valued
<1>8. CASE a.kind \in Valued /\ b.kind = "WINNER"
    <2>1. MarginImpliesWinner(x, y) = MarginImpliesWinner(a, b)
        BY <1>2, <1>8, ImpliedKept DEF Valued
    <2> QED BY <1>1, <1>8, <2>1 DEF Relate, Valued
<1>9. CASE a.kind = "WINNER" /\ b.kind \in Valued
    <2>1. MarginImpliesWinner(y, x) = MarginImpliesWinner(b, a)
        BY <1>2, <1>9, ImpliedKept DEF Valued
    <2> QED BY <1>1, <1>9, <2>1 DEF Relate, Valued
<1>10. CASE /\ {a.kind, b.kind} \cap {"SCORE"} = {} /\ (a.kind = "OCCURS_BY") # (b.kind = "OCCURS_BY")
    BY <1>2, <1>10 DEF Relate, Valued
<1> QED BY <1>2, <1>3, <1>4, <1>5, <1>6, <1>7, <1>8, <1>9, <1>10 DEF Valued

\* The groups of a number: its measure's, and its readings'.
MarginGroup(p) == IF p.measure.head = "margin" THEN {<<"winner">>} ELSE {}

ReadingGroup(p) ==
    IF p.observation = "CUMULATIVE" \/ ContestResult(p) THEN <<"value", "CUMULATIVE">>
    ELSE IF p.end = None THEN <<"value", p.observation, None>>
    ELSE IF p.observation = "AT_TIME" /\ p.stability # "SETTLED" THEN <<"value", p.observation, p.start, p.end>>
    ELSE <<"run", p.observation, p.stability = "SETTLED">>

\* A number is compared in its margin's group and the group of how it is read.
LEMMA NumberGroups ==
    ASSUME NEW p, p.kind \in {"THRESHOLD", "RANGE"}
    PROVE  Groups(p) = MarginGroup(p) \cup {ReadingGroup(p)}
<1> DEFINE rest == IF p.observation = "CUMULATIVE" \/ ContestResult(p) THEN {<<"value", "CUMULATIVE">>}
                   ELSE IF p.end = None THEN {<<"value", p.observation, None>>}
                   ELSE IF p.observation = "AT_TIME" /\ p.stability # "SETTLED"
                        THEN {<<"value", p.observation, p.start, p.end>>}
                   ELSE {<<"run", p.observation, p.stability = "SETTLED">>}
<1>1. Groups(p) = MarginGroup(p) \cup rest
    BY DEF Groups, MarginGroup
<1>2. rest = {ReadingGroup(p)}
    BY DEF ReadingGroup
<1> QED BY <1>1, <1>2

\* Two propositions share a group by their other names, and are as usable.
LEMMA ComparedKept ==
    ASSUME NEW f, KeepsKeys(f), NEW heads, HeadsKept(heads), NEW a, NEW b, NEW x, NEW y,
           SpelledBy(f, heads, a, x), SpelledBy(f, heads, b, y),
           Usable(a), Usable(b), Compared(a, b)
    PROVE  Compared(x, y)
<1>1. ReadAs(a, x) /\ ReadAs(b, y)
    BY DEF SpelledBy
<1>2. \A p : Usable(p) => p.kind \in {"THRESHOLD", "RANGE", "OCCURS_BY", "WINNER", "SCORE"}
                         /\ (p.kind # "SCORE" => p.measure # None)
    BY DEF Usable
<1>3. PICK g \in Groups(a) \cap Groups(b) : g[1] = "run" => Abs(a.end - b.end) <= RunTolerance(a)
    BY DEF Compared
<1>4. RunTolerance(x) = RunTolerance(a) /\ x.end = a.end /\ y.end = b.end
    BY <1>1 DEF RunTolerance, ReadAs
<1>5. x.kind = a.kind /\ y.kind = b.kind
    BY <1>1 DEF ReadAs
<1>6. ASSUME NEW p, NEW r, SpelledBy(f, heads, p, r), Usable(p), p.kind # "OCCURS_BY" PROVE Groups(r) = Groups(p)
    <2>1. ReadAs(p, r) /\ r.kind = p.kind
        BY <1>6 DEF SpelledBy, ReadAs
    <2>2. CASE p.kind \in {"WINNER", "SCORE"}
        BY <2>1, <2>2 DEF Groups
    <2>3. CASE p.kind \in {"THRESHOLD", "RANGE"}
        <3>1. HeadAlike(p.measure.head, r.measure.head)
            BY <1>2, <1>6, <2>3 DEF SpelledBy, HeadsKept
        <3>2. ContestResult(r) = ContestResult(p)
            BY <2>1, <3>1, ValuesAlike
        <3>3. MarginGroup(r) = MarginGroup(p)
            BY <3>1, HeadsRead DEF MarginGroup
        <3>4. ReadingGroup(r) = ReadingGroup(p)
            <4>1. /\ r.observation = p.observation /\ r.end = p.end /\ r.start = p.start
                  /\ r.stability = p.stability
                BY <2>1 DEF ReadAs
            <4> QED BY <3>2, <4>1, Zenon DEF ReadingGroup
        <3>5. Groups(p) = MarginGroup(p) \cup {ReadingGroup(p)}
            BY <2>3, NumberGroups
        <3>6. Groups(r) = MarginGroup(r) \cup {ReadingGroup(r)}
            <4>1. r.kind \in {"THRESHOLD", "RANGE"}
                BY <2>1, <2>3
            <4> QED BY <4>1, NumberGroups
        <3> QED BY <3>3, <3>4, <3>5, <3>6, Zenon
    <2>4. p.kind \in {"THRESHOLD", "RANGE", "OCCURS_BY", "WINNER", "SCORE"}
        BY <1>2, <1>6
    <2> QED BY <1>6, <2>2, <2>3, <2>4
<1>7. CASE a.kind # "OCCURS_BY" /\ b.kind # "OCCURS_BY"
    <2>1. Groups(x) = Groups(a) /\ Groups(y) = Groups(b)
        BY <1>6, <1>7
    <2> QED BY <1>3, <1>4, <2>1 DEF Compared
<1>8. CASE a.kind = "OCCURS_BY" /\ b.kind = "OCCURS_BY"
    <2>1. g = <<"deadline", a.measure>> /\ g = <<"deadline", b.measure>>
        BY <1>3, <1>8 DEF Groups
    <2>2. a.measure = b.measure /\ a.measure # None /\ b.measure # None
        BY <1>2, <1>8, <2>1
    <2>6. NamedAs(a, b, x, y)
        BY <2>2, NamedAlike
    <2>3. x.measure = y.measure
        BY <2>2, <2>6 DEF NamedAs
    <2>4. <<"deadline", x.measure>> \in Groups(x) \cap Groups(y)
        BY <1>5, <1>8, <2>3 DEF Groups
    <2>5. <<"deadline", x.measure>>[1] = "deadline"
        OBVIOUS
    <2> QED BY <2>4, <2>5, Zenon DEF Compared
<1>9. ASSUME NEW p, NEW q, Usable(p), Usable(q), p.kind = "OCCURS_BY", q.kind # "OCCURS_BY"
      PROVE  Groups(p) \cap Groups(q) = {}
    <2>1. Groups(p) = {<<"deadline", p.measure>>}
        BY <1>9 DEF Groups
    <2>2. \A h \in Groups(q) : h[1] # "deadline"
        <3>1. CASE q.kind \in {"WINNER", "SCORE"}
            BY <3>1 DEF Groups
        <3>2. CASE q.kind \in {"THRESHOLD", "RANGE"}
            <4>1. \A h \in MarginGroup(q) : h[1] # "deadline"
                BY DEF MarginGroup
            <4>2. ReadingGroup(q)[1] # "deadline"
                BY DEF ReadingGroup
            <4>3. Groups(q) = MarginGroup(q) \cup {ReadingGroup(q)}
                BY <3>2, NumberGroups
            <4> QED BY <4>1, <4>2, <4>3, Zenon
        <3>3. q.kind \in {"THRESHOLD", "RANGE", "OCCURS_BY", "WINNER", "SCORE"}
            BY <1>2, <1>9
        <3> QED BY <1>9, <3>1, <3>2, <3>3
    <2> QED BY <2>1, <2>2
<1>10. ~(a.kind = "OCCURS_BY" /\ b.kind # "OCCURS_BY") /\ ~(a.kind # "OCCURS_BY" /\ b.kind = "OCCURS_BY")
    BY <1>3, <1>9
<1> QED BY <1>7, <1>8, <1>10

\* A usable proposition stays usable by other names.
LEMMA UsableKept ==
    ASSUME NEW f, KeepsKeys(f), NEW heads, HeadsKept(heads), NEW p, NEW r, SpelledBy(f, heads, p, r), Usable(p)
    PROVE  Usable(r)
<1>1. ReadAs(p, r) /\ (r.entity = None <=> p.entity = None) /\ (r.measure = None <=> p.measure = None)
      /\ (r.scores = None <=> p.scores = None)
    BY DEF SpelledBy, KeepsKeys, IsInjective, ScoredAs
<1>2. /\ r.kind = p.kind /\ r.comparator = p.comparator /\ r.value = p.value /\ r.low = p.low /\ r.high = p.high
      /\ r.observation = p.observation /\ r.end = p.end /\ r.undated = p.undated
    BY <1>1 DEF ReadAs
<1>3. CASE p.kind = "THRESHOLD"
    BY <1>1, <1>2, <1>3 DEF Usable
<1>4. CASE p.kind = "RANGE"
    BY <1>1, <1>2, <1>4 DEF Usable
<1>5. CASE p.kind \in {"OCCURS_BY", "WINNER", "SCORE"}
    BY <1>1, <1>2, <1>5 DEF Usable
<1> QED BY <1>3, <1>4, <1>5 DEF Usable

\* More rivals change no relation there is.
LEMMA MoreRivals ==
    ASSUME NEW a, NEW b, NEW R, NEW S, R \subseteq S, NEW sameVenue, Relate(a, b, R, sameVenue) # None
    PROVE  Relate(a, b, S, sameVenue) = Relate(a, b, R, sameVenue)
<1>1. CASE a.kind = "WINNER" /\ b.kind = "WINNER"
    <2>1. Relate(a, b, R, sameVenue) = Winners(a, b, R) /\ Relate(a, b, S, sameVenue) = Winners(a, b, S)
        BY <1>1 DEF Relate, Valued
    <2>2. Exclude(a, b, R) => Exclude(a, b, S)
        BY DEF Exclude
    <2> QED BY <2>1, <2>2 DEF Winners
<1>2. CASE ~(a.kind = "WINNER" /\ b.kind = "WINNER")
    BY <1>2 DEF Relate
<1> QED BY <1>1, <1>2

\* d is the contract c, read some other way.
SoldAs(c, d) == d.id = c.id /\ d.venue = c.venue /\ d.event = c.event /\ d.source = c.source

\* A contract, with its proposition.
Record(c) == c = [id |-> c.id, venue |-> c.venue, event |-> c.event, source |-> c.source, proposition |-> c.proposition]

\* Rows name contracts and their flags only, whatever they are read as.
LEMMA OneRow ==
    ASSUME NEW a, NEW b, NEW x, NEW y, SoldAs(a, x), SoldAs(b, y), NEW said,
           x.proposition.game = a.proposition.game, x.proposition.kind = a.proposition.kind,
           y.proposition.kind = b.proposition.kind
    PROVE  RowOf(said, x, y) = RowOf(said, a, b)
<1>1. SourceFlags(x, y) = SourceFlags(a, b)
    BY DEF SoldAs, SourceFlags
<1>2. VoidRule(x) = VoidRule(a) /\ VoidRule(y) = VoidRule(b)
    BY DEF SoldAs, VoidRule
<1>3. VoidFlags(x, y) = VoidFlags(a, b)
    BY <1>2 DEF VoidFlags
<1> QED BY <1>1, <1>3 DEF RowOf, SoldAs

\* Two contracts' row is the row between them by their other names.
LEMMA RowKept ==
    ASSUME NEW f, KeepsKeys(f), NEW heads, HeadsKept(heads), NEW a, NEW b, NEW x, NEW y, SoldAs(a, x), SoldAs(b, y),
           SpelledBy(f, heads, a.proposition, x.proposition), SpelledBy(f, heads, b.proposition, y.proposition),
           Usable(a.proposition), Usable(b.proposition), NEW R, NEW S, RivalsKept(f, R, S),
           "SCORE" \in {a.proposition.kind, b.proposition.kind} => TieKept(f),
           RelatePair(a, b, R) # None
    PROVE  RelatePair(x, y, S) = RelatePair(a, b, R)
<1> DEFINE p == a.proposition
           q == b.proposition
           r == x.proposition
           s == y.proposition
           v == a.venue = b.venue
<1>1. RelatePair(a, b, R) = RowOf(Relate(p, q, R, v), a, b) /\ RelatePair(x, y, S) = RowOf(Relate(r, s, S, v), x, y)
    BY DEF RelatePair, SoldAs
<1>2. Relate(p, q, R, v) # None
    BY <1>1 DEF RowOf
<1>3. Relate(r, s, S, v) = Relate(p, q, R, v)
    BY <1>2, RelateKept
<1>4. r.game = p.game /\ r.kind = p.kind /\ s.kind = q.kind
    BY DEF SpelledBy, ReadAs
<1> HIDE DEF p, q, r, s, v
<1>5. RowOf(Relate(p, q, R, v), x, y) = RowOf(Relate(p, q, R, v), a, b)
    BY <1>4, OneRow DEF p, q, r, s
<1> QED BY <1>1, <1>3, <1>5

-----------------------------------------------------------------------------
(* Contracts as they are read once their short keys are spelled out *)

\* Finitely many contracts, with their fields.
Shaped(C) == IsFiniteSet(C) /\ \A c \in C : Record(c) /\ Plain(c.proposition)

\* A set named by the members of a finite set is finite.
LEMMA FiniteNamed ==
    ASSUME NEW S, IsFiniteSet(S), NEW g, DOMAIN g = S
    PROVE  IsFiniteSet({g[x] : x \in S})
<1> DEFINE T == {g[x] : x \in S}
           h == [x \in S |-> g[x]]
<1>1. h \in Surjection(S, T)
    <2>1. h \in [S -> T] /\ \A t \in T : \E x \in S : h[x] = t
        OBVIOUS
    <2> HIDE DEF h, T
    <2> QED BY <2>1 DEF Surjection
<1> QED BY <1>1, FS_Surjection

\* A proposition names finitely many keys.
LEMMA FiniteKeysOf ==
    ASSUME NEW p, Plain(p)
    PROVE  IsFiniteSet(Keys(p))
<1> DEFINE of == IF p.measure = None THEN None ELSE p.measure.of
           sides == IF p.scores = None THEN {} ELSE DOMAIN p.scores
<1>1. IsFiniteSet(sides)
    BY FS_EmptySet DEF Plain
<1>2. IsFiniteSet((sides \cup {of}) \cup {p.entity})
    <2> HIDE DEF sides, of
    <2>1. IsFiniteSet(sides \cup {of})
        BY <1>1, FS_AddElement
    <2> QED BY <2>1, FS_AddElement
<1>3. Keys(p) \subseteq (sides \cup {of}) \cup {p.entity}
    BY DEF Keys
<1> HIDE DEF sides, of
<1> QED BY <1>2, <1>3, FS_Subset

\* A unit has finitely many short keys.
LEMMA FiniteNames ==
    ASSUME NEW C, Shaped(C)
    PROVE  IsFiniteSet(Aliases(C))
<1> DEFINE g == [c \in C |-> Keys(c.proposition)]
           T == {g[c] : c \in C}
<1>1. IsFiniteSet(T)
    BY FiniteNamed DEF Shaped
<1>2. \A S \in T : IsFiniteSet(S)
    BY FiniteKeysOf DEF Shaped
<1>3. SubjectKeys(C) = UNION T
    BY DEF SubjectKeys
<1> HIDE DEF T
<1>4. IsFiniteSet(SubjectKeys(C))
    BY <1>1, <1>2, <1>3, FS_UNION
<1>5. Aliases(C) \subseteq SubjectKeys(C)
    BY DEF Aliases
<1> QED BY <1>4, <1>5, FS_Subset

\* A contract with its keys renamed, read otherwise, and with its measure spelled one way.
ReadOtherwise(c, p) == [c EXCEPT !.proposition = p]
Replaced(c, keys) == ReadOtherwise(c, Renamed(OneSpelling(c.proposition), keys))
Joined(m, c) == ReadOtherwise(c, Renamed(Remeasured(c.proposition, m.measures), m.keys))

\* A contract read otherwise is sold as it was.
LEMMA ReadOtherwiseIs ==
    ASSUME NEW c, Record(c), NEW p
    PROVE  Record(ReadOtherwise(c, p)) /\ SoldAs(c, ReadOtherwise(c, p)) /\ ReadOtherwise(c, p).proposition = p
BY DEF ReadOtherwise, Record, SoldAs

\* Spelling its measure one way changes the measure's head only, and names no more keys.
LEMMA OneSpellingIs ==
    ASSUME NEW p, Plain(p)
    PROVE  /\ Plain(OneSpelling(p)) /\ OneSpelling(p) = [x \in Fields |-> OneSpelling(p)[x]]
           /\ \A x \in Fields \ {"measure"} : OneSpelling(p)[x] = p[x]
           /\ OneSpelling(p).entity = p.entity /\ OneSpelling(p).scores = p.scores
           /\ OneSpelling(p).measure = IF p.measure = None THEN None ELSE [head |-> OneHead(p), of |-> p.measure.of]
           /\ Keys(OneSpelling(p)) \subseteq Keys(p)
<1> DEFINE r == OneSpelling(p)
<1>1. CASE p.measure = None
    BY <1>1 DEF OneSpelling, Plain
<1>2. CASE p.measure # None
    <2> DEFINE measure == [p.measure EXCEPT !.head = OneHead(p)]
    <2>1. measure = [head |-> OneHead(p), of |-> p.measure.of]
        BY <1>2 DEF Plain
    <2> HIDE DEF measure
    <2>2. r = [p EXCEPT !.measure = measure]
        BY <1>2 DEF OneSpelling, measure
    <2> HIDE DEF r
    <2>3. r = [x \in Fields |-> IF x = "measure" THEN measure ELSE p[x]]
        BY <2>2 DEF Plain, Fields
    <2>4. {"measure", "entity", "scores"} \subseteq Fields
        BY DEF Fields
    <2>5. r.measure = measure /\ r.entity = p.entity /\ r.scores = p.scores
        BY <2>3, <2>4
    <2>6. r = [x \in Fields |-> r[x]] /\ \A x \in Fields \ {"measure"} : r[x] = p[x]
        BY <2>3
    <2>7. Plain(r)
        BY <2>1, <2>5, <2>6 DEF Plain
    <2>8. Keys(r) \subseteq Keys(p)
        BY <1>2, <2>1, <2>5 DEF Keys
    <2> QED BY <1>2, <2>1, <2>5, <2>6, <2>7, <2>8 DEF r
<1> QED BY <1>1, <1>2

\* A proposition by other names has all its fields.
LEMMA PlainKept ==
    ASSUME NEW p, Plain(p), NEW keys
    PROVE  Plain(Renamed(p, keys))
<1> DEFINE r == Renamed(p, keys)
<1>1. /\ r = [x \in Fields |-> r[x]]
      /\ r.measure = IF p.measure = None THEN None ELSE [head |-> p.measure.head, of |-> Spelled(keys, p.measure.of)]
      /\ r.scores = IF p.scores = None THEN None ELSE SidesSpelled(p.scores, keys)
    BY RenamedIs
<1> HIDE DEF r
<1>2. r.measure = None \/ r.measure = [head |-> r.measure.head, of |-> r.measure.of]
    BY <1>1
<1>3. ASSUME p.scores # None
      PROVE  r.scores = [s \in DOMAIN r.scores |-> r.scores[s]] /\ IsFiniteSet(DOMAIN r.scores)
    <2>1. IsFiniteSet(DOMAIN p.scores)
        BY <1>3 DEF Plain
    <2> DEFINE g == [s \in DOMAIN p.scores |-> Spelled(keys, s)]
    <2>2. IsFiniteSet({g[s] : s \in DOMAIN p.scores})
        <3>1. DOMAIN g = DOMAIN p.scores
            OBVIOUS
        <3> HIDE DEF g
        <3> QED BY <2>1, <3>1, FiniteNamed
    <2>3. {g[s] : s \in DOMAIN p.scores} = {Spelled(keys, s) : s \in DOMAIN p.scores}
        OBVIOUS
    <2>4. r.scores = [k \in {Spelled(keys, s) : s \in DOMAIN p.scores} |->
                         p.scores[CHOOSE s \in DOMAIN p.scores : Spelled(keys, s) = k]]
        BY <1>1, <1>3 DEF SidesSpelled
    <2> QED BY <2>2, <2>3, <2>4
<1>4. Plain(r)
    BY <1>1, <1>2, <1>3 DEF Plain
<1> QED BY <1>4 DEF r

\* Contracts read otherwise are finitely many, with their fields.
LEMMA ReadOtherwiseShaped ==
    ASSUME NEW B, Shaped(B), NEW g, DOMAIN g = B, \A c \in B : Record(g[c]) /\ Plain(g[c].proposition)
    PROVE  Shaped({g[c] : c \in B})
<1>1. IsFiniteSet({g[c] : c \in B})
    BY FiniteNamed DEF Shaped
<1> QED BY <1>1 DEF Shaped

\* What short keys of C stand for.
Short(C) == [k \in Aliases(C) |-> Resolve(C, k)]

\* A unit's canonical readings spell each short key by the longer key it resolves to.
LEMMA ReadingsAre ==
    ASSUME NEW C, Shaped(C)
    PROVE  /\ CanonicalReadings(C) = {Replaced(c, Short(C)) : c \in C}
           /\ \A k : Spelled(Short(C), k) = Resolve(C, k)
           /\ \A k \in SubjectKeys(C) : Resolve(C, k) \in SubjectKeys(C)
           /\ Resolve(C, None) = None /\ None \notin SubjectKeys(C)
<1>1. CanonicalReadings(C) = {Replaced(c, Short(C)) : c \in C}
    BY DEF CanonicalReadings, Replaced, ReadOtherwise, Short
<1>2. IsFiniteSet(Aliases(C))
    BY FiniteNames
<1>3. ASSUME NEW k PROVE Spelled(Short(C), k) = Resolve(C, k)
    <2>1. k \notin Aliases(C) => Resolve(C, k) = k
        BY <1>2, ResolvesTo
    <2> QED BY <2>1 DEF Spelled, Short
<1>4. \A k \in SubjectKeys(C) : Resolve(C, k) \in SubjectKeys(C)
    BY <1>2, ResolvesTo
<1>5. None \notin SubjectKeys(C)
    BY DEF SubjectKeys, Keys
<1>6. Resolve(C, None) = None
    <2>1. None \notin Aliases(C)
        BY <1>5 DEF Aliases
    <2> QED BY <1>2, <2>1, ResolvesTo
<1> QED BY <1>1, <1>3, <1>4, <1>5, <1>6

\* What is compared of C: its usable contracts, with the keys they stand for.
Ready(C) == {c \in CanonicalReadings(C) : Usable(c.proposition)}

\* A preview's rows are those derived from the usable readings, but for what it leaves out.
LEMMA PreviewIs ==
    ASSUME NEW C, Shaped(C)
    PROVE  Preview(C).rows = DerivePairs(Ready(C), Preview(C).out) /\ Preview(C).out \subseteq Ready(C)
<1> DEFINE g == [c \in C |-> Replaced(c, Short(C))]
<1>1. CanonicalReadings(C) = {g[c] : c \in C}
    BY ReadingsAre
<1>2. IsFiniteSet(CanonicalReadings(C))
    <2>1. DOMAIN g = C
        OBVIOUS
    <2> HIDE DEF g
    <2> QED BY <1>1, <2>1, FiniteNamed DEF Shaped
<1>3. Ready(C) \subseteq CanonicalReadings(C)
    BY DEF Ready
<1>4. IsFiniteSet(Ready(C))
    BY <1>2, <1>3, FS_Subset
<1>5. Preview(C) = SettledRows(Ready(C))
    BY DEF Preview, Ready
<1> QED BY <1>4, <1>5, SettledAre

\* Maps that spell a proposition's keys alike rename it alike.
LEMMA SpelledAlike ==
    ASSUME NEW p, Plain(p), NEW keys, NEW more, \A k \in Keys(p) \cup {None} : Spelled(keys, k) = Spelled(more, k)
    PROVE  Renamed(p, keys) = Renamed(p, more)
<1> DEFINE r == Renamed(p, keys)
           s == Renamed(p, more)
<1>1. /\ r = [x \in Fields |-> r[x]] /\ s = [x \in Fields |-> s[x]]
      /\ \A x \in KeptFields : r[x] = p[x] /\ s[x] = p[x]
      /\ r.entity = Spelled(keys, p.entity) /\ s.entity = Spelled(more, p.entity)
      /\ r.measure = IF p.measure = None THEN None ELSE [head |-> p.measure.head, of |-> Spelled(keys, p.measure.of)]
      /\ s.measure = IF p.measure = None THEN None ELSE [head |-> p.measure.head, of |-> Spelled(more, p.measure.of)]
      /\ r.scores = IF p.scores = None THEN None ELSE SidesSpelled(p.scores, keys)
      /\ s.scores = IF p.scores = None THEN None ELSE SidesSpelled(p.scores, more)
    BY RenamedIs
<1> HIDE DEF r, s
<1>2. p.entity \in Keys(p) \cup {None} /\ (p.measure # None => p.measure.of \in Keys(p) \cup {None})
      /\ (p.scores # None => \A k \in DOMAIN p.scores : k \in Keys(p) \cup {None})
    BY DEF Keys
<1>3. p.scores # None => SidesSpelled(p.scores, keys) = SidesSpelled(p.scores, more)
    <2> SUFFICES ASSUME p.scores # None PROVE SidesSpelled(p.scores, keys) = SidesSpelled(p.scores, more)
        OBVIOUS
    <2>1. \A k \in DOMAIN p.scores : Spelled(keys, k) = Spelled(more, k)
        BY <1>2
    <2>2. {Spelled(keys, k) : k \in DOMAIN p.scores} = {Spelled(more, k) : k \in DOMAIN p.scores}
        BY <2>1
    <2>3. ASSUME NEW l
          PROVE  (CHOOSE k \in DOMAIN p.scores : Spelled(keys, k) = l) = (CHOOSE k \in DOMAIN p.scores : Spelled(more, k) = l)
        BY <2>1
    <2> DEFINE K == {Spelled(keys, k) : k \in DOMAIN p.scores}
               g(l) == CHOOSE k \in DOMAIN p.scores : Spelled(keys, k) = l
               h(l) == CHOOSE k \in DOMAIN p.scores : Spelled(more, k) = l
    <2>4. SidesSpelled(p.scores, keys) = [l \in K |-> p.scores[g(l)]]
        BY DEF SidesSpelled
    <2>5. SidesSpelled(p.scores, more) = [l \in K |-> p.scores[h(l)]]
        BY <2>2, Zenon DEF SidesSpelled
    <2>6. \A l \in K : g(l) = h(l)
        BY <2>3
    <2> HIDE DEF K, g, h
    <2> QED BY <2>4, <2>5, <2>6
<1>4. r.entity = s.entity /\ r.measure = s.measure /\ r.scores = s.scores
    BY <1>1, <1>2, <1>3
<1>5. \A x \in Fields : r[x] = s[x]
    <2>1. \A x \in Fields : x \in KeptFields \/ x = "entity" \/ x = "measure" \/ x = "scores"
        BY DEF KeptFields
    <2> QED BY <1>1, <1>4, <2>1
<1>6. r = s
    BY <1>1, <1>5
<1> QED BY <1>6 DEF r, s

\* Renaming no key renames nothing.
LEMMA RenamedSelf ==
    ASSUME NEW p, Plain(p), NEW keys, \A k \in Keys(p) \cup {None} : Spelled(keys, k) = k
    PROVE  Renamed(p, keys) = p
<1> DEFINE r == Renamed(p, keys)
<1>1. /\ r = [x \in Fields |-> r[x]]
      /\ \A x \in KeptFields : r[x] = p[x]
      /\ r.entity = Spelled(keys, p.entity)
      /\ r.measure = IF p.measure = None THEN None ELSE [head |-> p.measure.head, of |-> Spelled(keys, p.measure.of)]
      /\ r.scores = IF p.scores = None THEN None ELSE SidesSpelled(p.scores, keys)
    BY RenamedIs
<1> HIDE DEF r
<1>2. p.entity \in Keys(p) \cup {None} /\ (p.measure # None => p.measure.of \in Keys(p) \cup {None})
      /\ (p.scores # None => \A k \in DOMAIN p.scores : k \in Keys(p) \cup {None})
    BY DEF Keys
<1>3. p.scores # None => SidesSpelled(p.scores, keys) = p.scores
    <2> SUFFICES ASSUME p.scores # None PROVE SidesSpelled(p.scores, keys) = p.scores
        OBVIOUS
    <2>1. \A k \in DOMAIN p.scores : Spelled(keys, k) = k
        BY <1>2
    <2>2. {Spelled(keys, k) : k \in DOMAIN p.scores} = DOMAIN p.scores
        BY <2>1
    <2>3. \A l \in DOMAIN p.scores : (CHOOSE k \in DOMAIN p.scores : Spelled(keys, k) = l) = l
        BY <2>1
    <2>4. p.scores = [k \in DOMAIN p.scores |-> p.scores[k]]
        BY DEF Plain
    <2> QED BY <2>2, <2>3, <2>4 DEF SidesSpelled
<1>4. r.entity = p.entity /\ r.measure = p.measure /\ r.scores = p.scores
    BY <1>1, <1>2, <1>3 DEF Plain
<1>5. \A x \in Fields : r[x] = p[x]
    <2>1. \A x \in Fields : x \in KeptFields \/ x = "entity" \/ x = "measure" \/ x = "scores"
        BY DEF KeptFields
    <2> QED BY <1>1, <1>4, <2>1
<1>6. r = p
    BY <1>1, <1>5 DEF Plain
<1> QED BY <1>6 DEF r

\* A score of two sides that get two names has those.
LEMMA TwoSidesSpelled ==
    ASSUME NEW scores, NEW s, NEW t, s # t, scores \in [{s, t} -> Int], NEW keys, Spelled(keys, s) # Spelled(keys, t)
    PROVE  /\ SidesSpelled(scores, keys) \in [{Spelled(keys, s), Spelled(keys, t)} -> Int]
           /\ SidesSpelled(scores, keys)[Spelled(keys, s)] = scores[s]
           /\ SidesSpelled(scores, keys)[Spelled(keys, t)] = scores[t]
<1> DEFINE u == Spelled(keys, s)
           v == Spelled(keys, t)
<1>1. DOMAIN scores = {s, t} /\ scores[s] \in Int /\ scores[t] \in Int
    OBVIOUS
<1>2. {Spelled(keys, z) : z \in DOMAIN scores} = {u, v}
    BY <1>1
<1>3. SidesSpelled(scores, keys) =
          [k \in {u, v} |-> scores[CHOOSE z \in DOMAIN scores : Spelled(keys, z) = k]]
    BY <1>2 DEF SidesSpelled
<1>4. (CHOOSE z \in DOMAIN scores : Spelled(keys, z) = u) = s
    BY <1>1
<1>5. (CHOOSE z \in DOMAIN scores : Spelled(keys, z) = v) = t
    BY <1>1
<1> HIDE DEF u, v
<1>6. SidesSpelled(scores, keys)[u] = scores[s] /\ SidesSpelled(scores, keys)[v] = scores[t]
    BY <1>3, <1>4, <1>5
<1>7. SidesSpelled(scores, keys) \in [{u, v} -> Int]
    BY <1>1, <1>3, <1>4, <1>5
<1> QED BY <1>6, <1>7 DEF u, v

\* The rows of a part of a unit are the unit's, when its readings are, and none of what it compares is left out.
LEMMA RowsOfPart ==
    ASSUME NEW C, NEW D, C \subseteq D, NEW O, NEW P, \A c \in C \ O : c \notin P
    PROVE  DerivePairs(C, O) \subseteq DerivePairs(D, P)
<1>1. Rivals(C) \subseteq Rivals(D)
    BY DEF Rivals
<1> SUFFICES ASSUME NEW r \in DerivePairs(C, O) PROVE r \in DerivePairs(D, P)
    OBVIOUS
<1>2. PICK a \in C \ O, b \in C \ O :
        a.id < b.id /\ Compared(a.proposition, b.proposition) /\ r = RelatePair(a, b, Rivals(C)) /\ r # None
    BY DEF DerivePairs
<1>3. a \in D \ P /\ b \in D \ P
    BY <1>2
<1>4. RelatePair(a, b, Rivals(D)) = RelatePair(a, b, Rivals(C))
    <2>1. Relate(a.proposition, b.proposition, Rivals(C), a.venue = b.venue) # None
        BY <1>2 DEF RelatePair, RowOf
    <2>2. Relate(a.proposition, b.proposition, Rivals(D), a.venue = b.venue)
              = Relate(a.proposition, b.proposition, Rivals(C), a.venue = b.venue)
        BY <1>1, <2>1, MoreRivals
    <2> QED BY <2>2 DEF RelatePair
<1> DEFINE pairs == {q \in (D \ P) \X (D \ P) : q[1].id < q[2].id /\ Compared(q[1].proposition, q[2].proposition)}
<1>5. <<a, b>> \in pairs
    BY <1>2, <1>3
<1>6. r = RelatePair(<<a, b>>[1], <<a, b>>[2], Rivals(D))
    BY <1>2, <1>4
<1>7. DerivePairs(D, P) = {RelatePair(q[1], q[2], Rivals(D)) : q \in pairs} \ {None}
    BY DEF DerivePairs
<1> HIDE DEF pairs
<1> QED BY <1>2, <1>5, <1>6, <1>7, Zenon

-----------------------------------------------------------------------------
(* A subject's contracts beside another's: a's read as they did, b's but for their names *)

\* A described proposition has all its fields.
LEMMA DescribedIsPlain ==
    ASSUME NEW p, Described(p)
    PROVE  Plain(p)
<1>1. p = [x \in Fields |-> p[x]] /\ (p.measure = None \/ p.measure = [head |-> p.measure.head, of |-> p.measure.of])
    BY DEF Described
<1>2. ASSUME p.scores # None
      PROVE  p.scores = [s \in DOMAIN p.scores |-> p.scores[s]] /\ IsFiniteSet(DOMAIN p.scores)
    <2>1. PICK s, t \in DOMAIN p.scores : s # t /\ p.scores \in [{s, t} -> Int]
        BY <1>2 DEF Described
    <2>2. IsFiniteSet({s, t})
        <3>1. IsFiniteSet({s})
            BY FS_Singleton
        <3>2. IsFiniteSet({s} \cup {t})
            BY <3>1, FS_AddElement
        <3>3. {s, t} = {s} \cup {t}
            OBVIOUS
        <3> QED BY <3>2, <3>3
    <2> QED BY <2>1, <2>2
<1> QED BY <1>1, <1>2 DEF Plain

\* What the contracts of both subjects become.
MergedInto(m) == m.a \cup Aligned(m)

\* A reading of b's, under the judge's measures, has all its fields, and its measure is of whom it was.
LEMMA RemeasuredIs ==
    ASSUME NEW m \in Mergers, NEW c \in m.b
    PROVE  LET p == c.proposition
               q == Remeasured(p, m.measures)
           IN  /\ Plain(p) /\ Plain(q) /\ q = [x \in Fields |-> q[x]]
               /\ \A x \in Fields \ {"measure"} : q[x] = p[x]
               /\ q.entity = p.entity /\ q.scores = p.scores
               /\ IF p.measure = None THEN q.measure = None
                  ELSE q.measure = [head |-> q.measure.head, of |-> q.measure.of] /\ p \in Measured(m.b)
<1> DEFINE p == c.proposition
           q == Remeasured(p, m.measures)
           measure == IF p.measure \in DOMAIN m.measures THEN m.measures[p.measure] ELSE p.measure
<1>1. Plain(p)
    BY MergersAssumption, DescribedIsPlain
<1>2. None \notin DOMAIN m.measures
    BY MergersAssumption
<1>3. p.measure # None => p \in Measured(m.b)
    BY DEF Measured
<1>4. \A r \in {Remeasured(z, m.measures) : z \in Measured(m.b)} : r.measure = [head |-> r.measure.head, of |-> r.measure.of]
    BY MergersAssumption
<1>5. p.measure # None => q.measure = [head |-> q.measure.head, of |-> q.measure.of]
    BY <1>3, <1>4
<1>6. q = [p EXCEPT !.measure = measure]
    BY DEF Remeasured
<1> HIDE DEF q, measure, p
<1>7. q = [x \in Fields |-> IF x = "measure" THEN measure ELSE p[x]]
    BY <1>1, <1>6 DEF Plain, Fields
<1>8. {"measure", "entity", "scores"} \subseteq Fields
    BY DEF Fields
<1>9. q.measure = measure /\ q.entity = p.entity /\ q.scores = p.scores
    BY <1>7, <1>8
<1>10. q = [x \in Fields |-> q[x]] /\ \A x \in Fields \ {"measure"} : q[x] = p[x]
    BY <1>7
<1>11. p.measure = None => q.measure = None
    BY <1>2, <1>9 DEF measure
<1>12. Plain(q)
    BY <1>1, <1>5, <1>9, <1>10, <1>11 DEF Plain
<1> QED BY <1>1, <1>3, <1>5, <1>9, <1>10, <1>11, <1>12 DEF p, q

\* Both subjects of a merge, and what they become, are finitely many contracts with their fields.
LEMMA MergersShaped ==
    ASSUME NEW m \in Mergers
    PROVE  /\ Shaped(m.a) /\ Shaped(m.b) /\ Shaped(Aligned(m)) /\ Shaped(MergedInto(m))
           /\ Aligned(m) = {Joined(m, c) : c \in m.b}
<1>1. /\ IsFiniteSet(m.a) /\ IsFiniteSet(m.b)
      /\ \A c \in m.a \cup m.b : Record(c) /\ Described(c.proposition)
    BY MergersAssumption DEF Record
<1>2. Shaped(m.a) /\ Shaped(m.b)
    BY <1>1, DescribedIsPlain DEF Shaped
<1> DEFINE g == [c \in m.b |-> Joined(m, c)]
<1>3. Aligned(m) = {g[c] : c \in m.b}
    BY DEF Aligned, Align, Joined, ReadOtherwise
<1>6. \A c \in m.b : Record(g[c]) /\ Plain(g[c].proposition)
    <2> SUFFICES ASSUME NEW c \in m.b PROVE Record(Joined(m, c)) /\ Plain(Joined(m, c).proposition)
        OBVIOUS
    <2>1. Plain(Renamed(Remeasured(c.proposition, m.measures), m.keys))
        BY RemeasuredIs, PlainKept
    <2> QED BY <1>1, <2>1, ReadOtherwiseIs DEF Joined
<1>7. DOMAIN g = m.b /\ {g[c] : c \in m.b} = {Joined(m, c) : c \in m.b}
    OBVIOUS
<1> HIDE DEF g
<1>8. Shaped(Aligned(m))
    BY <1>2, <1>3, <1>6, <1>7, ReadOtherwiseShaped
<1>4. IsFiniteSet(MergedInto(m))
    BY <1>2, <1>8, FS_Union DEF Shaped, MergedInto
<1>5. Shaped(MergedInto(m))
    BY <1>2, <1>8, <1>4 DEF Shaped, MergedInto
<1> QED BY <1>2, <1>3, <1>5, <1>7, <1>8

\* The contracts of a subject whose short keys stand for what they did read as they did.
LEMMA SameReadings ==
    ASSUME NEW A, NEW C, Shaped(A), Shaped(C), A \subseteq C, SameAliases(A, C)
    PROVE  Ready(A) \subseteq Ready(C)
<1>1. /\ CanonicalReadings(A) = {Replaced(c, Short(A)) : c \in A}
      /\ \A k : Spelled(Short(A), k) = Resolve(A, k)
      /\ Resolve(A, None) = None
    BY ReadingsAre
<1>2. /\ CanonicalReadings(C) = {Replaced(c, Short(C)) : c \in C}
      /\ \A k : Spelled(Short(C), k) = Resolve(C, k)
      /\ Resolve(C, None) = None
    BY ReadingsAre
<1>3. ASSUME NEW c \in A PROVE Replaced(c, Short(A)) = Replaced(c, Short(C))
    <2>3. Plain(OneSpelling(c.proposition)) /\ Keys(OneSpelling(c.proposition)) \subseteq Keys(c.proposition)
        BY OneSpellingIs DEF Shaped
    <2>1. Keys(OneSpelling(c.proposition)) \subseteq SubjectKeys(A)
        BY <2>3 DEF SubjectKeys
    <2>2. \A k \in Keys(OneSpelling(c.proposition)) \cup {None} : Spelled(Short(A), k) = Spelled(Short(C), k)
        BY <1>1, <1>2, <2>1 DEF SameAliases
    <2>4. Renamed(OneSpelling(c.proposition), Short(A)) = Renamed(OneSpelling(c.proposition), Short(C))
        BY <2>2, <2>3, SpelledAlike
    <2> QED BY <2>4 DEF Replaced
<1> QED BY <1>1, <1>2, <1>3 DEF Ready

\* What b's keys are called once merged.
NewNames(m) == [k \in SubjectKeys(m.b) \cup {None} |-> Resolve(Aligned(m), Spelled(m.keys, k))]

\* The names the judge may give, and the heads of measures.
NamesGiven(m) == SubjectKeys(m.b) \cup {m.keys[k] : k \in DOMAIN m.keys} \cup {None}
HeadsGiven(m) == {OneHead(p) : p \in Measured(m.b)}
                     \cup UNION {{q.measure.head, OneHead(q)} : q \in {Remeasured(p, m.measures) : p \in Measured(m.b)}}

\* Under the judge's names no measure, score or key becomes None.
LEMMA NoneIsNoName ==
    ASSUME NEW m \in Mergers
    PROVE  /\ \A h \in HeadsGiven(m), k \in NamesGiven(m) : [head |-> h, of |-> k] # None
           /\ \A p \in Measured(m.b) : Remeasured(p, m.measures).measure # None
           /\ \A k, l \in NamesGiven(m) : None \notin [{k, l} -> Int]
           /\ \A k \in SubjectKeys(m.b) : Spelled(m.keys, k) \in NamesGiven(m) \ {None}
           /\ Spelled(m.keys, None) = None /\ \A k : Spelled(m.keys, k) = None <=> k = None
<1> DEFINE read  == Measured(m.b) \cup {Remeasured(p, m.measures) : p \in Measured(m.b)}
           heads == {p.measure.head : p \in read} \cup {OneHead(p) : p \in read}
           of    == {p.measure.of : p \in read}
           names == SubjectKeys(m.b) \cup of \cup {m.keys[k] : k \in DOMAIN m.keys} \cup {None}
<1>1. /\ \A p \in read : p.measure = [head |-> p.measure.head, of |-> p.measure.of]
      /\ None \notin [head : heads, of : names] /\ \A k, l \in names : None \notin [{k, l} -> Int]
    BY MergersAssumption
<1>2. NamesGiven(m) \subseteq names
    BY DEF NamesGiven
<1>3. HeadsGiven(m) \subseteq heads
    <2>1. \A p \in Measured(m.b) : p \in read /\ Remeasured(p, m.measures) \in read
        OBVIOUS
    <2> HIDE DEF read
    <2> QED BY <2>1 DEF HeadsGiven
<1>4. ASSUME NEW p \in Measured(m.b) PROVE Remeasured(p, m.measures).measure # None
    <2> DEFINE q == Remeasured(p, m.measures)
    <2>1. q \in read
        OBVIOUS
    <2> HIDE DEF q, read
    <2>3. q.measure.head \in {z.measure.head : z \in read} /\ q.measure.of \in {z.measure.of : z \in read}
        BY <2>1
    <2>2. q.measure.head \in heads /\ q.measure.of \in names
        BY <2>3
    <2> HIDE DEF heads, names
    <2>4. q.measure = [head |-> q.measure.head, of |-> q.measure.of]
        BY <1>1, <2>1
    <2>5. [head |-> q.measure.head, of |-> q.measure.of] \in [head : heads, of : names]
        BY <2>2
    <2>6. q.measure # None
        BY <1>1, <2>4, <2>5
    <2> QED BY <2>6 DEF q
<1>5. \A h \in HeadsGiven(m), k \in NamesGiven(m) : [head |-> h, of |-> k] # None
    <2> HIDE DEF heads, names
    <2> QED BY <1>1, <1>2, <1>3
<1>6. \A k, l \in NamesGiven(m) : None \notin [{k, l} -> Int]
    <2> HIDE DEF names
    <2> QED BY <1>1, <1>2
<1>7. None \notin DOMAIN m.keys /\ \A k \in DOMAIN m.keys : m.keys[k] # None
    BY MergersAssumption
<1>8. None \notin SubjectKeys(m.b)
    BY DEF SubjectKeys, Keys
<1>9. \A k \in SubjectKeys(m.b) : Spelled(m.keys, k) \in NamesGiven(m) \ {None}
    BY <1>7, <1>8 DEF Spelled, NamesGiven
<1>10. Spelled(m.keys, None) = None /\ \A k : Spelled(m.keys, k) = None <=> k = None
    BY <1>7 DEF Spelled
<1> QED BY <1>4, <1>5, <1>6, <1>9, <1>10

\* A contract of b's in the aligned subject: its measure is of whom it was, under the judge's names.
LEMMA JoinedIs ==
    ASSUME NEW m \in Mergers, KeepsMeasures(m), NEW c \in m.b
    PROVE  LET p == c.proposition
               q == Remeasured(p, m.measures)
               r == Joined(m, c).proposition
           IN  /\ Joined(m, c) \in Aligned(m) /\ Record(Joined(m, c)) /\ SoldAs(c, Joined(m, c))
               /\ Plain(p) /\ Plain(r) /\ r = [x \in Fields |-> r[x]]
               /\ \A x \in KeptFields : r[x] = p[x]
               /\ r.entity = Spelled(m.keys, p.entity)
               /\ r.scores = IF p.scores = None THEN None ELSE SidesSpelled(p.scores, m.keys)
               /\ IF p.measure = None THEN r.measure = None
                  ELSE /\ p \in Measured(m.b) /\ q.measure.head \in HeadsGiven(m)
                       /\ r.measure = [head |-> q.measure.head, of |-> Spelled(m.keys, p.measure.of)]
                       /\ OneHead(r) = OneHead(q)
<1> DEFINE p == c.proposition
           q == Remeasured(p, m.measures)
           r == Renamed(q, m.keys)
<1>1. /\ Plain(p) /\ Plain(q) /\ \A x \in Fields \ {"measure"} : q[x] = p[x]
      /\ q.entity = p.entity /\ q.scores = p.scores
      /\ IF p.measure = None THEN q.measure = None
         ELSE q.measure = [head |-> q.measure.head, of |-> q.measure.of] /\ p \in Measured(m.b)
    BY RemeasuredIs
<1>2. Joined(m, c) = ReadOtherwise(c, r) /\ Joined(m, c) \in Aligned(m)
    BY MergersShaped DEF Joined
<1>3. Record(c)
    BY MergersShaped DEF Shaped
<1>4. Record(Joined(m, c)) /\ SoldAs(c, Joined(m, c)) /\ Joined(m, c).proposition = r
    BY <1>2, <1>3, ReadOtherwiseIs
<1>5. /\ r = [x \in Fields |-> r[x]] /\ \A x \in KeptFields : r[x] = q[x]
      /\ r.entity = Spelled(m.keys, q.entity)
      /\ r.measure = IF q.measure = None THEN None ELSE [head |-> q.measure.head, of |-> Spelled(m.keys, q.measure.of)]
      /\ r.scores = IF q.scores = None THEN None ELSE SidesSpelled(q.scores, m.keys)
    BY <1>1, RenamedIs
<1>6. Plain(r)
    BY <1>1, PlainKept
<1>7. p.measure # None => q.measure # None /\ Spelled(m.keys, q.measure.of) = Spelled(m.keys, p.measure.of)
    <2> SUFFICES ASSUME p.measure # None
                 PROVE  q.measure # None /\ Spelled(m.keys, q.measure.of) = Spelled(m.keys, p.measure.of)
        OBVIOUS
    <2>1. p \in Measured(m.b)
        BY <1>1
    <2>2. q.measure # None
        BY <2>1, NoneIsNoName
    <2>3. Renamed(q, m.keys).measure.of = Renamed(p, m.keys).measure.of
        BY <2>1 DEF KeepsMeasures
    <2>4. Renamed(p, m.keys).measure = [head |-> p.measure.head, of |-> Spelled(m.keys, p.measure.of)]
        BY <1>1, RenamedIs
    <2> HIDE DEF p, q, r
    <2> QED BY <1>5, <2>2, <2>3, <2>4 DEF r
<1>8. p.measure # None => q.measure.head \in HeadsGiven(m)
    BY <1>1 DEF HeadsGiven
<1> HIDE DEF p, q, r
<1>9. \A x \in KeptFields : r[x] = p[x]
    BY <1>1, <1>5 DEF KeptFields
<1>10. p.measure # None => OneHead(r) = OneHead(q)
    <2> SUFFICES ASSUME p.measure # None PROVE OneHead(r) = OneHead(q)
        OBVIOUS
    <2>1. r.measure.head = q.measure.head /\ r.measure.of = Spelled(m.keys, q.measure.of)
        BY <1>5, <1>7
    <2>2. r.measure.of = None <=> q.measure.of = None
        BY <2>1, NoneIsNoName
    <2>3. {"kind", "scope"} \subseteq KeptFields
        BY DEF KeptFields, Fields
    <2>4. r.kind = q.kind /\ r.scope = q.scope
        BY <1>5, <2>3
    <2> QED BY <2>1, <2>2, <2>4 DEF OneHead
<1> QED BY <1>1, <1>2, <1>4, <1>5, <1>6, <1>7, <1>8, <1>9, <1>10 DEF p, q

\* Every key of b has a key of b's aligned contracts for its new name.
LEMMA NewNamesAre ==
    ASSUME NEW m \in Mergers, KeepsMeasures(m)
    PROVE  /\ \A k \in SubjectKeys(m.b) : Spelled(m.keys, k) \in SubjectKeys(Aligned(m))
           /\ \A k \in SubjectKeys(m.b) : NewNames(m)[k] = Named(m)[k] /\ NewNames(m)[k] # None
           /\ \A k \in SubjectKeys(m.b) \cup {None} : NewNames(m)[k] \in NamesGiven(m)
           /\ NewNames(m)[None] = None
<1>1. /\ Shaped(m.b) /\ Shaped(Aligned(m)) /\ Aligned(m) = {Joined(m, c) : c \in m.b}
    BY MergersShaped
<1>2. ASSUME NEW c \in m.b
      PROVE  LET p == c.proposition
                 r == Joined(m, c).proposition
             IN  /\ r.entity = Spelled(m.keys, p.entity)
                 /\ r.scores = IF p.scores = None THEN None ELSE SidesSpelled(p.scores, m.keys)
                 /\ IF p.measure = None THEN r.measure = None
                    ELSE /\ r.measure = [head |-> r.measure.head, of |-> Spelled(m.keys, p.measure.of)]
                         /\ r.measure.head \in HeadsGiven(m)
    <2> DEFINE p == c.proposition
               q == Remeasured(p, m.measures)
               r == Joined(m, c).proposition
    <2>1. /\ r.entity = Spelled(m.keys, p.entity)
          /\ r.scores = IF p.scores = None THEN None ELSE SidesSpelled(p.scores, m.keys)
          /\ IF p.measure = None THEN r.measure = None
             ELSE /\ q.measure.head \in HeadsGiven(m)
                  /\ r.measure = [head |-> q.measure.head, of |-> Spelled(m.keys, p.measure.of)]
        BY JoinedIs
    <2> HIDE DEF p, q, r
    <2>2. p.measure # None => r.measure.head = q.measure.head
        BY <2>1
    <2>3. IF p.measure = None THEN r.measure = None
          ELSE /\ r.measure = [head |-> r.measure.head, of |-> Spelled(m.keys, p.measure.of)]
               /\ r.measure.head \in HeadsGiven(m)
        BY <2>1, <2>2
    <2> QED BY <2>1, <2>3 DEF p, r
<1>3. ASSUME NEW c \in m.b, NEW k \in Keys(c.proposition)
      PROVE  Spelled(m.keys, k) \in Keys(Joined(m, c).proposition)
    <2> DEFINE p == c.proposition
               r == Joined(m, c).proposition
    <2>1. /\ r.entity = Spelled(m.keys, p.entity)
          /\ r.scores = IF p.scores = None THEN None ELSE SidesSpelled(p.scores, m.keys)
          /\ IF p.measure = None THEN r.measure = None
             ELSE /\ r.measure = [head |-> r.measure.head, of |-> Spelled(m.keys, p.measure.of)]
                  /\ r.measure.head \in HeadsGiven(m)
        BY <1>2
    <2>2. k \in SubjectKeys(m.b)
        BY DEF SubjectKeys
    <2>3. Spelled(m.keys, k) \in NamesGiven(m) \ {None}
        BY <2>2, NoneIsNoName
    <2>4. k = p.entity \/ (p.measure # None /\ k = p.measure.of) \/ (p.scores # None /\ k \in DOMAIN p.scores)
        BY <1>3 DEF Keys
    <2> HIDE DEF p, r
    <2>5. CASE k = p.entity
        <3>1. Spelled(m.keys, k) \in Keys(r)
            BY <2>1, <2>3, <2>5 DEF Keys
        <3> QED BY <3>1 DEF r, p
    <2>6. CASE p.measure # None /\ k = p.measure.of
        <3>1. r.measure = [head |-> r.measure.head, of |-> Spelled(m.keys, k)] /\ r.measure.head \in HeadsGiven(m)
            BY <2>1, <2>6
        <3>5. [head |-> r.measure.head, of |-> Spelled(m.keys, k)] # None
            BY <2>3, <3>1, NoneIsNoName
        <3>2. r.measure # None
            BY <3>1, <3>5
        <3>3. r.measure.of = Spelled(m.keys, k)
            BY <3>1
        <3>4. Spelled(m.keys, k) \in Keys(r)
            BY <2>3, <3>2, <3>3 DEF Keys
        <3> QED BY <3>4 DEF r, p
    <2>7. CASE p.scores # None /\ k \in DOMAIN p.scores
        <3>1. r.scores = SidesSpelled(p.scores, m.keys) /\ DOMAIN r.scores = {Spelled(m.keys, s) : s \in DOMAIN p.scores}
            BY <2>1, <2>7 DEF SidesSpelled
        <3>2. r.scores # None
            <4>1. Described(c.proposition)
                BY MergersAssumption
            <4>2. PICK s, t \in DOMAIN p.scores : s # t /\ p.scores \in [{s, t} -> Int]
                BY <2>7, <4>1 DEF Described, p
            <4>3. /\ Spelled(m.keys, s) \in NamesGiven(m) /\ Spelled(m.keys, t) \in NamesGiven(m)
                <5>1. \A z \in DOMAIN p.scores : z = None \/ z \in SubjectKeys(m.b)
                    BY <2>7 DEF SubjectKeys, Keys, p
                <5>2. None \in NamesGiven(m)
                    BY DEF NamesGiven
                <5> QED BY <4>2, <5>1, <5>2, NoneIsNoName
            <4>4. r.scores \in [{Spelled(m.keys, s), Spelled(m.keys, t)} -> Int]
                <5>1. DOMAIN p.scores = {s, t} /\ \A z \in DOMAIN p.scores : p.scores[z] \in Int
                    BY <4>2
                <5>2. DOMAIN r.scores = {Spelled(m.keys, s), Spelled(m.keys, t)}
                    BY <3>1, <5>1
                <5>3. \A l \in DOMAIN r.scores : r.scores[l] \in Int
                    <6> SUFFICES ASSUME NEW l \in DOMAIN r.scores PROVE r.scores[l] \in Int
                        OBVIOUS
                    <6>1. r.scores[l] = p.scores[CHOOSE z \in DOMAIN p.scores : Spelled(m.keys, z) = l]
                        BY <3>1 DEF SidesSpelled
                    <6>2. \E z \in DOMAIN p.scores : Spelled(m.keys, z) = l
                        BY <3>1
                    <6>3. (CHOOSE z \in DOMAIN p.scores : Spelled(m.keys, z) = l) \in DOMAIN p.scores
                        BY <6>2
                    <6> QED BY <5>1, <6>1, <6>3
                <5>4. r.scores = [l \in DOMAIN r.scores |-> r.scores[l]]
                    BY <3>1 DEF SidesSpelled
                <5> QED BY <5>2, <5>3, <5>4
            <4> QED BY <4>3, <4>4, NoneIsNoName
        <3>3. Spelled(m.keys, k) \in DOMAIN r.scores
            BY <2>7, <3>1
        <3>4. Spelled(m.keys, k) \in Keys(r)
            BY <2>3, <3>2, <3>3 DEF Keys
        <3> QED BY <3>4 DEF r, p
    <2>8. Spelled(m.keys, k) \in Keys(r)
        BY <2>4, <2>5, <2>6, <2>7 DEF r, p
    <2> QED BY <2>8 DEF r, p
<1>4. ASSUME NEW k \in SubjectKeys(m.b) PROVE Spelled(m.keys, k) \in SubjectKeys(Aligned(m))
    <2>1. PICK c \in m.b : k \in Keys(c.proposition)
        BY DEF SubjectKeys
    <2> QED BY <1>1, <1>3, <2>1 DEF SubjectKeys
<1>5. /\ \A k \in SubjectKeys(Aligned(m)) : Resolve(Aligned(m), k) \in SubjectKeys(Aligned(m))
      /\ Resolve(Aligned(m), None) = None /\ None \notin SubjectKeys(Aligned(m))
    BY <1>1, ReadingsAre
<1>6. SubjectKeys(Aligned(m)) \subseteq NamesGiven(m)
    <2> SUFFICES ASSUME NEW d \in Aligned(m), NEW l \in Keys(d.proposition) PROVE l \in NamesGiven(m)
        BY DEF SubjectKeys
    <2>1. PICK c \in m.b : d = Joined(m, c)
        BY <1>1
    <2>3. \E k \in Keys(c.proposition) \cup {None} : l = Spelled(m.keys, k)
        <3> DEFINE p == c.proposition
                   r == d.proposition
        <3>1. /\ r.entity = Spelled(m.keys, p.entity)
              /\ r.scores = IF p.scores = None THEN None ELSE SidesSpelled(p.scores, m.keys)
              /\ IF p.measure = None THEN r.measure = None
                 ELSE r.measure = [head |-> r.measure.head, of |-> Spelled(m.keys, p.measure.of)]
            BY <1>2, <2>1
        <3>2. l = r.entity \/ (r.measure # None /\ l = r.measure.of) \/ (r.scores # None /\ l \in DOMAIN r.scores)
            BY DEF Keys
        <3>3. p.entity \in Keys(p) \cup {None} /\ (p.measure # None => p.measure.of \in Keys(p) \cup {None})
              /\ (p.scores # None => \A k \in DOMAIN p.scores : k \in Keys(p) \cup {None})
            BY DEF Keys
        <3> HIDE DEF p, r
        <3>4. CASE l = r.entity
            BY <3>1, <3>3, <3>4 DEF p
        <3>5. CASE r.measure # None /\ l = r.measure.of
            BY <3>1, <3>3, <3>5 DEF p
        <3>6. CASE r.scores # None /\ l \in DOMAIN r.scores
            <4>1. p.scores # None /\ l \in {Spelled(m.keys, s) : s \in DOMAIN p.scores}
                BY <3>1, <3>6 DEF SidesSpelled
            <4> QED BY <3>3, <4>1 DEF p
        <3> QED BY <3>2, <3>4, <3>5, <3>6
    <2>4. Keys(c.proposition) \subseteq SubjectKeys(m.b)
        BY DEF SubjectKeys
    <2>5. None \in NamesGiven(m)
        BY DEF NamesGiven
    <2> QED BY <2>3, <2>4, <2>5, NoneIsNoName
<1>7. \A k \in SubjectKeys(m.b) : NewNames(m)[k] = Named(m)[k]
    BY DEF NewNames, Named, Spelled
<1>8. \A k \in SubjectKeys(m.b) : NewNames(m)[k] \in SubjectKeys(Aligned(m))
    BY <1>4, <1>5 DEF NewNames
<1>9. NewNames(m)[None] = None
    BY <1>5, NoneIsNoName DEF NewNames
<1>10. None \in NamesGiven(m)
    BY DEF NamesGiven
<1> QED BY <1>4, <1>5, <1>6, <1>7, <1>8, <1>9, <1>10

\* What measures of b's are called once merged.
NewHeads(m) ==
    [h \in {OneSpelling(p).measure : p \in Measured(m.b)} |->
        OneHead(Remeasured(CHOOSE p \in Measured(m.b) : OneSpelling(p).measure = h, m.measures))]

\* They are called one thing, and what they were where a rule reads them.
LEMMA NewHeadsAre ==
    ASSUME NEW m \in Mergers, KeepsMeasures(m)
    PROVE  /\ HeadsKept(NewHeads(m))
           /\ \A p \in Measured(m.b) : /\ OneSpelling(p).measure \in DOMAIN NewHeads(m)
                                       /\ NewHeads(m)[OneSpelling(p).measure] = OneHead(Remeasured(p, m.measures))
<1>1. ASSUME NEW p \in Measured(m.b)
      PROVE  /\ OneSpelling(p).measure \in DOMAIN NewHeads(m)
             /\ NewHeads(m)[OneSpelling(p).measure] = OneHead(Remeasured(p, m.measures))
             /\ HeadAlike(OneSpelling(p).measure.head, OneHead(Remeasured(p, m.measures)))
    <2> DEFINE h == OneSpelling(p).measure
               z == CHOOSE q \in Measured(m.b) : OneSpelling(q).measure = h
    <2>1. z \in Measured(m.b) /\ OneSpelling(z).measure = h
        OBVIOUS
    <2>2. h \in DOMAIN NewHeads(m) /\ NewHeads(m)[h] = OneHead(Remeasured(z, m.measures))
        BY DEF NewHeads
    <2>6. \A q \in Measured(m.b) : OneSpelling(q).measure = OneSpelling(p).measure =>
              OneHead(Remeasured(q, m.measures)) = OneHead(Remeasured(p, m.measures))
        BY DEF KeepsMeasures
    <2>3. OneHead(Remeasured(z, m.measures)) = OneHead(Remeasured(p, m.measures))
        <3> HIDE DEF z
        <3> QED BY <2>1, <2>6
    <2>4. OneHead(Remeasured(p, m.measures)) # OneHead(p)
              => {OneHead(p), OneHead(Remeasured(p, m.measures))} \cap ReadHeads = {}
        BY DEF KeepsMeasures
    <2>5. h.head = OneHead(p)
        <3>2. PICK c \in m.b : c.proposition = p
            BY DEF Measured
        <3>3. Plain(c.proposition)
            BY RemeasuredIs
        <3>4. p.measure # None
            BY DEF Measured
        <3>1. Plain(p) /\ p.measure # None
            BY <3>2, <3>3, <3>4
        <3>5. OneSpelling(p).measure = IF p.measure = None THEN None ELSE [head |-> OneHead(p), of |-> p.measure.of]
            BY <3>1, OneSpellingIs
        <3> HIDE DEF h
        <3>6. h = [head |-> OneHead(p), of |-> p.measure.of]
            BY <3>1, <3>5 DEF h
        <3> QED BY <3>6
    <2> HIDE DEF h, z
    <2> QED BY <2>2, <2>3, <2>4, <2>5 DEF h, HeadAlike
<1>2. ASSUME NEW h \in DOMAIN NewHeads(m) PROVE HeadAlike(h.head, NewHeads(m)[h])
    <2>1. PICK p \in Measured(m.b) : h = OneSpelling(p).measure
        BY DEF NewHeads
    <2> QED BY <1>1, <2>1
<1> QED BY <1>1, <1>2 DEF HeadsKept

\* A contract as it is read where no key stands for another, and as it is once merged.
One(c) == ReadOtherwise(c, OneSpelling(c.proposition))
Renames(m, c) == Replaced(Joined(m, c), Short(MergedInto(m)))

\* Each of b's contracts is read in the merged subject as before, but for its new names.
LEMMA ReadByNewNames ==
    ASSUME NEW m \in Mergers, KeepsMeasures(m), KeepsKeys(NewNames(m)), SameAliases(Aligned(m), MergedInto(m)), NEW c \in m.b
    PROVE  /\ Renames(m, c) \in CanonicalReadings(MergedInto(m)) /\ SoldAs(c, Renames(m, c)) /\ SoldAs(c, One(c))
           /\ SpelledBy(NewNames(m), NewHeads(m), One(c).proposition, Renames(m, c).proposition)
<1> DEFINE f == NewNames(m)
           heads == NewHeads(m)
           d == Joined(m, c)
           x == Renames(m, c)
           o == c.proposition
           p == OneSpelling(o)
           q == d.proposition
           s1 == OneSpelling(q)
           r == x.proposition
           short == Short(MergedInto(m))
           new == OneHead(Remeasured(o, m.measures))
<1>1. /\ Shaped(m.b) /\ Shaped(Aligned(m)) /\ Shaped(MergedInto(m))
    BY MergersShaped
<1>2. Record(c) /\ Plain(o) /\ d \in Aligned(m) /\ Record(d) /\ Plain(q) /\ SoldAs(c, d)
    BY <1>1, JoinedIs DEF Shaped
<1>3. SoldAs(d, x) /\ r = Renamed(s1, short) /\ SoldAs(c, One(c)) /\ One(c).proposition = p
    BY <1>2, ReadOtherwiseIs DEF Renames, Replaced, One
<1>4. x \in CanonicalReadings(MergedInto(m))
    <2>1. CanonicalReadings(MergedInto(m)) = {Replaced(e, Short(MergedInto(m))) : e \in MergedInto(m)}
        BY <1>1, ReadingsAre
    <2> QED BY <1>2, <2>1 DEF Renames, MergedInto
<1>5. SoldAs(c, x)
    BY <1>2, <1>3 DEF SoldAs
<1>6. DOMAIN f = SubjectKeys(m.b) \cup {None}
    BY DEF NewNames
<1>7. \A k \in DOMAIN f : Spelled(short, Spelled(m.keys, k)) = f[k]
    <2>1. \A k : Spelled(short, k) = Resolve(MergedInto(m), k)
        BY <1>1, ReadingsAre
    <2>2. Resolve(MergedInto(m), None) = None /\ Resolve(Aligned(m), None) = None
        BY <1>1, ReadingsAre
    <2>3. \A k \in SubjectKeys(Aligned(m)) : Resolve(MergedInto(m), k) = Resolve(Aligned(m), k)
        BY DEF SameAliases
    <2>4. \A k \in SubjectKeys(m.b) : Spelled(m.keys, k) \in SubjectKeys(Aligned(m))
        BY NewNamesAre
    <2>5. Spelled(m.keys, None) = None
        BY NoneIsNoName
    <2> HIDE DEF short
    <2> QED BY <2>1, <2>2, <2>3, <2>4, <2>5 DEF NewNames
<1>8. /\ q = [z \in Fields |-> q[z]] /\ \A z \in KeptFields : q[z] = o[z]
      /\ q.entity = Spelled(m.keys, o.entity)
      /\ q.scores = IF o.scores = None THEN None ELSE SidesSpelled(o.scores, m.keys)
      /\ IF o.measure = None THEN q.measure = None
         ELSE /\ o \in Measured(m.b) /\ q.measure = [head |-> q.measure.head, of |-> Spelled(m.keys, o.measure.of)]
              /\ q.measure.head \in HeadsGiven(m) /\ OneHead(q) = new
    <2> DEFINE w == Remeasured(o, m.measures)
    <2>1. /\ q = [z \in Fields |-> q[z]] /\ \A z \in KeptFields : q[z] = o[z]
          /\ q.entity = Spelled(m.keys, o.entity)
          /\ q.scores = IF o.scores = None THEN None ELSE SidesSpelled(o.scores, m.keys)
          /\ IF o.measure = None THEN q.measure = None
             ELSE /\ o \in Measured(m.b) /\ w.measure.head \in HeadsGiven(m)
                  /\ q.measure = [head |-> w.measure.head, of |-> Spelled(m.keys, o.measure.of)]
                  /\ OneHead(q) = new
        BY JoinedIs
    <2> HIDE DEF o, q, w, new
    <2>2. o.measure # None => q.measure.head = w.measure.head
        BY <2>1
    <2> QED BY <2>1, <2>2
<1>20. /\ p = [z \in Fields |-> p[z]] /\ \A z \in Fields \ {"measure"} : p[z] = o[z]
       /\ p.entity = o.entity /\ p.scores = o.scores
       /\ p.measure = IF o.measure = None THEN None ELSE [head |-> OneHead(o), of |-> o.measure.of]
    BY <1>2, OneSpellingIs
<1>21. /\ Plain(s1) /\ \A z \in Fields \ {"measure"} : s1[z] = q[z]
       /\ s1.entity = q.entity /\ s1.scores = q.scores
       /\ s1.measure = IF q.measure = None THEN None ELSE [head |-> OneHead(q), of |-> q.measure.of]
    BY <1>2, OneSpellingIs
<1>9. /\ r = [z \in Fields |-> r[z]] /\ \A z \in KeptFields : r[z] = s1[z]
      /\ r.entity = Spelled(short, s1.entity)
      /\ r.measure = IF s1.measure = None THEN None ELSE [head |-> s1.measure.head, of |-> Spelled(short, s1.measure.of)]
      /\ r.scores = IF s1.scores = None THEN None ELSE SidesSpelled(s1.scores, short)
    BY <1>3, <1>21, RenamedIs
<1>10. o.entity \in DOMAIN f /\ (o.measure # None => o.measure.of \in DOMAIN f)
       /\ (o.scores # None => DOMAIN o.scores \subseteq DOMAIN f)
    BY <1>6 DEF SubjectKeys, Keys
<1>11. /\ \A k \in DOMAIN f : f[k] \in NamesGiven(m) /\ Spelled(m.keys, k) \in NamesGiven(m)
       /\ \A k, l \in DOMAIN f : f[k] = f[l] => k = l
    <2>1. Spelled(m.keys, None) = None /\ None \in NamesGiven(m)
        BY NoneIsNoName DEF NamesGiven
    <2>2. \A k \in SubjectKeys(m.b) \cup {None} : f[k] \in NamesGiven(m)
        BY NewNamesAre
    <2>3. \A k \in SubjectKeys(m.b) : Spelled(m.keys, k) \in NamesGiven(m)
        BY NoneIsNoName
    <2> QED BY <1>6, <2>1, <2>2, <2>3 DEF KeepsKeys, IsInjective
<1>12. Described(o)
    BY MergersAssumption
<1>22. o.measure # None => p.measure \in DOMAIN heads /\ heads[p.measure] = new /\ new \in HeadsGiven(m) /\ OneHead(o) \in HeadsGiven(m)
    <2>1. o.measure # None => new \in HeadsGiven(m) /\ OneHead(o) \in HeadsGiven(m)
        BY <1>8 DEF HeadsGiven
    <2> QED BY <1>8, <2>1, NewHeadsAre
<1> HIDE DEF short, heads, new, o, s1
<1>13. /\ p = [z \in Fields |-> p[z]] /\ r = [z \in Fields |-> r[z]]
       /\ \A z \in KeptFields : r[z] = p[z]
    BY <1>8, <1>9, <1>20, <1>21 DEF KeptFields
<1> HIDE DEF f, d, x, p, q, r
<1>14. ReadAs(p, r)
    <2>1. {"kind", "comparator", "value", "unit", "low", "lowIn", "high", "highIn", "observation", "start", "end", "scope",
           "stability", "negated", "game", "undated", "senate"} \subseteq KeptFields
        BY DEF KeptFields, Fields
    <2>2. /\ r["kind"] = p["kind"] /\ r["comparator"] = p["comparator"] /\ r["value"] = p["value"] /\ r["unit"] = p["unit"]
          /\ r["low"] = p["low"] /\ r["lowIn"] = p["lowIn"] /\ r["high"] = p["high"] /\ r["highIn"] = p["highIn"]
          /\ r["observation"] = p["observation"] /\ r["start"] = p["start"] /\ r["end"] = p["end"] /\ r["scope"] = p["scope"]
          /\ r["stability"] = p["stability"] /\ r["negated"] = p["negated"] /\ r["game"] = p["game"]
          /\ r["undated"] = p["undated"] /\ r["senate"] = p["senate"]
        BY <1>13, <2>1
    <2> QED BY <1>13, <2>2 DEF ReadAs
<1>15. r.entity = f[p.entity] /\ p.entity \in DOMAIN f
    BY <1>7, <1>8, <1>9, <1>10, <1>20, <1>21
<1>16. IF p.measure = None THEN r.measure = None
       ELSE /\ p.measure = [head |-> p.measure.head, of |-> p.measure.of]
            /\ p.measure \in DOMAIN heads /\ p.measure.of \in DOMAIN f
            /\ r.measure = [head |-> heads[p.measure], of |-> f[p.measure.of]] /\ r.measure # None
    <2>1. CASE o.measure = None
        BY <1>8, <1>9, <1>20, <1>21, <2>1
    <2>2. CASE o.measure # None
        <3>1. p.measure = [head |-> OneHead(o), of |-> o.measure.of] /\ o.measure.of \in DOMAIN f
            BY <1>10, <1>20, <2>2
        <3>2. p.measure = [head |-> p.measure.head, of |-> p.measure.of] /\ p.measure.of = o.measure.of
            BY <3>1
        <3>3. \A h \in HeadsGiven(m), k \in NamesGiven(m) : [head |-> h, of |-> k] # None
            BY NoneIsNoName
        <3>4. q.measure # None /\ q.measure.of = Spelled(m.keys, o.measure.of)
            <4>1. [head |-> q.measure.head, of |-> Spelled(m.keys, o.measure.of)] # None
                BY <1>8, <1>11, <2>2, <3>1, <3>3
            <4> QED BY <1>8, <2>2, <4>1
        <3>5. s1.measure = [head |-> new, of |-> Spelled(m.keys, o.measure.of)]
            BY <1>8, <1>21, <2>2, <3>4
        <3>6. s1.measure # None
            BY <1>11, <1>22, <2>2, <3>1, <3>3, <3>5
        <3>7. r.measure = [head |-> new, of |-> Spelled(short, Spelled(m.keys, o.measure.of))]
            BY <1>9, <3>5, <3>6
        <3>8. r.measure = [head |-> new, of |-> f[o.measure.of]]
            BY <1>7, <3>1, <3>7
        <3>9. r.measure # None
            BY <1>11, <1>22, <2>2, <3>1, <3>3, <3>8
        <3>10. o.measure.of \in NamesGiven(m)
            BY <1>6, <3>1 DEF NamesGiven
        <3>11. p.measure # None
            BY <1>22, <2>2, <3>1, <3>3, <3>10
        <3> QED BY <1>22, <2>2, <3>1, <3>2, <3>8, <3>9, <3>11
    <2> QED BY <2>1, <2>2
<1>17. IF p.scores = None THEN r.scores = None ELSE ScoredAs(f, p, r)
    <2>1. CASE p.scores = None
        BY <1>8, <1>9, <1>20, <1>21, <2>1
    <2>2. CASE p.scores # None
        <3>1. PICK s, t \in DOMAIN p.scores : s # t /\ p.scores \in [{s, t} -> Int]
            BY <1>12, <1>20, <2>2 DEF Described
        <3>2. s \in DOMAIN f /\ t \in DOMAIN f /\ f[s] # f[t]
            BY <1>10, <1>11, <1>20, <2>2, <3>1
        <3> DEFINE u == Spelled(m.keys, s)
                   v == Spelled(m.keys, t)
        <3>3. Spelled(short, u) = f[s] /\ Spelled(short, v) = f[t] /\ u # v
            BY <1>7, <3>2
        <3>4. /\ SidesSpelled(p.scores, m.keys) \in [{u, v} -> Int]
              /\ SidesSpelled(p.scores, m.keys)[u] = p.scores[s] /\ SidesSpelled(p.scores, m.keys)[v] = p.scores[t]
            BY <3>1, <3>3, TwoSidesSpelled
        <3>5. u \in NamesGiven(m) /\ v \in NamesGiven(m) /\ f[s] \in NamesGiven(m) /\ f[t] \in NamesGiven(m)
            BY <1>11, <3>2
        <3> HIDE DEF u, v
        <3>6. /\ q.scores \in [{u, v} -> Int] /\ q.scores[u] = p.scores[s] /\ q.scores[v] = p.scores[t]
            BY <1>8, <1>20, <2>2, <3>4
        <3>7. q.scores # None
            BY <3>5, <3>6, NoneIsNoName
        <3>8. r.scores = SidesSpelled(q.scores, short)
            BY <1>9, <1>21, <3>7
        <3>9. /\ SidesSpelled(q.scores, short) \in [{Spelled(short, u), Spelled(short, v)} -> Int]
              /\ SidesSpelled(q.scores, short)[Spelled(short, u)] = q.scores[u]
              /\ SidesSpelled(q.scores, short)[Spelled(short, v)] = q.scores[v]
            BY <3>2, <3>3, <3>6, TwoSidesSpelled
        <3>10. r.scores \in [{f[s], f[t]} -> Int] /\ r.scores[f[s]] = p.scores[s] /\ r.scores[f[t]] = p.scores[t]
            BY <3>3, <3>6, <3>8, <3>9
        <3>11. r.scores # None
            BY <3>5, <3>10, NoneIsNoName
        <3> QED BY <2>2, <3>1, <3>2, <3>10, <3>11 DEF ScoredAs
    <2> QED BY <2>1, <2>2
<1>18. SpelledBy(f, heads, p, r)
    BY <1>14, <1>15, <1>16, <1>17 DEF SpelledBy
<1> QED BY <1>3, <1>4, <1>5, <1>18 DEF f, heads, x, p, o, r

\* The names keep b's keys apart, and a draw what it is where a score tells it.
LEMMA NewNamesKeep ==
    ASSUME NEW m \in Mergers, KeepsMeasures(m), KeepsApart(Named(m), m.b)
    PROVE  /\ KeepsKeys(NewNames(m))
           /\ (\E c \in m.b : c.proposition.kind = "SCORE") => TieKept(NewNames(m))
<1>1. /\ \A k \in SubjectKeys(m.b) : NewNames(m)[k] = Named(m)[k] /\ NewNames(m)[k] # None
      /\ NewNames(m)[None] = None
    BY NewNamesAre
<1>2. DOMAIN Named(m) = SubjectKeys(m.b) /\ DOMAIN NewNames(m) = SubjectKeys(m.b) \cup {None}
    BY DEF Named, NewNames
<1>3. \A k, l \in SubjectKeys(m.b) : Named(m)[k] = Named(m)[l] => k = l
    BY <1>2 DEF KeepsApart, IsInjective
<1>4. (\E c \in m.b : c.proposition.kind = "SCORE") => \A k \in SubjectKeys(m.b) : Named(m)[k] = "tie" <=> k = "tie"
    BY <1>2 DEF KeepsApart
<1> QED BY <1>1, <1>2, <1>3, <1>4 DEF KeepsKeys, IsInjective, TieKept

\* A subject none of whose keys stands for another is derived as it is, its measures spelled one way.
LEMMA ReadAsTheyAre ==
    ASSUME NEW B, Shaped(B), \A k \in SubjectKeys(B) : Resolve(B, k) = k
    PROVE  Ready(B) = {d \in {One(c) : c \in B} : Usable(d.proposition)}
<1>1. /\ CanonicalReadings(B) = {Replaced(c, Short(B)) : c \in B}
      /\ \A k : Spelled(Short(B), k) = Resolve(B, k)
      /\ Resolve(B, None) = None
    BY ReadingsAre
<1>2. ASSUME NEW c \in B PROVE Replaced(c, Short(B)) = One(c)
    <2>1. Plain(OneSpelling(c.proposition)) /\ Keys(OneSpelling(c.proposition)) \subseteq Keys(c.proposition)
        BY OneSpellingIs DEF Shaped
    <2>2. Keys(OneSpelling(c.proposition)) \subseteq SubjectKeys(B)
        BY <2>1 DEF SubjectKeys
    <2>3. \A k \in Keys(OneSpelling(c.proposition)) \cup {None} : Spelled(Short(B), k) = k
        BY <1>1, <2>2
    <2>4. Renamed(OneSpelling(c.proposition), Short(B)) = OneSpelling(c.proposition)
        BY <2>1, <2>3, RenamedSelf
    <2> QED BY <2>4 DEF Replaced, One
<1>3. CanonicalReadings(B) = {One(c) : c \in B}
    BY <1>1, <1>2
<1> QED BY <1>3 DEF Ready

\* The rows of b's contracts are the merged subject's, when none of them is left out only there.
LEMMA RowsOfRenamed ==
    ASSUME NEW m \in Mergers, KeepsApart(Named(m), m.b), KeepsMeasures(m), SameAliases(Aligned(m), MergedInto(m)),
           NEW C, C = {d \in {One(c) : c \in m.b} : Usable(d.proposition)}, NEW O, NEW P,
           \A c \in m.b : One(c) \in C \ O => Renames(m, c) \notin P
    PROVE  DerivePairs(C, O) \subseteq DerivePairs(Ready(MergedInto(m)), P)
<1> DEFINE f == NewNames(m)
           heads == NewHeads(m)
           D == Ready(MergedInto(m))
           R == Rivals(C)
           S == Rivals(D)
<1>1. KeepsKeys(f) /\ ((\E c \in m.b : c.proposition.kind = "SCORE") => TieKept(f)) /\ HeadsKept(heads)
    BY NewNamesKeep, NewHeadsAre
<1>2. ASSUME NEW d \in C
      PROVE  /\ Usable(d.proposition) /\ (d.proposition.kind = "SCORE" => TieKept(f))
             /\ \E x \in D : /\ SoldAs(d, x) /\ SpelledBy(f, heads, d.proposition, x.proposition)
                             /\ d \notin O => x \notin P
    <2>1. PICK c \in m.b : d = One(c)
        OBVIOUS
    <2>2. /\ Renames(m, c) \in CanonicalReadings(MergedInto(m)) /\ SoldAs(c, Renames(m, c)) /\ SoldAs(c, One(c))
          /\ SpelledBy(f, heads, One(c).proposition, Renames(m, c).proposition)
        BY <1>1, ReadByNewNames
    <2>3. Usable(d.proposition)
        OBVIOUS
    <2>4. Usable(Renames(m, c).proposition)
        BY <1>1, <2>1, <2>2, <2>3, UsableKept
    <2>5. d.proposition.kind = c.proposition.kind
        <3>1. Record(c) /\ Plain(c.proposition)
            BY MergersShaped DEF Shaped
        <3>2. "kind" \in Fields \ {"measure"}
            BY DEF Fields
        <3>3. OneSpelling(c.proposition)["kind"] = c.proposition["kind"]
            BY <3>1, <3>2, OneSpellingIs
        <3> QED BY <2>1, <3>1, <3>3, ReadOtherwiseIs DEF One
    <2>6. SoldAs(d, Renames(m, c))
        BY <2>1, <2>2 DEF SoldAs
    <2>7. Renames(m, c) \in D
        BY <2>2, <2>4 DEF Ready
    <2>8. d \notin O => Renames(m, c) \notin P
        BY <2>1
    <2> QED BY <1>1, <2>1, <2>2, <2>3, <2>5, <2>6, <2>7, <2>8
<1> HIDE DEF f, heads, D
<1>3. RivalsKept(f, R, S)
    <2> SUFFICES ASSUME NEW k \in DOMAIN f, NEW l \in DOMAIN f, {k, l} \in R
                 PROVE  {f[k], f[l]} \in S
        BY DEF RivalsKept
    <2>1. PICK c \in C, d \in C :
            /\ c.proposition.kind = "WINNER" /\ d.proposition.kind = "WINNER"
            /\ c.event = d.event /\ c.event # None /\ c.proposition.entity # d.proposition.entity
            /\ {k, l} = {c.proposition.entity, d.proposition.entity}
        BY DEF Rivals
    <2>7. PICK x \in D : SoldAs(c, x) /\ SpelledBy(f, heads, c.proposition, x.proposition)
        BY <1>2
    <2>2. PICK y \in D : SoldAs(d, y) /\ SpelledBy(f, heads, d.proposition, y.proposition)
        BY <1>2
    <2>3. /\ x.proposition.kind = "WINNER" /\ y.proposition.kind = "WINNER" /\ x.event = y.event /\ x.event # None
          /\ x.proposition.entity = f[c.proposition.entity] /\ y.proposition.entity = f[d.proposition.entity]
          /\ c.proposition.entity \in DOMAIN f /\ d.proposition.entity \in DOMAIN f
        BY <2>1, <2>2, <2>7 DEF SoldAs, SpelledBy, ReadAs
    <2>4. x.proposition.entity # y.proposition.entity
        BY <1>1, <2>1, <2>3 DEF KeepsKeys, IsInjective
    <2>5. {x.proposition.entity, y.proposition.entity} \in S
        <3> DEFINE pairs == {q \in D \X D : /\ q[1].proposition.kind = "WINNER" /\ q[2].proposition.kind = "WINNER"
                                           /\ q[1].event = q[2].event /\ q[1].event # None
                                           /\ q[1].proposition.entity # q[2].proposition.entity}
        <3>1. <<x, y>> \in pairs
            BY <2>3, <2>4
        <3>2. S = {{p[1].proposition.entity, p[2].proposition.entity} : p \in pairs}
            BY DEF Rivals
        <3>3. <<x, y>>[1] = x /\ <<x, y>>[2] = y
            OBVIOUS
        <3> HIDE DEF pairs
        <3>4. \E p \in pairs : {x.proposition.entity, y.proposition.entity} = {p[1].proposition.entity, p[2].proposition.entity}
            BY <3>1, <3>3
        <3> QED BY <3>2, <3>4, Zenon
    <2>6. {f[k], f[l]} = {x.proposition.entity, y.proposition.entity}
        BY <2>1, <2>3
    <2> QED BY <2>5, <2>6
<1> HIDE DEF R, S
<1> SUFFICES ASSUME NEW row \in DerivePairs(C, O) PROVE row \in DerivePairs(D, P)
    BY DEF D
<1>4. PICK a \in C \ O, b \in C \ O :
        a.id < b.id /\ Compared(a.proposition, b.proposition) /\ row = RelatePair(a, b, R) /\ row # None
    BY DEF DerivePairs, R
<1>13. PICK x \in D \ P : SoldAs(a, x) /\ SpelledBy(f, heads, a.proposition, x.proposition)
    BY <1>2, <1>4
<1>14. PICK y \in D \ P : SoldAs(b, y) /\ SpelledBy(f, heads, b.proposition, y.proposition)
    BY <1>2, <1>4
<1>5. Usable(a.proposition) /\ Usable(b.proposition)
    BY <1>2, <1>4
<1>6. Compared(x.proposition, y.proposition)
    BY <1>1, <1>4, <1>5, <1>13, <1>14, ComparedKept
<1>7. x.id < y.id
    BY <1>4, <1>13, <1>14 DEF SoldAs
<1>8. "SCORE" \in {a.proposition.kind, b.proposition.kind} => TieKept(f)
    BY <1>2, <1>4
<1>9. RelatePair(x, y, S) = row
    BY <1>1, <1>3, <1>4, <1>5, <1>8, <1>13, <1>14, RowKept
<1> DEFINE pairs == {q \in (D \ P) \X (D \ P) : q[1].id < q[2].id /\ Compared(q[1].proposition, q[2].proposition)}
<1>10. <<x, y>> \in pairs
    BY <1>6, <1>7
<1>11. row = RelatePair(<<x, y>>[1], <<x, y>>[2], S)
    BY <1>9
<1>12. DerivePairs(D, P) = {RelatePair(q[1], q[2], S) : q \in pairs} \ {None}
    BY DEF DerivePairs, S
<1> HIDE DEF pairs
<1> QED BY <1>4, <1>10, <1>11, <1>12, Zenon

\* What a check that finds nothing left out of the merged subject was left out of one of the two.
LEMMA LeftOutBefore ==
    ASSUME NEW m \in Mergers, CheckMerge(m.a, m.b, m.keys, m.measures).collided = {}, NEW c \in Preview(MergedInto(m)).out
    PROVE  \E d \in Preview(m.a).out \cup Preview(m.b).out : d.id = c.id
<1> DEFINE out == Preview(MergedInto(m)).out
           before == {d.id : d \in Preview(m.a).out \cup Preview(m.b).out}
<1>1. CheckMerge(m.a, m.b, m.keys, m.measures).collided = {e \in out : \E d \in out : d.event = e.event /\ d.id \notin before}
    BY DEF CheckMerge, Gained, MergedInto, Aligned
<1>2. c \in out
    OBVIOUS
<1> HIDE DEF out
<1>3. c.id \in before
    BY <1>1, <1>2
<1> QED BY <1>3

\* A contract that is ready is one of the subject's, with its id.
LEMMA ReadyIs ==
    ASSUME NEW C, Shaped(C), NEW d \in Ready(C)
    PROVE  \E c \in C : d = Replaced(c, Short(C)) /\ d.id = c.id
<1>1. PICK c \in C : d = Replaced(c, Short(C))
    BY ReadingsAre DEF Ready
<1>2. d.id = c.id
    BY <1>1, ReadOtherwiseIs DEF Shaped, SoldAs, Replaced
<1> QED BY <1>1, <1>2

\* Both subjects' rows are among the merged subject's.
LEMMA MergeKeeps ==
    ASSUME NEW m \in Mergers, CheckMerge(m.a, m.b, m.keys, m.measures).collided = {},
           KeepsApart(Named(m), m.b), KeepsMeasures(m), SameAliases(m.a, MergedInto(m)),
           SameAliases(Aligned(m), MergedInto(m)), \A k \in SubjectKeys(m.b) : Resolve(m.b, k) = k
    PROVE  Preview(m.a).rows \cup Preview(m.b).rows \subseteq Preview(MergedInto(m)).rows
<1> DEFINE A == m.a
           B == m.b
           M == MergedInto(m)
<1>1. Shaped(A) /\ Shaped(B) /\ Shaped(M) /\ A \subseteq M
    BY MergersShaped DEF MergedInto
<1>2. /\ Preview(A).rows = DerivePairs(Ready(A), Preview(A).out) /\ Preview(A).out \subseteq Ready(A)
      /\ Preview(B).rows = DerivePairs(Ready(B), Preview(B).out) /\ Preview(B).out \subseteq Ready(B)
      /\ Preview(M).rows = DerivePairs(Ready(M), Preview(M).out) /\ Preview(M).out \subseteq Ready(M)
    BY <1>1, PreviewIs
<1>3. A \cap B = {} /\ \A c, d \in A \cup B : c.id = d.id => c = d
    BY MergersAssumption
<1>4. Ready(A) \subseteq Ready(M)
    BY <1>1, SameReadings
<1>5. Ready(B) = {d \in {One(c) : c \in B} : Usable(d.proposition)}
    BY <1>1, ReadAsTheyAre
<1>6. \A c \in Preview(M).out : \E d \in Preview(A).out \cup Preview(B).out : d.id = c.id
    BY LeftOutBefore
<1>11. \A d \in Ready(B) : \E c \in B : d = One(c) /\ d.id = c.id
    <2> SUFFICES ASSUME NEW d \in Ready(B) PROVE \E c \in B : d = One(c) /\ d.id = c.id
        OBVIOUS
    <2>1. PICK c \in B : d = One(c)
        BY <1>5
    <2>2. d.id = c.id
        BY <1>1, <2>1, ReadOtherwiseIs DEF Shaped, SoldAs, One
    <2> QED BY <2>1, <2>2
<1> HIDE DEF A, B, M
<1>7. ASSUME NEW c \in Ready(A) \ Preview(A).out PROVE c \notin Preview(M).out
    <2> SUFFICES ASSUME c \in Preview(M).out PROVE FALSE
        OBVIOUS
    <2>1. PICK d \in Preview(A).out \cup Preview(B).out : d.id = c.id
        BY <1>6
    <2>2. PICK e \in A : c = Replaced(e, Short(A)) /\ c.id = e.id
        BY <1>1, ReadyIs
    <2>3. CASE d \in Preview(A).out
        <3>1. PICK g \in A : d = Replaced(g, Short(A)) /\ d.id = g.id
            BY <1>1, <1>2, <2>3, ReadyIs
        <3>2. g = e
            BY <1>3, <2>1, <2>2, <3>1
        <3> QED BY <2>2, <2>3, <3>1, <3>2
    <2>4. CASE d \in Preview(B).out
        <3>1. PICK g \in B : d.id = g.id
            BY <1>2, <1>11, <2>4
        <3> QED BY <1>3, <2>1, <2>2, <3>1
    <2> QED BY <2>1, <2>3, <2>4
<1>8. ASSUME NEW c \in B, One(c) \in Ready(B) \ Preview(B).out PROVE Renames(m, c) \notin Preview(M).out
    <2> SUFFICES ASSUME Renames(m, c) \in Preview(M).out PROVE FALSE
        OBVIOUS
    <2>2. Renames(m, c).id = c.id
        <3>1. KeepsKeys(NewNames(m))
            BY NewNamesKeep
        <3>2. SoldAs(c, Renames(m, c))
            BY <3>1, ReadByNewNames DEF B
        <3> QED BY <3>2 DEF SoldAs
    <2>3. PICK d \in Preview(A).out \cup Preview(B).out : d.id = c.id
        BY <1>6, <2>2
    <2>4. CASE d \in Preview(A).out
        <3>1. PICK g \in A : d = Replaced(g, Short(A)) /\ d.id = g.id
            BY <1>1, <1>2, <2>4, ReadyIs
        <3> QED BY <1>3, <2>3, <3>1
    <2>5. CASE d \in Preview(B).out
        <3>1. PICK g \in B : d = One(g) /\ d.id = g.id
            BY <1>2, <1>11, <2>5
        <3>2. g = c
            BY <1>3, <2>3, <3>1
        <3> QED BY <1>8, <2>5, <3>1, <3>2
    <2> QED BY <2>3, <2>4, <2>5
<1>9. DerivePairs(Ready(A), Preview(A).out) \subseteq DerivePairs(Ready(M), Preview(M).out)
    BY <1>4, <1>7, RowsOfPart
<1>10. DerivePairs(Ready(B), Preview(B).out) \subseteq DerivePairs(Ready(M), Preview(M).out)
    <2>1. \A c \in m.b : One(c) \in Ready(B) \ Preview(B).out => Renames(m, c) \notin Preview(M).out
        BY <1>8 DEF B
    <2>2. Ready(B) = {d \in {One(c) : c \in m.b} : Usable(d.proposition)}
        BY <1>5 DEF B
    <2> QED BY <2>1, <2>2, RowsOfRenamed DEF M
<1> QED BY <1>2, <1>9, <1>10 DEF A, B, M

\* The answer to a merge is its check.
MergesAnswered ==
    question.asks = "merge" =>
        answer = Unanswered
        \/ (question.merge \in Mergers
            /\ answer = CheckMerge(question.merge.a, question.merge.b, question.merge.keys, question.merge.measures))

\* Every answer to a merge is its check.
LEMMA MergesKept == Asking => []MergesAnswered
<1>1. Unasked => MergesAnswered
    BY DEF Unasked, MergesAnswered
<1>2. MergesAnswered /\ [Ask]_<<question, answer>> => MergesAnswered'
    <2> SUFFICES ASSUME MergesAnswered, [Ask]_<<question, answer>> PROVE MergesAnswered'
        OBVIOUS
    <2>1. CASE AskPair
        BY <2>1 DEF AskPair, MergesAnswered
    <2>2. CASE AskListing
        BY <2>2 DEF AskListing, MergesAnswered
    <2>3. CASE AskMerge
        <3>1. PICK m \in Mergers : question' = [asks |-> "merge", merge |-> m] /\ answer' = CheckMerge(m.a, m.b, m.keys, m.measures)
            BY <2>3 DEF AskMerge
        <3> QED BY <3>1 DEF MergesAnswered
    <2>4. CASE AskFees
        BY <2>4 DEF AskFees, MergesAnswered
    <2>5. CASE AskRates
        <3>1. PICK rates \in RateHistories : question' = [asks |-> "rates", rates |-> rates]
            BY <2>5, Zenon DEF AskRates
        <3> QED BY <3>1 DEF MergesAnswered
    <2>6. CASE AskCategories
        BY <2>6 DEF AskCategories, MergesAnswered
    <2>7. CASE UNCHANGED <<question, answer>>
        BY <2>7 DEF MergesAnswered
    <2> QED BY <2>1, <2>2, <2>3, <2>4, <2>5, <2>6, <2>7 DEF Ask
<1> QED BY <1>1, <1>2, PTL DEF Asking

\* MergeKeepsRows: a merge its check finds nothing against costs neither subject a relationship it had.
THEOREM MergesExact == Asking => []MergeKeepsRows
<1>1. MergesAnswered => MergeKeepsRows
    <2> SUFFICES ASSUME MergesAnswered, Answered("merge"), answer.collided = {},
                        LET m == question.merge
                            merged == m.a \cup Aligned(m)
                        IN  /\ KeepsApart(Named(m), m.b) /\ KeepsMeasures(m)
                            /\ SameAliases(m.a, merged) /\ SameAliases(Aligned(m), merged)
                            /\ \A k \in SubjectKeys(m.b) : Resolve(m.b, k) = k
                 PROVE  LET m == question.merge
                            merged == m.a \cup Aligned(m)
                        IN  Preview(m.a).rows \cup Preview(m.b).rows \subseteq Preview(merged).rows
        BY DEF MergeKeepsRows
    <2>1. question.merge \in Mergers /\ answer = CheckMerge(question.merge.a, question.merge.b, question.merge.keys, question.merge.measures)
        BY DEF Answered, MergesAnswered
    <2> QED BY <2>1, MergeKeeps DEF MergedInto
<1> QED BY <1>1, MergesKept, PTL
=============================================================================
