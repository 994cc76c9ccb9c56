--------------------------- MODULE MergeDecisions ---------------------------
(***************************************************************************)
(* What the subject merger promises the people who review it: a pair is    *)
(* merged or queued by the merger only while it knows of no decision about *)
(* it.  The merger looks at the decisions from time to time; a decision    *)
(* made since its last look is the only one it may act against, and only   *)
(* until it looks again.                                                   *)
(***************************************************************************)
CONSTANT Pair

VARIABLES
    merging,  \* pairs the merger has merged, and no one has taken apart
    waiting,  \* pairs queued for a person
    decided,  \* pairs a person merged, dismissed or unmerged
    seen      \* the decisions the merger knows of

vars == <<merging, waiting, decided, seen>>

Init == merging = {} /\ waiting = {} /\ decided = {} /\ seen = {}

Look ==
    /\ seen' = decided
    /\ UNCHANGED <<merging, waiting, decided>>

Merge(p) ==
    /\ p \notin seen
    /\ merging' = merging \cup {p}
    /\ UNCHANGED <<waiting, decided, seen>>

Queue(P) ==
    /\ P \cap seen = {}
    /\ waiting' = waiting \cup P
    /\ UNCHANGED <<merging, decided, seen>>

Decide(p) ==
    /\ p \in waiting
    /\ waiting' = waiting \ {p}
    /\ decided' = decided \cup {p}
    /\ UNCHANGED <<merging, seen>>

\* Merged subjects taken apart: whichever of their pairs were merged, by the merger or a person.
Unmerge(P) ==
    /\ merging' = merging \ P
    /\ waiting' = waiting \ P
    /\ decided' = decided \cup P
    /\ UNCHANGED seen

Next ==
    \/ Look
    \/ \E p \in Pair : Merge(p) \/ Decide(p)
    \/ \E P \in SUBSET Pair : Queue(P) \/ Unmerge(P)

Spec == Init /\ [][Next]_vars
=============================================================================
