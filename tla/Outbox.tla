------------------------------- MODULE Outbox -------------------------------
(***************************************************************************)
(* What the fetch cycle promises of the saved hashes, whatever it takes to *)
(* keep them: a contract's saved version is one that was put on the        *)
(* contracts queue before it was saved, and a contract is only forgotten   *)
(* when there is an excuse for it.                                         *)
(***************************************************************************)
CONSTANTS Contract, Version, None

VARIABLES
    saved,     \* [Contract -> Version \cup {None}]: the saved hashes
    delivered, \* <<contract, version>> pairs put on the queue
    excused    \* contracts a save may forget: those it reports as gone, or never had

vars == <<saved, delivered, excused>>

Init ==
    /\ saved = [c \in Contract |-> None]
    /\ delivered = {}
    /\ excused \subseteq Contract

\* Messages go out, or contracts come and go.
Deliver ==
    /\ delivered \subseteq delivered'
    /\ delivered' \subseteq Contract \X Version
    /\ excused' \subseteq Contract
    /\ UNCHANGED saved

Save ==
    /\ saved' \in [Contract -> Version \cup {None}]
    /\ \A c \in Contract :
          \/ saved'[c] = saved[c]
          \/ <<c, saved'[c]>> \in delivered
          \/ saved'[c] = None /\ c \in excused
    /\ UNCHANGED <<delivered, excused>>

Next == Deliver \/ Save

Spec == Init /\ [][Next]_vars
=============================================================================
