---------------------------- MODULE MCDerivation ----------------------------
(* Derivation on a ladder of three contracts on one subject, and a second  *)
(* subject that contracts are read onto and that is merged with the first. *)
EXTENDS Derivation, TLC

CONSTANTS s1, s2, s3, u1, u2

Place(s, u, k) == [subject |-> s, unit |-> u, rank |-> k]

MCPlaced == 1 :> Place(s1, u1, 1) @@ 2 :> Place(s1, u1, 2) @@ 3 :> Place(s1, u1, 3)
MCPlaces == {Place(s1, u1, k) : k \in 1..3} \cup {Place(s1, u2, 1), Place(s1, NoUnit, 0), Place(s2, u1, 2)}
MCPlacesFailing == MCPlaces \cup {Place(s3, u1, 2)}
=============================================================================
