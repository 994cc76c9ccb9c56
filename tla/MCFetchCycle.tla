---------------------------- MODULE MCFetchCycle ----------------------------
(* FetchCycle on one exchange that lists a game as two events, one of two  *)
(* contracts and one of a core market of the game.                         *)
EXTENDS FetchCycle, TLC

CONSTANTS c1, c2, c3, e1, e2, x1, g1, v1, v2

MCEventOf    == c1 :> e1 @@ c2 :> e1 @@ c3 :> e2
MCExchangeOf == e1 :> x1 @@ e2 :> x1
MCGameOf     == e1 :> g1 @@ e2 :> g1
=============================================================================
