---------------------------- MODULE MCLifecycle ----------------------------
(* Lifecycle on an event with two markets, each with its security; on one  *)
(* with a third market, where two listings share a security from before    *)
(* identity was one per listing; and on a single market.                   *)
EXTENDS Lifecycle, TLC

CONSTANTS m1, m2, m3, s1, s2, e1

MCSecurityOf == m1 :> s1 @@ m2 :> s2
MCEventOf    == s1 :> e1 @@ s2 :> e1

MCSharedSecurityOf == m1 :> s1 @@ m2 :> s1 @@ m3 :> s2

MCOneSecurityOf == m1 :> s1
MCOneEventOf    == s1 :> e1

\* The two markets of the event, each with its own security, are alike.
Symmetry == {m1 :> m2 @@ m2 :> m1 @@ s1 :> s2 @@ s2 :> s1}
=============================================================================
