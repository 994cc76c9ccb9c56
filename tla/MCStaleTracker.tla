--------------------------- MODULE MCStaleTracker ---------------------------
(* StaleTracker on two exchanges, the first with three events, of which one *)
(* alone is a gap, the second with a single event.                          *)
EXTENDS StaleTracker, TLC

CONSTANTS e1, e2, e3, e4, x1, x2

MCExchangeOf == e1 :> x1 @@ e2 :> x1 @@ e3 :> x1 @@ e4 :> x2
=============================================================================
