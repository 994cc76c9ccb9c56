------------------------------ MODULE MCVenues ------------------------------
(* Venues with two markets of one event, open from the start; Polymarket    *)
(* US, which pages by offset, has a second event too, and lists one later.  *)
EXTENDS Venues, TLC
MCEventOf == (1 :> 1) @@ (2 :> 1) @@ (3 :> 2)
MCHas == [v \in Venues |-> IF v = "POLYMARKET_US" THEN {1, 2, 3} ELSE {1, 2}]
MCListed == [v \in Venues |-> IF v = "POLYMARKET_US" THEN {1, 3} ELSE {1, 2}]
\* Shut, open, shut and final again, for an event's markets on Kalshi.
MCMaxChanges == [c \in Venues \X BOOLEAN |-> CASE c = <<"KALSHI", TRUE>> -> 4 [] c[1] = "HYPERLIQUID" -> 3 [] OTHER -> 2]
=============================================================================
