----------------------------- MODULE MCEntities -----------------------------
(* Two markets whose names can clash and one of which its adapter moves between two events. *)
EXTENDS Entities

MCMarkets == {1, 2}
MCNamesOf == [m \in MCMarkets |-> IF m = 1 THEN {"a", "b"} ELSE {"b"}]
MCEventsOf == [m \in MCMarkets |-> IF m = 1 THEN {"e1"} ELSE {"e1", "e2"}]
=============================================================================
