-------------------------- MODULE MCSubjectMerges --------------------------
(* SubjectMerges on three subjects: 1 and 2, the busiest pair, are never    *)
(* answered for; 1 and 3 are found by their keys too, 2 and 3 only as       *)
(* embedding neighbours.                                                    *)
EXTENDS SubjectMerges, TLC

MCVolumes == 1 :> 3 @@ 2 :> 2 @@ 3 :> 2
MCAnswers == {1, 2} :> {None} @@ {1, 3} :> {"SAME", "RELATED"} @@ {2, 3} :> {"SAME"}
MCChecks == {1, 2} :> {"SOUND"} @@ {1, 3} :> {"PRICE", "SOUND"} @@ {2, 3} :> {"PRICE", "NO_GAIN", "SOUND"}
=============================================================================
