------------------------------ MODULE Missing ------------------------------
(* What modules that are used together write for a field, a reading or a job that is not there. *)
CONSTANT None
=============================================================================
