------------------------------ MODULE MCReading ------------------------------
(* Three securities: a binary's two sides, which only the model reads until a release of the readers *)
(* does, and one market that code always reads, each release in its own way.                         *)
EXTENDS Reading

MCFirsts == {1, 3}
MCFirstOf == [s \in {2} |-> 1]

LiveReads ==
    [k \in (1..MaxReaders) \X MCFirsts \X (1..2) |->
        CASE k[1] = 2 -> "as v2" [] k[2] = 1 -> None [] OTHER -> "as v1"]

MCCorrected == [r \in 1..MaxReaders |-> IF r = 1 THEN "model" ELSE "corrected"]
OneSource == [f \in MCFirsts |-> 1]
MCBackoff == <<1>>
=============================================================================
