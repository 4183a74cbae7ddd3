--------------------------- MODULE MCCodeLibCache ---------------------------
(* Instances of CodeLibCache for TLC.                                      *)
EXTENDS CodeLibCache

CONSTANTS s1, s2

MCSignatures == {s1, s2}

(* Distinct values, so that an answer tells which key it belongs to.       *)
MCValue == [k \in Keys |-> CASE k = Offset -> 8
                             [] k = s1 -> 1
                             [] OTHER -> 2]
=============================================================================
