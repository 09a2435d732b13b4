----------------------------- MODULE MCDatabase -----------------------------
(* Database with two keys that hash to the same file because their sizes   *)
(* differ by a multiple of NUMBER_OF_FILES, and two values.                *)
EXTENDS Database, TLC

CONSTANTS k1, k2, empty, byte

MCKey == {k1, k2}
MCValue == {empty, byte}
MCKeySize == [k \in Key |-> IF k = k1 THEN 1 ELSE 6]
MCDataSize == [v \in Value |-> IF v = empty THEN 0 ELSE 1]
MCCuts == {0, 3, 4}
=============================================================================
