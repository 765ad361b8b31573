--------------------------- MODULE MCGlobalBackup ---------------------------
(* GlobalBackup for model checking: two variables, each with two values.    *)
EXTENDS GlobalBackup, TLC

CONSTANTS x, y

TwoGlobals  == {x, y}
TwoValues   == 0..1
Interchangeable == Permutations(TwoGlobals)
=============================================================================
