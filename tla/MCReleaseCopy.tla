--------------------------- MODULE MCReleaseCopy ---------------------------
(* Finite instances of ReleaseCopy for TLC.                                *)
EXTENDS ReleaseCopy, TLC

ShaSymmetry == Permutations(Shas)
=============================================================================
