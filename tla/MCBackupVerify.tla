--------------------------- MODULE MCBackupVerify ---------------------------
(* Finite instances of BackupVerify for TLC.                               *)
EXTENDS BackupVerify, TLC

ProcSymmetry == Permutations(Procs)
=============================================================================
