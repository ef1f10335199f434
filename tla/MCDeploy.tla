------------------------------ MODULE MCDeploy ------------------------------
(* Finite instances of Deploy for TLC.                                     *)
EXTENDS Deploy, TLC

CONSTANT Migrating   \* the releases that ship a migration

Heads == [s \in Shas |-> IF s \in Migrating THEN 1 ELSE 0]

Symmetry == Permutations(Operators) \cup Permutations(Shas \ Migrating)
=============================================================================
