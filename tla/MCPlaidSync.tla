---------------------------- MODULE MCPlaidSync ----------------------------
(* Finite instances of PlaidSync for TLC.                                  *)
EXTENDS PlaidSync, TLC

Symmetry == Permutations(Invokers) \cup Permutations(Txns)
=============================================================================
