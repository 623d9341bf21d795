---------------------------- MODULE MCJobHandle -----------------------------
(* Small instances of JobHandle for TLC.                                   *)
EXTENDS JobHandle, TLC

Symmetry == Permutations(Clients)
=============================================================================
