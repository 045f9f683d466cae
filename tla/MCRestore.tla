------------------------------ MODULE MCRestore ------------------------------
(* Small instance of Restore for TLC.                                       *)
EXTENDS Restore, TLC

CONSTANTS a1, a2, o1, o2

Symmetry == Permutations(Attempts) \cup Permutations(Operations)
=============================================================================
