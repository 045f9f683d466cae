------------------------ MODULE MCExecutiveRuntime ------------------------
(* Small instances of ExecutiveRuntime.                                     *)
EXTENDS ExecutiveRuntime, TLC

CONSTANTS w1, w2

Symmetry == Permutations(Workers)
=============================================================================
