---------------------------- MODULE MCPassBUsage ----------------------------
(* Small instances of PassBUsage for TLC.                                   *)
EXTENDS PassBUsage, TLC, Folds

CONSTANTS a1, a2, c1, c2

\* SQLite's SUM over the rows of a set of assignments.
SumOfAmounts(S) == MapThenFoldSet(+, 0, LAMBDA a : Amount[a],
                                  LAMBDA T : CHOOSE a \in T : TRUE, S)

\* Together the two need the whole pool.
TwoAmounts == a1 :> 1 @@ a2 :> 2
CallerSymmetry == Permutations(Callers)
=============================================================================
