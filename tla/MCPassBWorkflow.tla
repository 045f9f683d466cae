--------------------------- MODULE MCPassBWorkflow ---------------------------
(* Small instances of PassBWorkflow for TLC.                                *)
EXTENDS PassBWorkflow, TLC

CONSTANTS s1, s2, a1, a2, a3, a4, a5, a6, x1, x2, y1, p1, p2

OneStep == s1 :> {}
InOrder == s1 :> {} @@ s2 :> {s1}

\* Two sessions of one provider and one of another.
TwoProviders == x1 :> p1 @@ x2 :> p1 @@ y1 :> p2
OneSessionEach == x1 :> p1 @@ y1 :> p2

Symmetry == Permutations(Assignments)
=============================================================================
