------------------------- MODULE MCPassBWorkspaces -------------------------
(* Small instances of PassBWorkspaces for TLC.                              *)
EXTENDS PassBWorkspaces, TLC

CONSTANTS a1, a2, v1, c1, c2, r1, r2, w1, w2

\* A producer at the root of a project, another one in a part of it, and a
\* reviewer of that part.
Root == <<"project">>
Part == <<"project", "part">>
Output == <<"project", "output">>
PartOutput == <<"project", "part", "output">>

ProjectPaths == {Root, Part, Output, PartOutput}
Directories == a1 :> Root @@ a2 :> Part @@ v1 :> Part
ScopeSets == a1 :> {Output, Part} @@ a2 :> {PartOutput} @@ v1 :> {}

Symmetry == Permutations(Reservations) \cup Permutations(Writes)
              \cup Permutations(Callers)
=============================================================================
