-------------------------- MODULE MCPassBCoordinator --------------------------
(* Small instances of PassBCoordinator for TLC.                             *)
EXTENDS PassBCoordinator, TLC

CONSTANTS s1, s2, a1, a2, a3, a4, a5, x1, y1, p1, p2

InOrder == s1 :> {} @@ s2 :> {s1}
OneSessionEach == x1 :> p1 @@ y1 :> p2
=============================================================================
