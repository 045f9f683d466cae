--------------------------- MODULE MCPassBLaunch ---------------------------
(* Small instances of PassBLaunch for TLC.                                  *)
EXTENDS PassBLaunch, TLC

CONSTANTS a1, a2, s1, r1, r2, t1, t2, t3

\* Both assignments are bound to the one session.
OneSession == a1 :> s1 @@ a2 :> s1
TwoLimit == s1 :> 2
SingleAssignment == a1 :> s1

AttemptRunnerSymmetry == Permutations(Attempts) \cup Permutations(Runners)
=============================================================================
