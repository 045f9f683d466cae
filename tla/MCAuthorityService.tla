------------------------ MODULE MCAuthorityService ------------------------
(* Small instances of AuthorityService.                                     *)
EXTENDS AuthorityService, TLC

CONSTANTS r1, r2, a1, a2, t1, t2, w1

OneRegistration == a1 :> r1
SharedRegistration == a1 :> r1 @@ a2 :> r1
OneWorkspace == a1 :> w1
SharedWorkspace == a1 :> w1 @@ a2 :> w1

\* Bound of the run on launches: no fence, the host keeps taking work, no attempt is paused,
\* qualification is over before the first reservation, and an authorization is
\* replaced only while nothing is reserved under it.
Calm ==
    /\ fence = "NONE" /\ lapsed = {}
    /\ host \notin {"LOCKED", "STALE", "DRAINING", "STOPPED"}
    /\ \A a \in Attempts : attempt[a] # "PAUSED"
    /\ \A r \in Registrations :
          /\ registration[r] \notin {"REVOKED", "QUALIFICATION_FAILED"}
          /\ qualification[r] # "QUALIFICATION_FAILED"
          /\ qualifier[r] # "none" => \A a \in Attempts : attempt[a] = "ABSENT"
    /\ \A g \in Generations : g > 1 /\ authorization[g] # "NONE" =>
          \A a \in Attempts : generation[a] \in {0, g}

Symmetry == Permutations(Attempts) \cup Permutations(Threads)
=============================================================================
