--------------------------- MODULE OneShotLaunch ---------------------------
(***************************************************************************)
(* What the launch protocol of Pass B promises, without threads, leases,   *)
(* sessions or tables: a job is given to one token at a time, a token is   *)
(* executed at most once, a token is dropped only if it was not executed,  *)
(* and doubt about an execution keeps the job.                             *)
(***************************************************************************)
CONSTANTS
    Jobs,      \* things to be executed (assignments)
    Tokens,    \* permissions to execute a job once (attempts)
    Nobody     \* the job of a token that is still free

VARIABLES
    phase,     \* the phase of each token
    job,       \* the job each token is for
    executed   \* tokens whose execution was started outside

vars == <<phase, job, executed>>

Phase == {"free", "held", "kept", "undone", "dropped", "unknown"}

\* The phases of a token that keep its job from every other token.
Blocking == {"held", "kept", "unknown"}

TypeOK ==
    /\ phase \in [Tokens -> Phase]
    /\ job \in [Tokens -> Jobs \cup {Nobody}]
    /\ executed \subseteq Tokens

Init ==
    /\ phase = [t \in Tokens |-> "free"]
    /\ job = [t \in Tokens |-> Nobody]
    /\ executed = {}

\* A free token takes a job no other token blocks.
Hold(t, j) ==
    /\ phase[t] = "free" /\ t \notin executed
    /\ \A u \in Tokens : job[u] = j => phase[u] \notin Blocking
    /\ phase' = [phase EXCEPT ![t] = "held"]
    /\ job' = [job EXCEPT ![t] = j]
    /\ UNCHANGED executed

\* The execution starts, perhaps after its outcome has been given up on.
Execute(t) ==
    /\ phase[t] \in {"held", "unknown"}
    /\ t \notin executed
    /\ executed' = executed \cup {t}
    /\ UNCHANGED <<phase, job>>

\* The execution is accepted as complete.
Keep(t) ==
    /\ phase[t] = "held" /\ t \in executed
    /\ phase' = [phase EXCEPT ![t] = "kept"]
    /\ UNCHANGED <<job, executed>>

\* The execution is cancelled, at once or after doubt.
Undo(t) ==
    /\ phase[t] \in {"held", "unknown"} /\ t \in executed
    /\ phase' = [phase EXCEPT ![t] = "undone"]
    /\ UNCHANGED <<job, executed>>

\* Held tokens that were not executed are dropped, others are doubted.
Settle(D, U) ==
    /\ \A t \in D \cup U : phase[t] = "held"
    /\ D \cap (U \cup executed) = {}
    /\ phase' = [t \in Tokens |-> IF t \in D THEN "dropped"
                                  ELSE IF t \in U THEN "unknown"
                                  ELSE phase[t]]
    /\ UNCHANGED <<job, executed>>

Next ==
    \/ \E t \in Tokens : \/ \E j \in Jobs : Hold(t, j)
                         \/ Execute(t) \/ Keep(t) \/ Undo(t)
    \/ \E D, U \in SUBSET Tokens : Settle(D, U)

Spec == Init /\ [][Next]_vars

-----------------------------------------------------------------------------

\* A job's tokens never block it twice, so of all its executions at most one is
\* neither cancelled nor still to come.
OneBlockingToken ==
    \A t, u \in Tokens :
        phase[t] \in Blocking /\ phase[u] \in Blocking /\ job[t] = job[u]
            => t = u

\* A dropped token was not executed, and never will be.
DroppedIsUnused == \A t \in executed : phase[t] \notin {"free", "dropped"}
=============================================================================
