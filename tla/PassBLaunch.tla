---------------------------- MODULE PassBLaunch ----------------------------
(***************************************************************************)
(* The durable launch protocol of Pass B: how one assignment becomes at    *)
(* most one execution of a provider, across concurrent coordinators,       *)
(* crashes, restarts and cancellations.                                    *)
(*                                                                         *)
(* keeper/pass_b/repository.py holds the durable state in SQLite.  Every   *)
(* method is one BEGIN IMMEDIATE transaction that rolls back on an         *)
(* exception, so every method is one action here.  The threads that call   *)
(* the methods (keeper/pass_b/orchestration.py, completion.py) keep a      *)
(* program counter between two transactions; they may stop after any step. *)
(***************************************************************************)
EXTENDS Naturals, FiniteSets

CONSTANTS
    Assignments,      \* identities of assignment records (one per work item)
    Attempts,         \* identities attempts may take (uuid4 in the code)
    Runners,          \* threads driving a stage: coordinators, operators
    Sessions,         \* provider sessions
    SessionOf,        \* the session a prepared assignment is bound to
    Limit,            \* ProviderSessionRecord.concurrency_limit
    None              \* "no value"

ASSUME LaunchConstants ==
    /\ SessionOf \in [Assignments -> Sessions]
    /\ Limit \in [Sessions -> Nat \ {0}]
    /\ None \notin Assignments \cup Attempts
    /\ Runners \cap Assignments = {}

ASSUME LaunchFinite == IsFiniteSet(Attempts)

VARIABLES
    assignment,   \* AssignmentRecord.state of each assignment, or "ABSENT"
    attempt,      \* AttemptRecord: state, owner, authority phase, uncertainty
    claim,        \* pass_b_launch_claims.state of each attempt
    active,       \* ProviderSessionRecord.active_assignments
    workspace,    \* state of the assignment's latest workspace reservation
    leased,       \* assignments whose workspace lease has not expired
    usage,        \* state of the assignment's latest usage reservation
    asRead,       \* holders whose captured assignment revision is current
    wsRead,       \* holders whose captured workspace revision is current
    runner,       \* program counter and local variables of each runner
    canceller,    \* program counter of the thread cancelling an attempt
    external,     \* KeeperAuthority's and the provider's view of an attempt
    stopped       \* attempts on which adapter.cancel took effect

durable == <<assignment, attempt, claim, active, workspace, leased, usage>>
captured == <<asRead, wsRead>>
vars == <<durable, captured, runner, canceller, external, stopped>>

-----------------------------------------------------------------------------
(* States (keeper/pass_b/enums.py)                                          *)

AssignmentState ==
    {"ABSENT", "READY", "WAITING_FOR_USAGE_RESET", "LAUNCH_CLAIMED", "RUNNING",
     "CANCELLATION_CLAIMED", "REVIEW_REQUIRED", "CANCELED", "UNCERTAIN"}

AttemptState ==
    {"ABSENT", "RESERVED", "LAUNCH_CLAIMED", "RUNNING", "CANCELLATION_CLAIMED",
     "COMPLETED", "CANCELED", "FAILED", "UNCERTAIN"}

AuthorityPhase ==
    {"LOCAL_PREPARED", "RESERVATION_IN_FLIGHT", "AUTHORITY_RESERVED",
     "AUTHORIZED"}

UncertaintyKind ==
    {"NONE", "AUTHORITY_RESERVATION_OUTCOME_AMBIGUOUS",
     "CANCELLATION_OUTCOME_AMBIGUOUS", "EXTERNAL_EXECUTION_OUTCOME_AMBIGUOUS"}

ClaimState == AttemptState \ {"CANCELLATION_CLAIMED"}

\* Mutations of InFlight: recovery looks at too many or too few claims.
InFlightOrUncertain == {"RESERVED", "LAUNCH_CLAIMED", "RUNNING", "UNCERTAIN"}
InFlightUnlessRunning == {"RESERVED", "LAUNCH_CLAIMED"}

\* The launch-claim states recovery and the release guards look for.
InFlight == {"RESERVED", "LAUNCH_CLAIMED", "RUNNING"}
Held == InFlight \cup {"UNCERTAIN"}
\* The partial unique index pass_b_launch_claims_one_active_or_done.
Exclusive == Held \cup {"COMPLETED"}

NoAttempt == [state |-> "ABSENT", owner |-> None,
              phase |-> "LOCAL_PREPARED", kind |-> "NONE"]

ExternalState == {"NONE", "RESERVED", "AUTHORIZED", "EXECUTED"}

\* Program counters of run_assignment's try block, whose exceptions lead to
\* mark_authority_reservation_uncertain.
Guarded == {"own1", "reserve", "mark", "authorize", "bind"}

RunnerPC == Guarded \cup
    {"idle", "prepare", "resources", "rows", "usage", "ready", "flight",
     "ambiguous", "direct", "claim", "own2", "launch", "running", "complete"}

At(pc, job, att) == [pc |-> pc, job |-> job, att |-> att]
Idle == At("idle", None, None)

TypeOK ==
    /\ assignment \in [Assignments -> AssignmentState]
    /\ attempt \in [Attempts -> [state : AttemptState,
                                 owner : Assignments \cup {None},
                                 phase : AuthorityPhase,
                                 kind  : UncertaintyKind]]
    /\ claim \in [Attempts -> ClaimState]
    /\ active \in [Sessions -> Nat]
    /\ workspace \in [Assignments ->
                        {"NONE", "ACTIVE", "RELEASED", "STALE", "UNCERTAIN"}]
    /\ leased \subseteq Assignments
    /\ usage \in [Assignments -> {"NONE", "ACTIVE", "CONSUMED"}]
    /\ asRead \subseteq Runners \cup Assignments
    /\ wsRead \subseteq Runners \cup Assignments
    /\ runner \in [Runners -> [pc  : RunnerPC,
                               job : Assignments \cup {None},
                               att : Attempts \cup {None}]]
    /\ canceller \in [Attempts -> {"none", "call", "finish", "fail"}]
    /\ external \in [Attempts -> ExternalState]
    /\ stopped \subseteq Attempts

Init ==
    /\ assignment = [a \in Assignments |-> "ABSENT"]
    /\ attempt = [t \in Attempts |-> NoAttempt]
    /\ claim = [t \in Attempts |-> "ABSENT"]
    /\ active = [s \in Sessions |-> 0]
    /\ workspace = [a \in Assignments |-> "NONE"]
    /\ leased = {}
    /\ usage = [a \in Assignments |-> "NONE"]
    /\ asRead = {}
    /\ wsRead = {}
    /\ runner = [r \in Runners |-> Idle]
    /\ canceller = [t \in Attempts |-> "none"]
    /\ external = [t \in Attempts |-> "NONE"]
    /\ stopped = {}

-----------------------------------------------------------------------------
(* Helpers                                                                  *)

Owner(t) == attempt[t].owner
Job(r) == runner[r].job
Att(r) == runner[r].att

\* The claims the database holds for assignment a in one of the given states.
Claims(a, states) == {t \in Attempts : Owner(t) = a /\ claim[t] \in states}

\* Revisions only grow, so "the revision captured earlier is still the durable
\* one" is a set of holders: a runner holds a snapshot, an assignment holds the
\* resume checkpoint of its latest pause.  Writing a record makes the captured
\* revisions of that record stale.
Holders(S) == S \cup {r \in Runners : Job(r) \in S}

WroteAssignments(S) == asRead' = asRead \ Holders(S)
WroteWorkspaces(S) == wsRead' = wsRead \ Holders(S)

Goto(r, pc) == runner' = [runner EXCEPT ![r] = At(pc, Job(r), Att(r))]
Finish(r) == runner' = [runner EXCEPT ![r] = Idle]

\* The record of attempt t in another state, in another phase, or in doubt.
Record(state, owner, phase, kind) ==
    [state |-> state, owner |-> owner, phase |-> phase, kind |-> kind]
InState(t, state) == Record(state, Owner(t), attempt[t].phase, attempt[t].kind)
InPhase(t, phase) == Record(attempt[t].state, Owner(t), phase, attempt[t].kind)
InDoubt(t, kind) == Record("UNCERTAIN", Owner(t), attempt[t].phase, kind)

Becomes(t, record) == attempt' = [attempt EXCEPT ![t] = record]

FreshAttempt(t) ==
    /\ attempt[t].state = "ABSENT"
    /\ external[t] = "NONE"
    /\ \A r \in Runners : Att(r) # t

-----------------------------------------------------------------------------
(* Preparing a stage (completion.py, orchestration.py)                      *)

\* CompletionCoordinator.advance chooses a work item nobody is assigned to,
\* unless some assignment of the workflow is uncertain or waiting.
PickStage(r, a) ==
    /\ runner[r].pc = "idle"
    /\ assignment[a] = "ABSENT"
    /\ \A b \in Assignments :
          assignment[b] \notin {"UNCERTAIN", "WAITING_FOR_USAGE_RESET"}
    /\ runner' = [runner EXCEPT ![r] = At("prepare", a, None)]
    /\ UNCHANGED <<durable, captured, canceller, external, stopped>>

\* An operator resumes the stage of an existing READY assignment.
PickReady(r, a) ==
    /\ runner[r].pc = "idle"
    /\ assignment[a] = "READY"
    /\ runner' = [runner EXCEPT ![r] = At("resources", a, None)]
    /\ asRead' = asRead \cup {r}
    /\ UNCHANGED <<durable, wsRead, canceller, external, stopped>>

\* prepare_assignment_from_profile: the winner of claim_prepared_assignment
\* inserts the assignment; a loser reads the winner's record, as it is now.
PrepareAssignment(r) ==
    /\ runner[r].pc = "prepare"
    /\ \/ /\ assignment[Job(r)] = "ABSENT"
          /\ active[SessionOf[Job(r)]] < Limit[SessionOf[Job(r)]]
          /\ assignment' = [assignment EXCEPT ![Job(r)] = "READY"]
       \/ /\ assignment[Job(r)] # "ABSENT"
          /\ UNCHANGED assignment
    /\ asRead' = asRead \cup {r}
    /\ Goto(r, "resources")
    /\ UNCHANGED <<attempt, claim, active, workspace, leased, usage, wsRead,
                   canceller, external, stopped>>

\* CompletionCoordinator._reserve: keep the active reservation or insert one.
ReserveWorkspace(r) ==
    /\ runner[r].pc = "resources"
    /\ \/ /\ workspace[Job(r)] = "ACTIVE"
          /\ wsRead' = wsRead \cup {r}
          /\ UNCHANGED <<workspace, leased>>
       \/ /\ workspace[Job(r)] \in {"NONE", "RELEASED", "STALE"}
          /\ workspace' = [workspace EXCEPT ![Job(r)] = "ACTIVE"]
          /\ leased' = leased \cup {Job(r)}
          /\ wsRead' = (wsRead \ Holders({Job(r)})) \cup {r}
    /\ Goto(r, "rows")
    /\ UNCHANGED <<assignment, attempt, claim, active, usage, asRead,
                   canceller, external, stopped>>

ForgetReads(r) == asRead' = asRead \ {r} /\ wsRead' = wsRead \ {r}

\* CompletionCoordinator._reserve_usage looks for an ACTIVE row first, in a
\* transaction of its own.
ReadUsageRows(r) ==
    /\ runner[r].pc = "rows"
    /\ \/ /\ usage[Job(r)] = "ACTIVE"
          /\ Goto(r, "ready")
          /\ ForgetReads(r)
       \/ /\ usage[Job(r)] # "ACTIVE"
          /\ Goto(r, "usage")
          /\ UNCHANGED captured
    /\ UNCHANGED <<durable, canceller, external, stopped>>

\* reserve_usage_or_pause, the pool covers the amount.  The unique index
\* refuses a second ACTIVE row of the assignment.
GrantUsage(r) ==
    /\ runner[r].pc = "usage"
    /\ usage[Job(r)] # "ACTIVE"
    /\ usage' = [usage EXCEPT ![Job(r)] = "ACTIVE"]
    /\ Goto(r, "ready")
    /\ ForgetReads(r)
    /\ UNCHANGED <<assignment, attempt, claim, active, workspace, leased,
                   canceller, external, stopped>>

\* reserve_usage_or_pause, the pool does not cover the amount.  The method
\* reads the assignment but does not look at its state.
PauseForUsage(r) ==
    /\ runner[r].pc = "usage"
    /\ assignment' = [assignment EXCEPT ![Job(r)] = "WAITING_FOR_USAGE_RESET"]
    /\ asRead' = (asRead \ Holders({Job(r)})) \cup
                    (IF r \in asRead THEN {Job(r)} ELSE {})
    /\ wsRead' = (wsRead \ {r, Job(r)}) \cup
                    (IF r \in wsRead THEN {Job(r)} ELSE {})
    /\ Finish(r)
    /\ UNCHANGED <<attempt, claim, active, workspace, leased, usage,
                   canceller, external, stopped>>

\* resume_after_usage_reset: the checkpoint must match both revisions.
ResumeAfterReset(a) ==
    /\ assignment[a] = "WAITING_FOR_USAGE_RESET"
    /\ a \in asRead /\ a \in wsRead
    /\ workspace[a] = "ACTIVE"
    /\ Claims(a, {"UNCERTAIN"}) = {}
    /\ assignment' = [assignment EXCEPT ![a] = "READY"]
    /\ WroteAssignments({a})
    /\ UNCHANGED <<attempt, claim, active, workspace, leased, usage, wsRead,
                   runner, canceller, external, stopped>>

-----------------------------------------------------------------------------
(* Launching (orchestration.run_assignment)                                 *)

\* Mutation of LaunchReady: no unique index over the launch claims.
LaunchReadyUnindexed(a) ==
    /\ assignment[a] = "READY"
    /\ active[SessionOf[a]] < Limit[SessionOf[a]]
    /\ workspace[a] = "ACTIVE" /\ a \in leased
    /\ usage[a] = "ACTIVE"

\* What reserve_attempt checks inside its transaction, and the unique index.
LaunchReady(a) ==
    /\ assignment[a] = "READY"
    /\ active[SessionOf[a]] < Limit[SessionOf[a]]
    /\ workspace[a] = "ACTIVE" /\ a \in leased
    /\ usage[a] = "ACTIVE"
    /\ Claims(a, Exclusive) = {}

InsertAttempt(t, a, phase) ==
    /\ Becomes(t, Record("RESERVED", a, phase, "NONE"))
    /\ claim' = [claim EXCEPT ![t] = "RESERVED"]
    /\ active' = [active EXCEPT ![SessionOf[a]] = @ + 1]

\* The prepared path.  Everything read before the call is compared with the
\* durable records inside reserve_attempt, so reading and reserving is one step.
ReservePrepared(r, t) ==
    /\ runner[r].pc = "ready"
    /\ FreshAttempt(t)
    /\ LaunchReady(Job(r))
    /\ InsertAttempt(t, Job(r), "LOCAL_PREPARED")
    /\ runner' = [runner EXCEPT ![r] = At("flight", Job(r), t)]
    /\ UNCHANGED <<assignment, workspace, leased, usage, captured, canceller,
                   external, stopped>>

\* mark_authority_reservation_in_flight, before the external call.
MarkInFlight(r) ==
    /\ runner[r].pc = "flight"
    /\ attempt[Att(r)].state = "RESERVED"
    /\ attempt[Att(r)].phase = "LOCAL_PREPARED"
    /\ assignment[Owner(Att(r))] = "READY"
    /\ Becomes(Att(r), InPhase(Att(r), "RESERVATION_IN_FLIGHT"))
    /\ Goto(r, "own1")
    /\ UNCHANGED <<assignment, claim, active, workspace, leased, usage,
                   captured, canceller, external, stopped>>

\* require_active_launch_ownership, for either expected claim state.
OwnsLaunch(t, state, assigned, phase) ==
    /\ attempt[t].state = state
    /\ claim[t] = state
    /\ attempt[t].phase = phase
    /\ assignment[Owner(t)] = assigned
    /\ workspace[Owner(t)] = "ACTIVE" /\ Owner(t) \in leased
    /\ usage[Owner(t)] = "ACTIVE"

RequireReservedOwnership(r) ==
    /\ runner[r].pc = "own1"
    /\ OwnsLaunch(Att(r), "RESERVED", "READY", "RESERVATION_IN_FLIGHT")
    /\ Goto(r, "reserve")
    /\ UNCHANGED <<durable, captured, canceller, external, stopped>>

\* An external call takes effect and then returns or raises.
ReserveAuthority(r) ==
    /\ runner[r].pc = "reserve"
    /\ external' = [external EXCEPT ![Att(r)] = "RESERVED"]
    /\ \E pc \in {"mark", "ambiguous"} : Goto(r, pc)
    /\ UNCHANGED <<durable, captured, canceller, stopped>>

MarkAuthorityReserved(r) ==
    /\ runner[r].pc = "mark"
    /\ attempt[Att(r)].state = "RESERVED"
    /\ attempt[Att(r)].phase = "RESERVATION_IN_FLIGHT"
    /\ assignment[Owner(Att(r))] = "READY"
    /\ Becomes(Att(r), InPhase(Att(r), "AUTHORITY_RESERVED"))
    /\ Goto(r, "authorize")
    /\ UNCHANGED <<assignment, claim, active, workspace, leased, usage,
                   captured, canceller, external, stopped>>

Authorize(r) ==
    /\ runner[r].pc = "authorize"
    /\ external' = [external EXCEPT ![Att(r)] = "AUTHORIZED"]
    /\ \E pc \in {"bind", "ambiguous"} : Goto(r, pc)
    /\ UNCHANGED <<durable, captured, canceller, stopped>>

BindAuthorization(r) ==
    /\ runner[r].pc = "bind"
    /\ attempt[Att(r)].state = "RESERVED"
    /\ attempt[Att(r)].phase = "AUTHORITY_RESERVED"
    /\ assignment[Owner(Att(r))] = "READY"
    /\ claim[Att(r)] = "RESERVED"
    /\ Becomes(Att(r), InPhase(Att(r), "AUTHORIZED"))
    /\ Goto(r, "claim")
    /\ UNCHANGED <<assignment, claim, active, workspace, leased, usage,
                   captured, canceller, external, stopped>>

\* The assignments in S become UNCERTAIN, their reservations too, and stay held.
KeepUncertain(S) ==
    /\ assignment' = [a \in Assignments |->
                        IF a \in S THEN "UNCERTAIN" ELSE assignment[a]]
    /\ workspace' = [a \in Assignments |->
                        IF a \in S /\ workspace[a] = "ACTIVE"
                          THEN "UNCERTAIN" ELSE workspace[a]]
    /\ WroteAssignments(S)
    /\ WroteWorkspaces({a \in S : workspace[a] = "ACTIVE"})

ReservationAmbiguous(t) ==
    /\ attempt[t].state = "RESERVED"
    /\ attempt[t].phase \in {"RESERVATION_IN_FLIGHT", "AUTHORITY_RESERVED"}
    /\ assignment[Owner(t)] = "READY"
    /\ claim[t] = "RESERVED"

\* mark_authority_reservation_uncertain, in the handler of the try block.
MarkReservationUncertain(r) ==
    /\ runner[r].pc = "ambiguous"
    /\ ReservationAmbiguous(Att(r))
    /\ Becomes(Att(r), InDoubt(Att(r), "AUTHORITY_RESERVATION_OUTCOME_AMBIGUOUS"))
    /\ claim' = [claim EXCEPT ![Att(r)] = "UNCERTAIN"]
    /\ KeepUncertain({Owner(Att(r))})
    /\ Finish(r)
    /\ UNCHANGED <<active, leased, usage, canceller, external, stopped>>

\* The handler swallows the refusal of mark_authority_reservation_uncertain.
SwallowRefusal(r) ==
    /\ runner[r].pc = "ambiguous"
    /\ ~ReservationAmbiguous(Att(r))
    /\ Finish(r)
    /\ UNCHANGED <<durable, captured, canceller, external, stopped>>

\* The direct path of run_assignment authorizes before it writes anything.
AuthorizeDirect(r, t) ==
    /\ runner[r].pc = "ready"
    /\ FreshAttempt(t)
    /\ workspace[Job(r)] = "ACTIVE"
    /\ usage[Job(r)] = "ACTIVE"
    /\ external' = [external EXCEPT ![t] = "AUTHORIZED"]
    /\ runner' = [runner EXCEPT ![r] = At("direct", Job(r), t)]
    /\ asRead' = asRead \cup {r}
    /\ UNCHANGED <<durable, wsRead, canceller, stopped>>

ReserveDirect(r) ==
    /\ runner[r].pc = "direct"
    /\ r \in asRead
    /\ attempt[Att(r)].state = "ABSENT"
    /\ LaunchReady(Job(r))
    /\ InsertAttempt(Att(r), Job(r), "AUTHORIZED")
    /\ asRead' = asRead \ {r}
    /\ Goto(r, "claim")
    /\ UNCHANGED <<assignment, workspace, leased, usage, wsRead, canceller,
                   external, stopped>>

ClaimLaunch(r) ==
    /\ runner[r].pc = "claim"
    /\ attempt[Att(r)].state = "RESERVED"
    /\ assignment[Owner(Att(r))] = "READY"
    /\ claim[Att(r)] = "RESERVED"
    /\ Becomes(Att(r), InState(Att(r), "LAUNCH_CLAIMED"))
    /\ assignment' = [assignment EXCEPT ![Owner(Att(r))] = "LAUNCH_CLAIMED"]
    /\ claim' = [claim EXCEPT ![Att(r)] = "LAUNCH_CLAIMED"]
    /\ WroteAssignments({Owner(Att(r))})
    /\ Goto(r, "own2")
    /\ UNCHANGED <<active, workspace, leased, usage, wsRead, canceller,
                   external, stopped>>

RequireClaimedOwnership(r) ==
    /\ runner[r].pc = "own2"
    /\ OwnsLaunch(Att(r), "LAUNCH_CLAIMED", "LAUNCH_CLAIMED", "AUTHORIZED")
    /\ Goto(r, "launch")
    /\ UNCHANGED <<durable, captured, canceller, external, stopped>>

\* LaunchAuthority.launch executes the provider.  When it raises, the claim
\* deliberately stays LAUNCH_CLAIMED for restart recovery.
Launch(r) ==
    /\ runner[r].pc = "launch"
    /\ external' = [external EXCEPT ![Att(r)] = "EXECUTED"]
    /\ Goto(r, "running") \/ Finish(r)
    /\ UNCHANGED <<durable, captured, canceller, stopped>>

MarkRunning(r) ==
    /\ runner[r].pc = "running"
    /\ attempt[Att(r)].state = "LAUNCH_CLAIMED"
    /\ assignment[Owner(Att(r))] = "LAUNCH_CLAIMED"
    /\ claim[Att(r)] = "LAUNCH_CLAIMED"
    /\ active[SessionOf[Owner(Att(r))]] >= 1
    /\ Becomes(Att(r), InState(Att(r), "RUNNING"))
    /\ assignment' = [assignment EXCEPT ![Owner(Att(r))] = "RUNNING"]
    /\ claim' = [claim EXCEPT ![Att(r)] = "RUNNING"]
    /\ WroteAssignments({Owner(Att(r))})
    /\ Goto(r, "complete")
    /\ UNCHANGED <<active, workspace, leased, usage, wsRead, canceller,
                   external, stopped>>

\* Mutation of ConsumeUsage: the reservation stays ACTIVE.
KeepUsage(a) == usage' = [usage EXCEPT ![a] = @]

\* _consume_usage does nothing when the assignment has no ACTIVE row.
ConsumeUsage(a) ==
    usage' = [usage EXCEPT ![a] = IF @ = "ACTIVE" THEN "CONSUMED" ELSE @]

\* Mutation of FreeSlot: the session is reset to unused.
FreeSession(a) == active' = [active EXCEPT ![SessionOf[a]] = 0]

FreeSlot(a) ==
    active' = [active EXCEPT ![SessionOf[a]] = IF @ > 0 THEN @ - 1 ELSE 0]

\* Mutation of Completable: only the launch claim is asked.
CompletableByClaim(t) == claim[t] = "RUNNING"

Completable(t) ==
    attempt[t].state = "RUNNING" /\ assignment[Owner(t)] = "RUNNING"

CompleteAttempt(r) ==
    /\ runner[r].pc = "complete"
    /\ Completable(Att(r))
    /\ Becomes(Att(r), InState(Att(r), "COMPLETED"))
    /\ assignment' = [assignment EXCEPT ![Owner(Att(r))] = "REVIEW_REQUIRED"]
    /\ claim' = [claim EXCEPT ![Att(r)] =
                    IF @ = "RUNNING" THEN "COMPLETED" ELSE @]
    /\ FreeSlot(Owner(Att(r)))
    /\ ConsumeUsage(Owner(Att(r)))
    /\ WroteAssignments({Owner(Att(r))})
    /\ Finish(r)
    /\ UNCHANGED <<workspace, leased, wsRead, canceller, external, stopped>>

\* An exception inside the try block (a refused check or a failed call).
Fail(r) ==
    /\ runner[r].pc \in Guarded
    /\ Goto(r, "ambiguous")
    /\ UNCHANGED <<durable, captured, canceller, external, stopped>>

\* The thread ends: an exception anywhere else, or the process dies.
Stop(r) ==
    /\ runner[r].pc # "idle"
    /\ Finish(r)
    /\ ForgetReads(r)
    /\ UNCHANGED <<durable, canceller, external, stopped>>

-----------------------------------------------------------------------------
(* Cancellation (orchestration.cancel_assignment)                           *)

ClaimCancellation(t) ==
    /\ claim[t] = "RUNNING"
    /\ attempt[t].state = "RUNNING"
    /\ assignment[Owner(t)] = "RUNNING"
    /\ Becomes(t, InState(t, "CANCELLATION_CLAIMED"))
    /\ assignment' = [assignment EXCEPT ![Owner(t)] = "CANCELLATION_CLAIMED"]
    /\ WroteAssignments({Owner(t)})
    /\ canceller' = [canceller EXCEPT ![t] = "call"]
    /\ UNCHANGED <<claim, active, workspace, leased, usage, wsRead, runner,
                   external, stopped>>

\* adapter.cancel takes effect and returns or raises, or raises without effect.
CallCancel(t) ==
    /\ canceller[t] = "call"
    /\ \/ /\ stopped' = stopped \cup {t}
          /\ \E pc \in {"finish", "fail"} :
                canceller' = [canceller EXCEPT ![t] = pc]
       \/ /\ canceller' = [canceller EXCEPT ![t] = "fail"]
          /\ UNCHANGED stopped
    /\ UNCHANGED <<durable, captured, runner, external>>

CancellationClaimed(t) ==
    /\ attempt[t].state = "CANCELLATION_CLAIMED"
    /\ assignment[Owner(t)] = "CANCELLATION_CLAIMED"
    /\ claim[t] = "RUNNING"

\* What complete_cancellation and reconcile_uncertain_cancellation both write.
Cancel(t) ==
    /\ Becomes(t, InState(t, "CANCELED"))
    /\ assignment' = [assignment EXCEPT ![Owner(t)] = "CANCELED"]
    /\ claim' = [claim EXCEPT ![t] = "CANCELED"]
    /\ FreeSlot(Owner(t))
    /\ ConsumeUsage(Owner(t))
    /\ WroteAssignments({Owner(t)})

CompleteCancellation(t) ==
    /\ canceller[t] = "finish"
    /\ CancellationClaimed(t)
    /\ Cancel(t)
    /\ canceller' = [canceller EXCEPT ![t] = "none"]
    /\ UNCHANGED <<workspace, leased, wsRead, runner, external, stopped>>

\* Any exception after the claim: complete_cancellation was refused.
RefuseCancellation(t) ==
    /\ canceller[t] = "finish"
    /\ canceller' = [canceller EXCEPT ![t] = "fail"]
    /\ UNCHANGED <<durable, captured, runner, external, stopped>>

MarkCancellationUncertain(t) ==
    /\ canceller[t] = "fail"
    /\ CancellationClaimed(t)
    /\ Becomes(t, InDoubt(t, "CANCELLATION_OUTCOME_AMBIGUOUS"))
    /\ claim' = [claim EXCEPT ![t] = "UNCERTAIN"]
    /\ KeepUncertain({Owner(t)})
    /\ canceller' = [canceller EXCEPT ![t] = "none"]
    /\ UNCHANGED <<active, leased, usage, runner, external, stopped>>

\* The cancelling thread ends without another transaction.
StopCancel(t) ==
    /\ canceller[t] # "none"
    /\ canceller' = [canceller EXCEPT ![t] = "none"]
    /\ UNCHANGED <<durable, captured, runner, external, stopped>>

\* reconcile_uncertain_cancellation, on a Founder-approved observation that
\* the provider did cancel.
ReconcileCancellation(t) ==
    /\ attempt[t].state = "UNCERTAIN"
    /\ attempt[t].kind = "CANCELLATION_OUTCOME_AMBIGUOUS"
    /\ assignment[Owner(t)] = "UNCERTAIN"
    /\ workspace[Owner(t)] = "UNCERTAIN"
    /\ active[SessionOf[Owner(t)]] >= 1
    /\ claim[t] = "UNCERTAIN"
    /\ Cancel(t)
    /\ workspace' = [workspace EXCEPT ![Owner(t)] = "ACTIVE"]
    /\ WroteWorkspaces({Owner(t)})
    /\ UNCHANGED <<leased, runner, canceller, external, stopped>>

-----------------------------------------------------------------------------
(* Workspace leases                                                         *)

ExpireLease(a) ==
    /\ a \in leased
    /\ leased' = leased \ {a}
    /\ UNCHANGED <<assignment, attempt, claim, active, workspace, usage,
                   captured, runner, canceller, external, stopped>>

\* renew_workspace does not ask whether the lease has expired already.
RenewWorkspace(a) ==
    /\ workspace[a] = "ACTIVE"
    /\ leased' = leased \cup {a}
    /\ WroteWorkspaces({a})
    /\ UNCHANGED <<assignment, attempt, claim, active, workspace, usage, asRead,
                   runner, canceller, external, stopped>>

\* Mutation of Surrenderable: the launch claims are not asked.
SurrenderableByState(a) ==
    /\ workspace[a] # "NONE"
    /\ assignment[a] \notin {"LAUNCH_CLAIMED", "RUNNING", "UNCERTAIN"}

\* The guard release_workspace and recover_stale_workspace share.
Surrenderable(a) ==
    /\ workspace[a] # "NONE"
    /\ assignment[a] \notin {"LAUNCH_CLAIMED", "RUNNING", "UNCERTAIN"}
    /\ Claims(a, Held) = {}

LeaveWorkspace(a, state) ==
    /\ workspace' = [workspace EXCEPT ![a] = state]
    /\ WroteWorkspaces({a})
    /\ UNCHANGED <<assignment, attempt, claim, active, leased, usage, asRead,
                   runner, canceller, external, stopped>>

ReleaseWorkspace(a) ==
    /\ Surrenderable(a)
    /\ LeaveWorkspace(a, "RELEASED")

RecoverStaleWorkspace(a) ==
    /\ Surrenderable(a)
    /\ a \notin leased
    /\ LeaveWorkspace(a, "STALE")

-----------------------------------------------------------------------------
(* Restart: PassBApplication.__init__ runs recover_interrupted_attempts,    *)
(* possibly while runners of another process are between two transactions.  *)

Interrupted == {t \in Attempts : claim[t] \in InFlight}

\* Nothing external can have happened yet.
PreLaunch == {t \in Interrupted : /\ claim[t] = "RESERVED"
                                  /\ attempt[t].phase = "LOCAL_PREPARED"}

\* Mutation of RecoveredKind: every doubt may be reconciled as a cancellation.
AlwaysCancellation(t) == "CANCELLATION_OUTCOME_AMBIGUOUS"

RecoveredKind(t) ==
    IF attempt[t].state = "CANCELLATION_CLAIMED"
      THEN "CANCELLATION_OUTCOME_AMBIGUOUS"
      ELSE "EXTERNAL_EXECUTION_OUTCOME_AMBIGUOUS"

Recover ==
    LET drop == PreLaunch
        doubt == Interrupted \ drop
        freed(s) == Cardinality({t \in drop : SessionOf[Owner(t)] = s})
    IN  /\ Interrupted # {}
        /\ attempt' = [t \in Attempts |->
              IF t \in drop THEN InState(t, "FAILED")
              ELSE IF t \in doubt THEN InDoubt(t, RecoveredKind(t))
              ELSE attempt[t]]
        /\ claim' = [t \in Attempts |->
              IF t \in drop THEN "FAILED"
              ELSE IF t \in doubt THEN "UNCERTAIN" ELSE claim[t]]
        /\ active' = [s \in Sessions |->
              IF active[s] >= freed(s) THEN active[s] - freed(s) ELSE 0]
        /\ KeepUncertain({Owner(t) : t \in doubt})
        /\ UNCHANGED <<leased, usage, runner, canceller, external, stopped>>

-----------------------------------------------------------------------------

RunnerStep(r) ==
    \/ \E a \in Assignments : PickStage(r, a) \/ PickReady(r, a)
    \/ PrepareAssignment(r) \/ ReserveWorkspace(r) \/ ReadUsageRows(r)
    \/ GrantUsage(r) \/ PauseForUsage(r)
    \/ \E t \in Attempts : ReservePrepared(r, t) \/ AuthorizeDirect(r, t)
    \/ MarkInFlight(r) \/ RequireReservedOwnership(r) \/ ReserveAuthority(r)
    \/ MarkAuthorityReserved(r) \/ Authorize(r) \/ BindAuthorization(r)
    \/ MarkReservationUncertain(r) \/ SwallowRefusal(r)
    \/ ReserveDirect(r) \/ ClaimLaunch(r)
    \/ RequireClaimedOwnership(r) \/ Launch(r) \/ MarkRunning(r)
    \/ CompleteAttempt(r) \/ Fail(r) \/ Stop(r)

CancelStep(t) ==
    \/ ClaimCancellation(t) \/ CallCancel(t) \/ CompleteCancellation(t)
    \/ RefuseCancellation(t) \/ MarkCancellationUncertain(t) \/ StopCancel(t)
    \/ ReconcileCancellation(t)

LeaseStep(a) ==
    \/ ExpireLease(a) \/ RenewWorkspace(a) \/ ReleaseWorkspace(a)
    \/ RecoverStaleWorkspace(a) \/ ResumeAfterReset(a)

Next ==
    \/ \E r \in Runners : RunnerStep(r)
    \/ \E t \in Attempts : CancelStep(t)
    \/ \E a \in Assignments : LeaseStep(a)
    \/ Recover

Spec == Init /\ [][Next]_vars

\* The only scheduling the code needs: Keeper is started again some day, and
\* PassBApplication.__init__ then runs the recovery.
FairSpec == Spec /\ WF_vars(Recover)

-----------------------------------------------------------------------------
(* Properties                                                               *)

\* An attempt and its row of pass_b_launch_claims tell the same story: the two
\* tables are written by eleven different methods, and only a cancellation in
\* progress leaves the claim RUNNING while the attempt says otherwise.
ClaimMatchesAttempt ==
    \A t \in Attempts :
        claim[t] = IF attempt[t].state = "CANCELLATION_CLAIMED"
                     THEN "RUNNING" ELSE attempt[t].state

\* At most one attempt of an assignment is in progress, completed or uncertain
\* (repository.py:142), whoever races, crashes or restarts.
OneLaunchPerAssignment ==
    \A t, u \in Attempts :
        /\ claim[t] \in Exclusive /\ claim[u] \in Exclusive
        /\ Owner(t) = Owner(u)
        => t = u

Unsettled ==
    {"RESERVED", "LAUNCH_CLAIMED", "RUNNING", "CANCELLATION_CLAIMED",
     "UNCERTAIN"}

SlotHolders(s) ==
    {t \in Attempts : attempt[t].state \in Unsettled /\ SessionOf[Owner(t)] = s}

\* session.active_assignments counts exactly the attempts whose outcome is open:
\* no crash, recovery or cancellation leaks a slot or frees one twice, and the
\* concurrency limit holds although recovery runs beside live runners.
SessionAccounting ==
    \A s \in Sessions :
        /\ active[s] = Cardinality(SlotHolders(s))
        /\ active[s] <= Limit[s]

\* Recovery calls an attempt FAILED, and frees its slot for another attempt,
\* only if KeeperAuthority was never asked about it: the marker
\* RESERVATION_IN_FLIGHT is durable before the first external call.
FailedNeverLeftKeeper ==
    \A t \in Attempts : attempt[t].state = "FAILED" => external[t] = "NONE"

\* Once a provider may have executed an attempt, the attempt is on record as
\* launched, and it stays so through every crash.
ExecutionOnRecord ==
    \A t \in Attempts :
        external[t] = "EXECUTED" =>
            attempt[t].state \notin {"ABSENT", "RESERVED", "FAILED"}

\* As long as the outcome of an attempt is open, its workspace is neither
\* released nor stale, and its usage reservation is neither consumed nor gone:
\* lease expiry, stale recovery and the pause of a racing coordinator included.
OpenOutcomeKeepsResources ==
    \A t \in Attempts :
        attempt[t].state \in Unsettled =>
            /\ workspace[Owner(t)] \in {"ACTIVE", "UNCERTAIN"}
            /\ usage[Owner(t)] = "ACTIVE"

Standing == {t \in Attempts : external[t] = "EXECUTED"
                             /\ attempt[t].state # "CANCELED"}

\* An assignment is executed again only after its earlier execution is on
\* record as cancelled: there is at most one execution whose effect may stand.
OneStandingExecution ==
    \A t, u \in Standing : Owner(t) = Owner(u) => t = u

\* A cancel that reached the provider and a completion exclude each other:
\* evidence of an execution that was stopped is never accepted as complete.
StoppedNeverCompletes ==
    \A t \in stopped :
        attempt[t].state \in {"CANCELLATION_CLAIMED", "UNCERTAIN", "CANCELED"}

\* With one coordinator, an assignment that is done holds no usage reservation
\* that nothing would ever consume.
DoneHoldsNoUsage ==
    \A a \in Assignments :
        assignment[a] \in {"REVIEW_REQUIRED", "CANCELED"} => usage[a] # "ACTIVE"

\* An uncertain attempt leaves that state only for CANCELED, and only if its
\* uncertainty is about a cancellation: a thread that outlives the recovery of
\* its attempt can neither complete nor cancel nor relaunch it.
UncertainAttemptIsKept ==
    [][\A t \in Attempts :
          attempt[t].state = "UNCERTAIN" =>
            \/ attempt'[t] = attempt[t]
            \/ /\ attempt'[t].state = "CANCELED"
               /\ attempt[t].kind = "CANCELLATION_OUTCOME_AMBIGUOUS"]_vars

\* No attempt stays in flight for ever, whichever thread died at whichever
\* step of the launch or of the cancellation: a restart settles it.
EveryAttemptSettles ==
    \A t \in Attempts :
        claim[t] \in InFlight ~>
            attempt[t].state \in {"COMPLETED", "CANCELED", "FAILED", "UNCERTAIN"}

-----------------------------------------------------------------------------
(* The protocol implements OneShotLaunch                                    *)

PhaseOf(t) ==
    CASE attempt[t].state = "ABSENT" -> "free"
      [] attempt[t].state = "COMPLETED" -> "kept"
      [] attempt[t].state = "CANCELED" -> "undone"
      [] attempt[t].state = "FAILED" -> "dropped"
      [] attempt[t].state = "UNCERTAIN" -> "unknown"
      [] OTHER -> "held"

Promise == INSTANCE OneShotLaunch
    WITH Jobs <- Assignments, Tokens <- Attempts, Nobody <- None,
         phase <- [t \in Attempts |-> PhaseOf(t)],
         job <- [t \in Attempts |-> Owner(t)],
         executed <- {t \in Attempts : external[t] = "EXECUTED"}

\* The launch protocol keeps the promise of OneShotLaunch: every transaction,
\* external call, crash and recovery is one of its steps or invisible to it.
ImplementsOneShotLaunch == Promise!Spec
=============================================================================
