------------------------- MODULE AuthorityService -------------------------
(***************************************************************************)
(* KeeperAuthority, composed with the provider host it launches through.     *)
(* Every store method is one BEGIN IMMEDIATE transaction; a handler reads,    *)
(* decides, and writes in later transactions, so requests served by different *)
(* threads interleave between them.  Records of one project are modelled: its *)
(* launch authorizations by generation, its attempts, the provider           *)
(* registrations, and the restore fence that freezes the project.            *)
(***************************************************************************)
EXTENDS ProviderHost

CONSTANTS Threads,         \* threads that serve EXECUTE_PROVIDER
          Reviewers,       \* attempts that need a bound provider input
          MaxGeneration    \* bound on launch authorization generations

ASSUME AuthorityConstants ==
    /\ Reviewers \subseteq Attempts
    /\ MaxGeneration \in Nat \ {0}
    /\ None \notin Threads

VARIABLES registration,   \* RegistrationState of a registration
          qualification,  \* QualificationState of its qualification
          qualifier,      \* the thread that qualifies or reconciles it
          authorization,  \* state of the launch authorization of a generation
          lapsed,         \* generations whose authorization has expired
          attempt,        \* AttemptState
          generation,     \* generation an attempt was reserved under
          reserving,      \* generation read by the thread that reserves it
          thread,         \* the threads that execute attempts
          canceller,      \* the thread that cancels an attempt
          lifecycleLock,  \* thread that holds the gateway's lifecycle lock
          sequence,       \* the gateway's durable sequence
          fence           \* the ACTIVE restore fence of the project, if any

attempts == <<attempt, generation>>
qualifying == <<registration, qualification, qualifier>>
authorities == <<authorization, lapsed>>
threads == <<reserving, thread, canceller, lifecycleLock, sequence>>
authorityVars == <<qualifying, authorities, attempts, threads, fence>>
vars == <<hostVars, authorityVars>>

Generations == 1 .. MaxGeneration
RegistrationState == {"ABSENT", "REGISTERED_UNQUALIFIED", "UNCERTAIN",
                      "QUALIFIED", "QUALIFICATION_FAILED", "REVOKED"}
QualificationState == {"NONE", "EXECUTION_STARTED", "UNCERTAIN", "QUALIFIED",
                       "QUALIFICATION_FAILED"}
Results == {"COMPLETED", "FAILED", "CANCELLED", "TIMED_OUT",
            "WAITING_FOR_USAGE_RESET"}
AttemptState == Results \cup
    {"ABSENT", "RESERVED", "INPUT_BOUND", "LAUNCH_CLAIMED", "EXECUTION_STARTED",
     "PAUSED", "CANCELLATION_CLAIMED", "UNCERTAIN"}

ThreadPC == {"idle", "claim", "wait", "prepare", "envelope", "lock", "rpc",
             "started", "return", "failed"}
NoThread == [pc |-> "idle", att |-> None, seen |-> "ABSENT", seq |-> 0,
             result |-> None]

TypeOK ==
    /\ HostTypeOK
    /\ registration \in [Registrations -> RegistrationState]
    /\ qualification \in [Registrations -> QualificationState]
    /\ qualifier \in [Registrations -> {"none", "observe", "failed", "bind", "complete"}]
    /\ authorization \in [Generations -> {"NONE", "ACTIVE", "REVOKED"}]
    /\ lapsed \subseteq Generations
    /\ attempt \in [Attempts -> AttemptState]
    /\ generation \in [Attempts -> 0 .. MaxGeneration]
    /\ reserving \in [Attempts -> 0 .. MaxGeneration]
    /\ thread \in [Threads -> [pc : ThreadPC, att : Attempts \cup {None},
                               seen : AttemptState, seq : Nat,
                               result : Results \cup {None}]]
    /\ canceller \in [Attempts -> {"none", "call", "rpc", "finish"}]
    /\ lifecycleLock \in Threads \cup {None}
    /\ sequence \in Nat
    /\ fence \in {"NONE", "ACTIVE", "EXPIRED"}

Init ==
    /\ HostInit
    /\ registration = [r \in Registrations |-> "ABSENT"]
    /\ qualification = [r \in Registrations |-> "NONE"]
    /\ qualifier = [r \in Registrations |-> "none"]
    /\ authorization = [g \in Generations |-> "NONE"]
    /\ lapsed = {}
    /\ attempt = [a \in Attempts |-> "ABSENT"]
    /\ generation = [a \in Attempts |-> 0]
    /\ reserving = [a \in Attempts |-> 0]
    /\ thread = [t \in Threads |-> NoThread]
    /\ canceller = [a \in Attempts |-> "none"]
    /\ lifecycleLock = None
    /\ sequence = 0
    /\ fence = "NONE"

-----------------------------------------------------------------------------
(* Transactions of the store                                                *)

\* Mutation of Unfenced: a fence past its expiry no longer blocks.
UnfencedOnceExpired == fence # "ACTIVE"

\* _assert_projects_unfenced: any fence row that is still ACTIVE blocks, also
\* after its expiry.
Unfenced == fence = "NONE"

\* transition: compare and swap on the state, refused while fenced.
Transition(a, from, to) ==
    /\ Unfenced
    /\ attempt[a] = from
    /\ attempt' = [attempt EXCEPT ![a] = to]

\* _transition_provider_qualification_pair
TransitionPair(r, fromRegistration, fromQualification, to) ==
    /\ registration[r] = fromRegistration
    /\ qualification[r] = fromQualification
    /\ registration' = [registration EXCEPT ![r] = to]
    /\ qualification' = [qualification EXCEPT ![r] = to]

Withdrawn(g) == {a \in Attempts : /\ generation[a] = g
                                  /\ attempt[a] \in {"RESERVED", "INPUT_BOUND",
                                                     "LAUNCH_CLAIMED"}}

-----------------------------------------------------------------------------
(* Registrations                                                            *)

RegisterProvider(r) ==
    /\ registration[r] = "ABSENT"
    /\ registration' = [registration EXCEPT ![r] = "REGISTERED_UNQUALIFIED"]
    /\ UNCHANGED <<hostVars, qualification, qualifier, authorities, attempts,
                   threads, fence>>

\* _qualify_provider up to the durable start.  The host is asked first whether
\* it is ready and bound to no other registration.
BeginQualification(r) ==
    /\ qualifier[r] = "none"
    /\ registration[r] = "REGISTERED_UNQUALIFIED"
    /\ lifecycleLock = None /\ Bindable(r)
    /\ qualification' = [qualification EXCEPT ![r] = "EXECUTION_STARTED"]
    /\ qualifier' = [qualifier EXCEPT ![r] = "observe"]
    /\ UNCHANGED <<hostVars, registration, authorities, attempts, threads, fence>>

\* The observed run qualifies: both records become UNCERTAIN in one transaction.
StageQualification(r) ==
    /\ qualifier[r] = "observe"
    /\ TransitionPair(r, "REGISTERED_UNQUALIFIED", "EXECUTION_STARTED", "UNCERTAIN")
    /\ qualifier' = [qualifier EXCEPT ![r] = "bind"]
    /\ UNCHANGED <<hostVars, authorities, attempts, threads, fence>>

\* It does not: the two records fail in two transactions.
FailQualification(r) ==
    /\ qualifier[r] = "observe"
    /\ qualification[r] = "EXECUTION_STARTED"
    /\ qualification' = [qualification EXCEPT ![r] = "QUALIFICATION_FAILED"]
    /\ qualifier' = [qualifier EXCEPT ![r] = "failed"]
    /\ UNCHANGED <<hostVars, registration, authorities, attempts, threads, fence>>

FailRegistration(r) ==
    /\ qualifier[r] = "failed"
    /\ registration[r] = "REGISTERED_UNQUALIFIED"
    /\ registration' = [registration EXCEPT ![r] = "QUALIFICATION_FAILED"]
    /\ qualifier' = [qualifier EXCEPT ![r] = "none"]
    /\ UNCHANGED <<hostVars, qualification, authorities, attempts, threads, fence>>

\* Mutation of BindQualified: the records are published before the host answers.
CompleteBeforeBinding(r) ==
    /\ qualifier[r] = "bind"
    /\ TransitionPair(r, "UNCERTAIN", "UNCERTAIN", "QUALIFIED")
    /\ qualifier' = [qualifier EXCEPT ![r] = "none"]
    /\ UNCHANGED <<hostVars, authorities, attempts, threads, fence>>

\* observer.bind_qualified_provider; the response may be lost on the way back.
BindQualified(r) ==
    /\ qualifier[r] = "bind"
    /\ lifecycleLock = None
    /\ BindProvider(r)
    /\ \E next \in {"complete", "none"} :
          qualifier' = [qualifier EXCEPT ![r] = next]
    /\ UNCHANGED <<registration, qualification, authorities, attempts, threads,
                   fence>>

CompleteQualification(r) ==
    /\ qualifier[r] = "complete"
    /\ TransitionPair(r, "UNCERTAIN", "UNCERTAIN", "QUALIFIED")
    /\ qualifier' = [qualifier EXCEPT ![r] = "none"]
    /\ UNCHANGED <<hostVars, authorities, attempts, threads, fence>>

\* A refused transaction, a refusal of the host or an observer that raises.
AbandonQualification(r) ==
    /\ qualifier[r] # "none"
    /\ qualifier' = [qualifier EXCEPT ![r] = "none"]
    /\ UNCHANGED <<hostVars, registration, qualification, authorities, attempts,
                   threads, fence>>

\* _reconcile_provider_qualification sends the stored binding again.
ReconcileQualification(r) ==
    /\ qualifier[r] = "none"
    /\ registration[r] = "UNCERTAIN" /\ qualification[r] = "UNCERTAIN"
    /\ qualifier' = [qualifier EXCEPT ![r] = "bind"]
    /\ UNCHANGED <<hostVars, registration, qualification, authorities, attempts,
                   threads, fence>>

RevokeRegistration(r) ==
    /\ registration[r] \notin {"ABSENT", "REVOKED"}
    /\ registration' = [registration EXCEPT ![r] = "REVOKED"]
    /\ UNCHANGED <<hostVars, qualification, qualifier, authorities, attempts,
                   threads, fence>>

RegistrationStep(r) ==
    \/ RegisterProvider(r) \/ BeginQualification(r) \/ StageQualification(r)
    \/ FailQualification(r) \/ FailRegistration(r) \/ BindQualified(r)
    \/ CompleteQualification(r) \/ AbandonQualification(r)
    \/ ReconcileQualification(r) \/ RevokeRegistration(r)

-----------------------------------------------------------------------------
(* Launch authorizations                                                    *)

\* create_launch_authorization: the exact next generation, after the latest one
\* was revoked.
AuthorizeLaunch(g) ==
    /\ Unfenced
    /\ authorization[g] = "NONE"
    /\ g > 1 => authorization[g - 1] = "REVOKED"
    /\ authorization' = [authorization EXCEPT ![g] = "ACTIVE"]
    /\ UNCHANGED <<hostVars, qualifying, lapsed, attempts, threads, fence>>

ExpireAuthorization(g) ==
    /\ authorization[g] = "ACTIVE" /\ g \notin lapsed
    /\ lapsed' = lapsed \cup {g}
    /\ UNCHANGED <<hostVars, qualifying, authorization, attempts, threads, fence>>

\* Mutation of RevokeLaunch: a claimed launch is left alone.
RevokeUnclaimed(g) ==
    /\ Unfenced
    /\ authorization[g] = "ACTIVE"
    /\ authorization' = [authorization EXCEPT ![g] = "REVOKED"]
    /\ attempt' = [a \in Attempts |->
                     IF a \in Withdrawn(g) /\ attempt[a] # "LAUNCH_CLAIMED"
                       THEN "CANCELLED" ELSE attempt[a]]
    /\ UNCHANGED <<hostVars, qualifying, lapsed, generation, threads, fence>>

\* revoke_launch_authorization withdraws what has not been started in the same
\* transaction.
RevokeLaunch(g) ==
    /\ Unfenced
    /\ authorization[g] = "ACTIVE"
    /\ authorization' = [authorization EXCEPT ![g] = "REVOKED"]
    /\ attempt' = [a \in Attempts |->
                     IF a \in Withdrawn(g) THEN "CANCELLED" ELSE attempt[a]]
    /\ UNCHANGED <<hostVars, qualifying, lapsed, generation, threads, fence>>

-----------------------------------------------------------------------------
(* Reservation, input and the requests on one record                        *)

\* _reserve_attempt reads the registration and the authorization.
ReadForReservation(a, g) ==
    /\ attempt[a] = "ABSENT" /\ reserving[a] = 0
    /\ registration[RegistrationOf[a]] = "QUALIFIED"
    /\ authorization[g] = "ACTIVE"
    /\ reserving' = [reserving EXCEPT ![a] = g]
    /\ UNCHANGED <<hostVars, qualifying, authorities, attempts, thread, canceller,
                   lifecycleLock, sequence, fence>>

\* insert asks for the fence only: what was read may have been revoked since.
InsertAttempt(a) ==
    /\ reserving[a] # 0
    /\ Unfenced
    /\ attempt' = [attempt EXCEPT ![a] = "RESERVED"]
    /\ generation' = [generation EXCEPT ![a] = reserving[a]]
    /\ reserving' = [reserving EXCEPT ![a] = 0]
    /\ UNCHANGED <<hostVars, qualifying, authorities, thread, canceller,
                   lifecycleLock, sequence, fence>>

RefuseReservation(a) ==
    /\ reserving[a] # 0 /\ ~Unfenced
    /\ reserving' = [reserving EXCEPT ![a] = 0]
    /\ UNCHANGED <<hostVars, qualifying, authorities, attempts, thread, canceller,
                   lifecycleLock, sequence, fence>>

RecordOnly == UNCHANGED <<hostVars, qualifying, authorities, generation, threads,
                          fence>>

BindProviderInput(a) ==
    a \in Reviewers /\ Transition(a, "RESERVED", "INPUT_BOUND") /\ RecordOnly

PauseAttempt(a) == Transition(a, "EXECUTION_STARTED", "PAUSED") /\ RecordOnly
ResumeAttempt(a) == Transition(a, "PAUSED", "EXECUTION_STARTED") /\ RecordOnly

\* _finalize_completion takes the result from the evidence file.
FinalizeCompletion(a) ==
    /\ \E result \in {"COMPLETED", "FAILED"} :
          Transition(a, "EXECUTION_STARTED", result)
    /\ RecordOnly

AttemptStep(a) ==
    \/ \E g \in Generations : ReadForReservation(a, g)
    \/ InsertAttempt(a) \/ RefuseReservation(a)
    \/ BindProviderInput(a) \/ PauseAttempt(a) \/ ResumeAttempt(a)
    \/ FinalizeCompletion(a)

-----------------------------------------------------------------------------
(* EXECUTE_PROVIDER                                                         *)

At(t, pc) == thread[t].pc = pc
Goto(t, pc) == thread' = [thread EXCEPT ![t].pc = pc]
Finish(t) == thread' = [thread EXCEPT ![t] = NoThread]
Att(t) == thread[t].att

\* An execution the observer has entered in _active_host_launches.
Launching(a) == \E t \in Threads : /\ Att(t) = a
                                   /\ thread[t].pc \in {"lock", "rpc", "started"}

\* _execute_provider reads the attempt and its registration.
ReadForExecution(t, a) ==
    /\ At(t, "idle")
    /\ attempt[a] = IF a \in Reviewers THEN "INPUT_BOUND" ELSE "RESERVED"
    /\ registration[RegistrationOf[a]] = "QUALIFIED"
    /\ thread' = [thread EXCEPT ![t] = [NoThread EXCEPT !.pc = "claim", !.att = a,
                                                        !.seen = attempt[a]]]
    /\ UNCHANGED <<hostVars, qualifying, authorities, attempts, reserving,
                   canceller, lifecycleLock, sequence, fence>>

\* The authorization is still live; its registration is not asked again.
LaunchAuthorized(a) ==
    authorization[generation[a]] = "ACTIVE" /\ generation[a] \notin lapsed

\* Mutation of ClaimLaunch: the state that was read is not compared.
ClaimWithoutCompare(t) ==
    /\ At(t, "claim")
    /\ Unfenced /\ LaunchAuthorized(Att(t))
    /\ attempt' = [attempt EXCEPT ![Att(t)] = "LAUNCH_CLAIMED"]
    /\ Goto(t, "prepare")
    /\ UNCHANGED <<hostVars, qualifying, authorities, generation, reserving,
                   canceller, lifecycleLock, sequence, fence>>

\* claim_attempt_with_launch_authority
ClaimLaunch(t) ==
    /\ At(t, "claim")
    /\ LaunchAuthorized(Att(t))
    /\ Transition(Att(t), thread[t].seen, "LAUNCH_CLAIMED")
    /\ Goto(t, "prepare")
    /\ UNCHANGED <<hostVars, qualifying, authorities, generation, reserving,
                   canceller, lifecycleLock, sequence, fence>>

RefuseExecution(t) ==
    /\ At(t, "claim")
    /\ \/ ~Unfenced \/ ~LaunchAuthorized(Att(t))
       \/ attempt[Att(t)] # thread[t].seen
    /\ Finish(t)
    /\ UNCHANGED <<hostVars, qualifying, authorities, attempts, reserving,
                   canceller, lifecycleLock, sequence, fence>>

\* The usage policy refuses the claim; the wait is a transaction of its own.
UsageExhausted(t) ==
    /\ At(t, "claim")
    /\ Unfenced /\ LaunchAuthorized(Att(t))
    /\ Goto(t, "wait")
    /\ UNCHANGED <<hostVars, qualifying, authorities, attempts, reserving,
                   canceller, lifecycleLock, sequence, fence>>

MarkWaiting(t) ==
    /\ At(t, "wait")
    /\ IF Unfenced /\ attempt[Att(t)] = thread[t].seen
         THEN Transition(Att(t), thread[t].seen, "WAITING_FOR_USAGE_RESET")
         ELSE UNCHANGED attempt
    /\ Finish(t)
    /\ UNCHANGED <<hostVars, qualifying, authorities, generation, reserving,
                   canceller, lifecycleLock, sequence, fence>>

\* gateway.prepare_environment, a request of its own under the lifecycle lock.
PrepareLaunch(t) ==
    /\ At(t, "prepare")
    /\ lifecycleLock = None
    /\ PrepareEnvironment(Att(t))
    /\ Goto(t, "envelope")
    /\ UNCHANGED <<qualifying, authorities, attempts, reserving, canceller,
                   lifecycleLock, sequence, fence>>

\* build_launch_envelope draws the sequence; the launch is entered as active.
BuildEnvelope(t) ==
    /\ At(t, "envelope")
    /\ sequence' = sequence + 1
    /\ thread' = [thread EXCEPT ![t].pc = "lock", ![t].seq = sequence + 1]
    /\ UNCHANGED <<hostVars, qualifying, authorities, attempts, reserving,
                   canceller, lifecycleLock, fence>>

\* gateway.execute: the lifecycle lock is held until the launch has ended.
Execute(t) ==
    /\ At(t, "lock")
    /\ lifecycleLock = None
    /\ \/ /\ TakeLaunch(Att(t), thread[t].seq)
          /\ lifecycleLock' = t
          /\ Goto(t, "rpc")
       \/ /\ RefuseLaunch(Att(t), thread[t].seq)
          /\ Goto(t, "failed")
          /\ UNCHANGED lifecycleLock
    /\ UNCHANGED <<qualifying, authorities, attempts, reserving, canceller,
                   sequence, fence>>

\* Mutation of RecordStart: the host is acknowledged before the transaction.
AcknowledgeFirst(t) ==
    /\ At(t, "rpc") /\ Drives(Att(t)) /\ worker.pc = "ack"
    /\ Acknowledged
    /\ Goto(t, "started")
    /\ UNCHANGED <<qualifying, authorities, attempts, reserving, canceller,
                   lifecycleLock, sequence, fence>>

\* on_started: the start is durable before the host is told to resume.
RecordStart(t) ==
    /\ At(t, "rpc") /\ Drives(Att(t)) /\ worker.pc = "ack"
    /\ Transition(Att(t), "LAUNCH_CLAIMED", "EXECUTION_STARTED")
    /\ Acknowledged
    /\ Goto(t, "started")
    /\ UNCHANGED <<qualifying, authorities, generation, reserving, canceller,
                   lifecycleLock, sequence, fence>>

\* on_started raises, and the pipe is closed without an acknowledgement.
RefuseStart(t) ==
    /\ At(t, "rpc") /\ Drives(Att(t)) /\ worker.pc = "ack"
    /\ ~Unfenced \/ attempt[Att(t)] # "LAUNCH_CLAIMED"
    /\ lifecycleLock' = None
    /\ Goto(t, "failed")
    /\ UNCHANGED <<hostVars, qualifying, authorities, attempts, reserving,
                   canceller, sequence, fence>>

\* Mutation of ConnectionLost: the lock stays with the thread.
LostWithLock(t) ==
    /\ thread[t].pc \in {"rpc", "started"}
    /\ ~Drives(Att(t))
    /\ Goto(t, "failed")
    /\ UNCHANGED <<hostVars, qualifying, authorities, attempts, reserving,
                   canceller, lifecycleLock, sequence, fence>>

\* The host raised or ended: the pipe breaks.
ConnectionLost(t) ==
    /\ thread[t].pc \in {"rpc", "started"}
    /\ ~Drives(Att(t))
    /\ lifecycleLock' = None
    /\ Goto(t, "failed")
    /\ UNCHANGED <<hostVars, qualifying, authorities, attempts, reserving,
                   canceller, sequence, fence>>

\* observer.execute_provider raises before the request.
ExecutionRaises(t) ==
    /\ thread[t].pc \in {"prepare", "envelope"}
    /\ Goto(t, "failed")
    /\ UNCHANGED <<hostVars, qualifying, authorities, attempts, reserving,
                   canceller, lifecycleLock, sequence, fence>>

\* What the authority makes of the end of the process.
Classified(terminal) ==
    CASE terminal = "COMPLETED" -> {"COMPLETED", "FAILED"}
      [] terminal = "FAILED"    -> {"FAILED", "TIMED_OUT", "WAITING_FOR_USAGE_RESET"}
      [] terminal = "CANCELLED" -> {"CANCELLED"}

\* The process ends; the thread that waits for it gets the signed completion.
ExecutionEnds ==
    \E terminal \in Terminal :
        /\ ProcessEnds(terminal)
        /\ \/ \E t \in Threads :
                 /\ At(t, "started") /\ Att(t) = worker.att
                 /\ lifecycleLock' = None
                 /\ \E result \in Classified(terminal) :
                       thread' = [thread EXCEPT ![t].pc = "return",
                                                ![t].result = result]
           \/ /\ ~\E t \in Threads : At(t, "started") /\ Att(t) = worker.att
              /\ UNCHANGED <<lifecycleLock, thread>>
        /\ UNCHANGED <<qualifying, authorities, attempts, reserving, canceller,
                       sequence, fence>>

\* The completion is recorded, unless the attempt was cancelled, paused, fenced
\* or finalized in the meantime.
RecordCompletion(t) ==
    /\ At(t, "return")
    /\ IF Unfenced /\ attempt[Att(t)] = "EXECUTION_STARTED"
         THEN Transition(Att(t), "EXECUTION_STARTED", thread[t].result)
         ELSE UNCHANGED attempt
    /\ Finish(t)
    /\ UNCHANGED <<hostVars, qualifying, authorities, generation, reserving,
                   canceller, lifecycleLock, sequence, fence>>

\* The except block: a claim without a recorded start becomes UNCERTAIN.
RecordFailure(t) ==
    /\ At(t, "failed")
    /\ IF Unfenced /\ attempt[Att(t)] = "LAUNCH_CLAIMED"
         THEN Transition(Att(t), "LAUNCH_CLAIMED", "UNCERTAIN")
         ELSE UNCHANGED attempt
    /\ Finish(t)
    /\ UNCHANGED <<hostVars, qualifying, authorities, generation, reserving,
                   canceller, lifecycleLock, sequence, fence>>

ExecuteStep(t) ==
    \/ \E a \in Attempts : ReadForExecution(t, a)
    \/ ClaimLaunch(t) \/ RefuseExecution(t) \/ UsageExhausted(t) \/ MarkWaiting(t)
    \/ PrepareLaunch(t) \/ BuildEnvelope(t) \/ Execute(t) \/ RecordStart(t)
    \/ RefuseStart(t) \/ ConnectionLost(t) \/ ExecutionRaises(t)
    \/ RecordCompletion(t) \/ RecordFailure(t)

-----------------------------------------------------------------------------
(* CANCEL_ATTEMPT                                                           *)

Cancellable == {"RESERVED", "INPUT_BOUND", "LAUNCH_CLAIMED",
                "EXECUTION_STARTED", "PAUSED"}

ClaimCancellation(a) ==
    /\ canceller[a] = "none"
    /\ \E from \in Cancellable : Transition(a, from, "CANCELLATION_CLAIMED")
    /\ canceller' = [canceller EXCEPT ![a] = "call"]
    /\ UNCHANGED <<hostVars, qualifying, authorities, generation, reserving, thread,
                   lifecycleLock, sequence, fence>>

\* observer.cancel_provider asks the host only for a launch it knows of.
CallCancel(a) ==
    /\ canceller[a] = "call"
    /\ canceller' = [canceller EXCEPT ![a] = IF Launching(a) THEN "rpc" ELSE "finish"]
    /\ UNCHANGED <<hostVars, qualifying, authorities, attempts, reserving, thread,
                   lifecycleLock, sequence, fence>>

\* gateway.cancel waits for the lifecycle lock, which an execution holds.
CancelAcknowledged(a) ==
    /\ canceller[a] = "rpc"
    /\ lifecycleLock = None
    /\ CancelActive(a)
    /\ canceller' = [canceller EXCEPT ![a] = "finish"]
    /\ UNCHANGED <<qualifying, authorities, attempts, reserving, thread,
                   lifecycleLock, sequence, fence>>

\* Mutation of CancelNotAcknowledged: the request is sent until the host knows
\* the launch.
AskAgain(a) ==
    /\ canceller[a] = "rpc"
    /\ lifecycleLock = None
    /\ ~Drives(a)
    /\ UNCHANGED vars

\* The host no longer knows the launch: the request raises, and the attempt
\* stays CANCELLATION_CLAIMED.
CancelNotAcknowledged(a) ==
    /\ canceller[a] = "rpc"
    /\ lifecycleLock = None
    /\ ~Drives(a)
    /\ canceller' = [canceller EXCEPT ![a] = "none"]
    /\ UNCHANGED <<hostVars, qualifying, authorities, attempts, reserving, thread,
                   lifecycleLock, sequence, fence>>

\* The second transaction; refused while fenced.
FinishCancellation(a) ==
    /\ canceller[a] = "finish"
    /\ IF Unfenced /\ attempt[a] = "CANCELLATION_CLAIMED"
         THEN Transition(a, "CANCELLATION_CLAIMED", "CANCELLED")
         ELSE UNCHANGED attempt
    /\ canceller' = [canceller EXCEPT ![a] = "none"]
    /\ UNCHANGED <<hostVars, qualifying, authorities, generation, reserving, thread,
                   lifecycleLock, sequence, fence>>

CancelStep(a) ==
    \/ ClaimCancellation(a) \/ CallCancel(a) \/ CancelAcknowledged(a)
    \/ CancelNotAcknowledged(a) \/ FinishCancellation(a)

-----------------------------------------------------------------------------
(* The restore fence                                                        *)

FenceStep(from, to) ==
    /\ fence = from /\ fence' = to
    /\ UNCHANGED <<hostVars, qualifying, authorities, attempts, threads>>

BeginFence == FenceStep("NONE", "ACTIVE")
ExpireFence == FenceStep("ACTIVE", "EXPIRED")
CompleteFence == FenceStep("ACTIVE", "NONE")
AbortFence == \E from \in {"ACTIVE", "EXPIRED"} : FenceStep(from, "NONE")
RecoverFence == FenceStep("EXPIRED", "NONE")

-----------------------------------------------------------------------------

\* The service process ends and starts again.  It recovers nothing by itself.
AuthorityRestart ==
    /\ \/ \E t \in Threads : ~At(t, "idle")
       \/ \E a \in Attempts : canceller[a] # "none"
    /\ thread' = [t \in Threads |-> NoThread]
    /\ canceller' = [a \in Attempts |-> "none"]
    /\ reserving' = [a \in Attempts |-> 0]
    /\ qualifier' = [r \in Registrations |-> "none"]
    /\ lifecycleLock' = None
    /\ UNCHANGED <<hostVars, registration, qualification, authorities, attempts,
                   sequence, fence>>

HostAlone == HostStep /\ UNCHANGED authorityVars
WorkerRaises == LaunchRaises /\ UNCHANGED authorityVars

Next ==
    \/ \E r \in Registrations : RegistrationStep(r)
    \/ \E g \in Generations : AuthorizeLaunch(g) \/ ExpireAuthorization(g)
                              \/ RevokeLaunch(g)
    \/ \E a \in Attempts : AttemptStep(a) \/ CancelStep(a)
    \/ \E t \in Threads : ExecuteStep(t)
    \/ ExecutionEnds
    \/ BeginFence \/ ExpireFence \/ CompleteFence \/ AbortFence \/ RecoverFence
    \/ AuthorityRestart
    \/ HostAlone \/ WorkerRaises

Spec == Init /\ [][Next]_vars

\* Threads of both processes run on.  The host bounds every provider run with a
\* timeout, and the connection to the pipe is bounded; a read of the pipe has no
\* timeout, but it ends with the answer of the live thread that serves it, or with
\* the pipe broken when that process ends.
Fairness ==
    /\ \A t \in Threads : WF_vars(/\ ~At(t, "idle") /\ ExecuteStep(t))
    /\ WF_vars(ExecutionEnds \/ WorkerRaises)
    /\ \A a \in Attempts : WF_vars(canceller[a] # "none" /\ CancelStep(a))

FairSpec == Spec /\ Fairness

-----------------------------------------------------------------------------
(* Properties                                                               *)

Cancelled == {"CANCELLATION_CLAIMED", "CANCELLED"}

\* A launch that has been claimed and not yet started has a live launch
\* authorization: revoking it withdraws the claim in the same transaction, so no
\* provider is started under an authorization the founder has withdrawn.
ClaimNeedsAuthorization ==
    \A a \in Attempts :
        attempt[a] = "LAUNCH_CLAIMED" => authorization[generation[a]] = "ACTIVE"

\* The provider runs only after its start is durable: no attempt that the
\* authority holds for unstarted, or for uncertain, has ever been resumed.
RunIsRecorded ==
    \A a \in Attempts :
        ran[a] > 0 => attempt[a] \notin {"ABSENT", "RESERVED", "INPUT_BOUND",
                                        "LAUNCH_CLAIMED", "UNCERTAIN"}

\* Whatever restarts, retries and second readers there are, the provider of an
\* attempt is resumed at most once: the authority claims an attempt once, and the
\* journal of the host takes one launch of an attempt, whatever it ends with.
RunsAtMostOnce == \A a \in Attempts : ran[a] <= 1

\* A registration is published as qualified only when the host is bound to it,
\* although the binding, its answer and the two records are separate steps.
QualifiedIsBound ==
    \A r \in Registrations : registration[r] = "QUALIFIED" => binding = r

\* While a restore fence stands, expired or not, the attempts and launch
\* authorizations of the project do not change.
FencedIsFrozen ==
    [][fence # "NONE" /\ fence' # "NONE" => UNCHANGED <<attempts, authorization>>]_vars

\* What an attempt ended with is never overwritten by a thread that read the
\* attempt earlier: no late completion replaces a cancellation, and no late claim
\* or pause reopens a result.
OutcomeStands ==
    [][\A a \in Attempts :
          /\ attempt[a] \in Results \cup {"UNCERTAIN"} => attempt'[a] = attempt[a]
          /\ attempt[a] \in Cancelled => attempt'[a] \in Cancelled]_vars

\* Two launches of one workspace are never unresolved or uncertain together, so
\* nothing runs where an earlier provider may have left work half done.
OneLaunchPerWorkspace ==
    \A a, b \in Attempts :
        /\ a # b /\ WorkspaceOf[a] = WorkspaceOf[b]
        /\ launch[a] \in Unresolved \cup {"UNCERTAIN"}
        => launch[b] \notin Unresolved \cup {"UNCERTAIN"}

\* Whoever holds the gateway's lifecycle lock gives it back: an execution ends
\* with a completion, a refusal or a broken pipe.
LockIsReleased == lifecycleLock # None ~> lifecycleLock = None

\* A cancellation that waits for the host is answered in the end, also one that
\* waits behind the execution it is to cancel.
CancellationReturns ==
    \A a \in Attempts : canceller[a] # "none" ~> canceller[a] = "none"
=============================================================================
