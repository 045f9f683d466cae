------------------------- MODULE PassBLaunchProofs -------------------------
(***************************************************************************)
(* Proofs about the launch protocol of Pass B, for any assignments,        *)
(* attempts, coordinators and sessions.  The invariants of PassBLaunch are *)
(* not inductive: what a coordinator may do next depends on what it knows  *)
(* about its attempt.  Consistent says what it knows at each step, and     *)
(* what the history of an attempt implies about the outside world.         *)
(***************************************************************************)
EXTENDS PassBLaunch, FiniteSetTheorems, TLAPS

-----------------------------------------------------------------------------
(* The inductive invariant                                                  *)

\* The program counters at which a runner has chosen an attempt.
WithAttempt ==
    Guarded \cup {"flight", "ambiguous", "direct", "claim", "own2", "launch",
                  "running", "complete"}

\* Those at which the record of that attempt has left LOCAL_PREPARED.
BeyondLocal == WithAttempt \ {"flight", "direct"}

RunnersTyped ==
    \A r \in Runners :
        /\ runner[r].pc # "idle" => Job(r) \in Assignments
        /\ runner[r].pc \in WithAttempt => Att(r) \in Attempts

Typed == TypeOK /\ RunnersTyped

Owned == \A t \in Attempts : attempt[t].state # "ABSENT" => Owner(t) \in Assignments

\* No attempt is driven by two runners.
Distinct == \A r, q \in Runners : Att(r) \in Attempts /\ Att(r) = Att(q) => r = q

\* What a runner at pc knows about its attempt, of record rec, and about what
\* happened to it outside.
Fits(pc, rec, outside) ==
    /\ pc = "flight" => rec.state # "ABSENT"
    /\ pc \in BeyondLocal => rec.state # "ABSENT" /\ rec.phase # "LOCAL_PREPARED"
    /\ pc \in {"own2", "launch", "running", "complete"} =>
          rec.state \notin {"RESERVED", "FAILED"}
    /\ pc \in {"running", "complete"} => outside = "EXECUTED"
    /\ pc \in WithAttempt \ {"running", "complete"} => outside # "EXECUTED"

Driving ==
    \A r \in Runners : Fits(runner[r].pc, attempt[Att(r)], external[Att(r)])

\* What the record of an attempt says about KeeperAuthority and the provider.
History ==
    \A t \in Attempts :
        /\ attempt[t].state = "FAILED" => attempt[t].phase = "LOCAL_PREPARED"
        /\ external[t] # "NONE" =>
              attempt[t].state = "ABSENT" \/ attempt[t].phase # "LOCAL_PREPARED"
        /\ external[t] = "EXECUTED" =>
              attempt[t].state \notin {"ABSENT", "RESERVED", "FAILED"}
        /\ attempt[t].state \in {"RUNNING", "CANCELLATION_CLAIMED", "COMPLETED",
                                 "CANCELED"}
              => external[t] = "EXECUTED"
        /\ attempt[t].kind = "CANCELLATION_OUTCOME_AMBIGUOUS"
              => external[t] = "EXECUTED"

Consistent == ClaimMatchesAttempt /\ Owned /\ Driving /\ Distinct /\ History

\* A thread that cancels an attempt keeps the others from completing it.
Cancelling ==
    \A t \in Attempts :
        canceller[t] # "none" =>
            attempt[t].state \in {"CANCELLATION_CLAIMED", "UNCERTAIN", "CANCELED"}

Stopping == Cancelling /\ StoppedNeverCompletes

Inv ==
    /\ Typed
    /\ Consistent
    /\ OneLaunchPerAssignment
    /\ OpenOutcomeKeepsResources
    /\ Stopping

-----------------------------------------------------------------------------
(* Which steps write what                                                   *)

\* The steps that write the record of an attempt.
AttemptStep ==
    \/ \E r \in Runners :
          \/ \E t \in Attempts : ReservePrepared(r, t)
          \/ MarkInFlight(r) \/ MarkAuthorityReserved(r) \/ BindAuthorization(r)
          \/ MarkReservationUncertain(r) \/ ReserveDirect(r) \/ ClaimLaunch(r)
          \/ MarkRunning(r) \/ CompleteAttempt(r)
    \/ \E t \in Attempts :
          \/ ClaimCancellation(t) \/ CompleteCancellation(t)
          \/ MarkCancellationUncertain(t) \/ ReconcileCancellation(t)
    \/ Recover

\* The other steps that write a workspace or usage reservation.
HoldStep ==
    \/ \E r \in Runners : ReserveWorkspace(r) \/ GrantUsage(r)
    \/ \E a \in Assignments : ReleaseWorkspace(a) \/ RecoverStaleWorkspace(a)

\* The other steps of a cancelling thread.
SignalStep ==
    \E t \in Attempts : CallCancel(t) \/ RefuseCancellation(t) \/ StopCancel(t)

\* No other step writes an attempt, a claim, a slot, a workspace state, a usage
\* row, or the progress of a cancellation.
LEMMA StepKinds ==
  ASSUME [Next]_vars
  PROVE  \/ AttemptStep
         \/ HoldStep /\ UNCHANGED <<attempt, claim, active, canceller, stopped>>
         \/ SignalStep /\ UNCHANGED <<attempt, claim, active, workspace, usage>>
         \/ UNCHANGED <<attempt, claim, active, workspace, usage, canceller,
                        stopped>>
  <1> USE DEF AttemptStep, HoldStep, SignalStep, durable, captured
  <1>1. ASSUME NEW r \in Runners, RunnerStep(r)
        PROVE  \/ AttemptStep
               \/ HoldStep /\ UNCHANGED <<attempt, claim, active, canceller, stopped>>
               \/ UNCHANGED <<attempt, claim, active, workspace, usage, canceller,
                              stopped>>
    BY <1>1 DEF RunnerStep, ReserveWorkspace, GrantUsage, PickStage,
       PickReady, PrepareAssignment, ReadUsageRows, PauseForUsage,
       AuthorizeDirect, RequireReservedOwnership, ReserveAuthority, Authorize,
       SwallowRefusal, RequireClaimedOwnership, Launch, Fail, Stop
  <1>2. ASSUME NEW t \in Attempts, CancelStep(t)
        PROVE  \/ AttemptStep
               \/ SignalStep /\ UNCHANGED <<attempt, claim, active, workspace, usage>>
    BY <1>2 DEF CancelStep, CallCancel, RefuseCancellation, StopCancel
  <1>3. ASSUME NEW a \in Assignments, LeaseStep(a)
        PROVE  \/ HoldStep /\ UNCHANGED <<attempt, claim, active, canceller, stopped>>
               \/ UNCHANGED <<attempt, claim, active, workspace, usage, canceller,
                              stopped>>
    BY <1>3 DEF LeaseStep, ReleaseWorkspace, RecoverStaleWorkspace, LeaveWorkspace,
       ExpireLease, RenewWorkspace, ResumeAfterReset
  <1>4. CASE UNCHANGED vars
    BY <1>4 DEF vars
  <1>5. CASE Recover
    BY <1>5
  <1>q. QED
    BY <1>1, <1>2, <1>3, <1>4, <1>5 DEF Next

-----------------------------------------------------------------------------
(* Types                                                                    *)

\* The empty database and idle coordinators are well typed.
LEMMA InitTyped == Init => Typed
  BY LaunchConstants DEF Init, Typed, TypeOK, RunnersTyped, NoAttempt, Idle, At,
     AssignmentState, AttemptState, AuthorityPhase, UncertaintyKind, ClaimState,
     ExternalState, RunnerPC, Guarded, Job, Att, WithAttempt

\* Whatever session the assignment is bound to, its slot count stays a number.
LEMMA FreeSlotTyped ==
  ASSUME active \in [Sessions -> Nat], NEW a, FreeSlot(a)
  PROVE  active' \in [Sessions -> Nat]
  <1>1. CASE SessionOf[a] \in Sessions
    BY <1>1 DEF FreeSlot
  <1>2. CASE SessionOf[a] \notin Sessions
    BY <1>2 DEF FreeSlot
  <1>q. QED
    BY <1>1, <1>2

AttemptRecord == [state : AttemptState,
                  owner : Assignments \cup {None},
                  phase : AuthorityPhase,
                  kind  : UncertaintyKind]

RunnerRecord == [pc  : RunnerPC,
                 job : Assignments \cup {None},
                 att : Attempts \cup {None}]

\* The record of an attempt in another state, or in doubt, is such a record.
LEMMA BecomesTyped ==
  ASSUME TypeOK, NEW t \in Attempts, NEW state \in AttemptState,
         NEW kind \in UncertaintyKind,
         Becomes(t, InState(t, state)) \/ Becomes(t, InDoubt(t, kind))
  PROVE  attempt' \in [Attempts -> AttemptRecord]
  <1>1. attempt \in [Attempts -> AttemptRecord]
    BY DEF TypeOK, AttemptRecord
  <1>2. attempt[t] \in AttemptRecord
    BY <1>1
  <1>3. /\ InState(t, state) \in AttemptRecord
        /\ InDoubt(t, kind) \in AttemptRecord
    BY <1>2 DEF InState, InDoubt, Record, Owner, AttemptRecord, AttemptState
  <1>q. QED
    BY <1>1, <1>3 DEF Becomes

\* A runner that goes on is a runner with a job, and with its attempt.
LEMMA GotoTyped ==
  ASSUME Typed, NEW r \in Runners, NEW pc \in RunnerPC, runner[r].pc # "idle",
         runner[r].pc \in WithAttempt, Goto(r, pc)
  PROVE  runner' \in [Runners -> RunnerRecord] /\ RunnersTyped'
  <1>1. runner \in [Runners -> RunnerRecord] /\ RunnersTyped
    BY DEF Typed, TypeOK, RunnerRecord
  <1>2. Job(r) \in Assignments /\ Att(r) \in Attempts
    BY <1>1 DEF RunnersTyped
  <1>3. At(pc, Job(r), Att(r)) \in RunnerRecord
    BY <1>2 DEF At, RunnerRecord
  <1>4. runner' \in [Runners -> RunnerRecord]
    BY <1>1, <1>3 DEF Goto
  <1>5. /\ Job(r)' = Job(r) /\ Att(r)' = Att(r)
        /\ \A q \in Runners \ {r} : runner'[q] = runner[q]
    BY <1>1 DEF Goto, At, Job, Att
  <1>q. QED
    BY <1>1, <1>2, <1>4, <1>5 DEF RunnersTyped, Job, Att

\* A runner that ends has neither.
LEMMA FinishTyped ==
  ASSUME Typed, NEW r \in Runners, Finish(r)
  PROVE  runner' \in [Runners -> RunnerRecord] /\ RunnersTyped'
  <1>1. runner \in [Runners -> RunnerRecord] /\ RunnersTyped
    BY DEF Typed, TypeOK, RunnerRecord
  <1>2. Idle \in RunnerRecord /\ Idle.pc = "idle" /\ "idle" \notin WithAttempt
    BY DEF Idle, At, RunnerRecord, RunnerPC, WithAttempt, Guarded
  <1>3. /\ runner' \in [Runners -> RunnerRecord] /\ runner'[r] = Idle
        /\ \A q \in Runners \ {r} : runner'[q] = runner[q]
    BY <1>1, <1>2 DEF Finish
  <1>q. QED
    BY <1>1, <1>2, <1>3 DEF RunnersTyped, Job, Att

\* The transactions that move the claimed attempt of a runner keep the types.
LEMMA LaunchTyped ==
  ASSUME Typed, NEW r \in Runners,
         ClaimLaunch(r) \/ MarkRunning(r) \/ CompleteAttempt(r)
  PROVE  Typed'
  <1>1. PICK to \in {"LAUNCH_CLAIMED", "RUNNING", "COMPLETED"},
             as \in {"LAUNCH_CLAIMED", "RUNNING", "REVIEW_REQUIRED"} :
          /\ Becomes(Att(r), InState(Att(r), to))
          /\ assignment' = [assignment EXCEPT ![Owner(Att(r))] = as]
          /\ WroteAssignments({Owner(Att(r))})
          /\ UNCHANGED <<workspace, leased, wsRead, canceller, external, stopped>>
    BY DEF ClaimLaunch, MarkRunning, CompleteAttempt
  <1>2. /\ runner[r].pc \in {"claim", "running", "complete"}
        /\ Goto(r, "own2") \/ Goto(r, "complete") \/ Finish(r)
    BY DEF ClaimLaunch, MarkRunning, CompleteAttempt
  <1>3. /\ Att(r) \in Attempts /\ TypeOK /\ runner[r].pc \in WithAttempt
        /\ runner[r].pc # "idle"
    BY <1>2 DEF Typed, RunnersTyped, WithAttempt
  <1>4. runner' \in [Runners -> RunnerRecord] /\ RunnersTyped'
    <2>1. {"own2", "complete"} \subseteq RunnerPC
      BY DEF RunnerPC
    <2>q. QED
      BY <1>2, <1>3, <2>1, GotoTyped, FinishTyped
  <1>5. attempt' \in [Attempts -> AttemptRecord]
    <2>1. to \in AttemptState /\ "NONE" \in UncertaintyKind
      BY DEF AttemptState, UncertaintyKind
    <2>q. QED
      BY <1>1, <1>3, <2>1, BecomesTyped
  <1>6. assignment' \in [Assignments -> AssignmentState]
    BY <1>1, <1>3 DEF TypeOK, AssignmentState
  <1>7. claim' \in [Attempts -> ClaimState]
    <2>1. \E c \in ClaimState : claim' = [claim EXCEPT ![Att(r)] = c]
      <3>1. claim[Att(r)] \in ClaimState
        BY <1>3 DEF TypeOK
      <3>2. {"LAUNCH_CLAIMED", "RUNNING", "COMPLETED"} \subseteq ClaimState
        BY DEF ClaimState, AttemptState
      <3>q. QED
        BY <3>1, <3>2 DEF ClaimLaunch, MarkRunning, CompleteAttempt
    <2>q. QED
      BY <1>3, <2>1 DEF TypeOK
  <1>8. asRead' \subseteq Runners \cup Assignments
    BY <1>1, <1>3 DEF TypeOK, WroteAssignments
  <1>9. active' \in [Sessions -> Nat]
    BY <1>3, FreeSlotTyped DEF ClaimLaunch, MarkRunning, CompleteAttempt, TypeOK
  <1>10. usage' \in [Assignments -> {"NONE", "ACTIVE", "CONSUMED"}]
    BY <1>3 DEF ClaimLaunch, MarkRunning, CompleteAttempt, ConsumeUsage, TypeOK
  <1>q. QED
    BY <1>1, <1>3, <1>4, <1>5, <1>6, <1>7, <1>8, <1>9, <1>10
    DEF Typed, TypeOK, AttemptRecord, RunnerRecord

\* So does the one that leaves a reservation in doubt.
LEMMA DoubtTyped ==
  ASSUME Typed, NEW r \in Runners, MarkReservationUncertain(r)
  PROVE  Typed'
  <1>1. Att(r) \in Attempts /\ TypeOK
    BY DEF Typed, RunnersTyped, MarkReservationUncertain, WithAttempt
  <1>2. /\ Becomes(Att(r), InDoubt(Att(r), "AUTHORITY_RESERVATION_OUTCOME_AMBIGUOUS"))
        /\ claim' = [claim EXCEPT ![Att(r)] = "UNCERTAIN"]
        /\ KeepUncertain({Owner(Att(r))}) /\ Finish(r)
        /\ UNCHANGED <<active, leased, usage, canceller, external, stopped>>
    BY DEF MarkReservationUncertain
  <1>3. runner' \in [Runners -> RunnerRecord] /\ RunnersTyped'
    BY <1>2, FinishTyped
  <1>4. attempt' \in [Attempts -> AttemptRecord]
    <2>1. /\ "UNCERTAIN" \in AttemptState
          /\ "AUTHORITY_RESERVATION_OUTCOME_AMBIGUOUS" \in UncertaintyKind
      BY DEF AttemptState, UncertaintyKind
    <2>q. QED
      BY <1>1, <1>2, <2>1, BecomesTyped
  <1>5. claim' \in [Attempts -> ClaimState]
    <2>1. "UNCERTAIN" \in ClaimState /\ claim \in [Attempts -> ClaimState]
      BY <1>1 DEF TypeOK, ClaimState, AttemptState
    <2>q. QED
      BY <1>1, <1>2, <2>1
  <1>6. /\ assignment' \in [Assignments -> AssignmentState]
        /\ workspace' \in [Assignments ->
                             {"NONE", "ACTIVE", "RELEASED", "STALE", "UNCERTAIN"}]
    BY <1>1, <1>2 DEF TypeOK, KeepUncertain, AssignmentState
  <1>7. /\ asRead' \subseteq Runners \cup Assignments
        /\ wsRead' \subseteq Runners \cup Assignments
    BY <1>1, <1>2 DEF TypeOK, KeepUncertain, WroteAssignments, WroteWorkspaces
  <1>q. QED
    BY <1>1, <1>2, <1>3, <1>4, <1>5, <1>6, <1>7
    DEF Typed, TypeOK, AttemptRecord, RunnerRecord

\* Every step writes records of the types TypeOK names, and a coordinator that
\* has picked a stage or an attempt keeps it until it is idle again.
LEMMA StepTyped == Typed /\ [Next]_vars => Typed'
  <1> SUFFICES ASSUME Typed, [Next]_vars
               PROVE  Typed'
    OBVIOUS
  <1>16. ASSUME NEW r \in Runners, MarkReservationUncertain(r)
        PROVE  Typed'
    BY <1>16, DoubtTyped
  <1>19. ASSUME NEW r \in Runners, ClaimLaunch(r)
        PROVE  Typed'
    BY <1>19, LaunchTyped
  <1>22. ASSUME NEW r \in Runners, MarkRunning(r)
        PROVE  Typed'
    BY <1>22, LaunchTyped
  <1>23. ASSUME NEW r \in Runners, CompleteAttempt(r)
        PROVE  Typed'
    BY <1>23, LaunchTyped
  <1> USE LaunchConstants DEF Typed, TypeOK, RunnersTyped, WithAttempt, Guarded,
        Goto, Finish, At, Becomes, Record, InState, InPhase, InDoubt, RunnerPC,
        Idle, AssignmentState, AttemptState, AuthorityPhase, UncertaintyKind,
        ClaimState, ExternalState, Job, Att, Owner, Holders, durable, captured
  <1>1. ASSUME NEW r \in Runners, NEW a \in Assignments, PickStage(r, a)
        PROVE  Typed'
    BY <1>1 DEF PickStage
  <1>2. ASSUME NEW r \in Runners, NEW a \in Assignments, PickReady(r, a)
        PROVE  Typed'
    BY <1>2 DEF PickReady
  <1>3. ASSUME NEW r \in Runners, PrepareAssignment(r)
        PROVE  Typed'
    BY <1>3 DEF PrepareAssignment
  <1>4. ASSUME NEW r \in Runners, ReserveWorkspace(r)
        PROVE  Typed'
    BY <1>4 DEF ReserveWorkspace, WroteWorkspaces
  <1>5. ASSUME NEW r \in Runners, ReadUsageRows(r)
        PROVE  Typed'
    <2>1. CASE usage[Job(r)] = "ACTIVE"
      BY <1>5, <2>1 DEF ReadUsageRows, ForgetReads
    <2>2. CASE usage[Job(r)] # "ACTIVE"
      <3>1. Goto(r, "usage") /\ UNCHANGED <<durable, captured, canceller, external,
                                           stopped>>
        BY <1>5, <2>2 DEF ReadUsageRows
      <3>2. Job(r) \in Assignments
        BY <1>5 DEF ReadUsageRows
      <3>q. QED
        BY <3>1, <3>2
    <2>q. QED
      BY <2>1, <2>2
  <1>6. ASSUME NEW r \in Runners, GrantUsage(r)
        PROVE  Typed'
    BY <1>6 DEF GrantUsage, ForgetReads
  <1>7. ASSUME NEW r \in Runners, PauseForUsage(r)
        PROVE  Typed'
    BY <1>7 DEF PauseForUsage
  <1>8. ASSUME NEW r \in Runners, NEW t \in Attempts, ReservePrepared(r, t)
        PROVE  Typed'
    BY <1>8 DEF ReservePrepared, InsertAttempt
  <1>9. ASSUME NEW r \in Runners, NEW t \in Attempts, AuthorizeDirect(r, t)
        PROVE  Typed'
    BY <1>9 DEF AuthorizeDirect
  <1>10. ASSUME NEW r \in Runners, MarkInFlight(r)
        PROVE  Typed'
    BY <1>10 DEF MarkInFlight
  <1>11. ASSUME NEW r \in Runners, RequireReservedOwnership(r)
        PROVE  Typed'
    BY <1>11 DEF RequireReservedOwnership
  <1>12. ASSUME NEW r \in Runners, ReserveAuthority(r)
        PROVE  Typed'
    BY <1>12 DEF ReserveAuthority
  <1>13. ASSUME NEW r \in Runners, MarkAuthorityReserved(r)
        PROVE  Typed'
    BY <1>13 DEF MarkAuthorityReserved
  <1>14. ASSUME NEW r \in Runners, Authorize(r)
        PROVE  Typed'
    BY <1>14 DEF Authorize
  <1>15. ASSUME NEW r \in Runners, BindAuthorization(r)
        PROVE  Typed'
    BY <1>15 DEF BindAuthorization
  <1>17. ASSUME NEW r \in Runners, SwallowRefusal(r)
        PROVE  Typed'
    BY <1>17 DEF SwallowRefusal
  <1>18. ASSUME NEW r \in Runners, ReserveDirect(r)
        PROVE  Typed'
    BY <1>18 DEF ReserveDirect, InsertAttempt, LaunchReady
  <1>20. ASSUME NEW r \in Runners, RequireClaimedOwnership(r)
        PROVE  Typed'
    BY <1>20 DEF RequireClaimedOwnership
  <1>21. ASSUME NEW r \in Runners, Launch(r)
        PROVE  Typed'
    <2>1. external' \in [Attempts -> ExternalState]
      BY <1>21 DEF Launch
    <2>2. CASE Goto(r, "running")
      BY <1>21, <2>1, <2>2 DEF Launch
    <2>3. CASE Finish(r)
      BY <1>21, <2>1, <2>3 DEF Launch
    <2>q. QED
      BY <1>21, <2>2, <2>3 DEF Launch
  <1>24. ASSUME NEW r \in Runners, Fail(r)
        PROVE  Typed'
    BY <1>24 DEF Fail
  <1>25. ASSUME NEW r \in Runners, Stop(r)
        PROVE  Typed'
    BY <1>25 DEF Stop, ForgetReads
  <1>26. ASSUME NEW t \in Attempts, ClaimCancellation(t)
        PROVE  Typed'
    BY <1>26 DEF ClaimCancellation, WroteAssignments
  <1>27. ASSUME NEW t \in Attempts, CallCancel(t)
        PROVE  Typed'
    BY <1>27 DEF CallCancel
  <1>28. ASSUME NEW t \in Attempts, CompleteCancellation(t)
        PROVE  Typed'
    BY <1>28, FreeSlotTyped DEF CompleteCancellation, Cancel,
       ConsumeUsage, WroteAssignments
  <1>29. ASSUME NEW t \in Attempts, RefuseCancellation(t)
        PROVE  Typed'
    BY <1>29 DEF RefuseCancellation
  <1>30. ASSUME NEW t \in Attempts, MarkCancellationUncertain(t)
        PROVE  Typed'
    BY <1>30 DEF MarkCancellationUncertain, KeepUncertain, WroteAssignments,
       WroteWorkspaces
  <1>31. ASSUME NEW t \in Attempts, StopCancel(t)
        PROVE  Typed'
    BY <1>31 DEF StopCancel
  <1>32. ASSUME NEW t \in Attempts, ReconcileCancellation(t)
        PROVE  Typed'
    <2>1. /\ attempt' \in [Attempts -> [state : AttemptState,
                                       owner : Assignments \cup {None},
                                       phase : AuthorityPhase,
                                       kind  : UncertaintyKind]]
          /\ claim' \in [Attempts -> ClaimState]
      BY <1>32 DEF ReconcileCancellation, Cancel
    <2>2. active' \in [Sessions -> Nat]
      BY <1>32, FreeSlotTyped DEF ReconcileCancellation, Cancel
    <2>3. /\ assignment' \in [Assignments -> AssignmentState]
          /\ usage' \in [Assignments -> {"NONE", "ACTIVE", "CONSUMED"}]
          /\ workspace' \in [Assignments ->
                {"NONE", "ACTIVE", "RELEASED", "STALE", "UNCERTAIN"}]
      BY <1>32 DEF ReconcileCancellation, Cancel, ConsumeUsage
    <2>4. /\ asRead' \subseteq Runners \cup Assignments
          /\ wsRead' \subseteq Runners \cup Assignments
      BY <1>32 DEF ReconcileCancellation, Cancel, WroteAssignments, WroteWorkspaces
    <2>q. QED
      BY <1>32, <2>1, <2>2, <2>3, <2>4 DEF ReconcileCancellation
  <1>33. ASSUME NEW a \in Assignments, ExpireLease(a)
        PROVE  Typed'
    BY <1>33 DEF ExpireLease
  <1>34. ASSUME NEW a \in Assignments, RenewWorkspace(a)
        PROVE  Typed'
    BY <1>34 DEF RenewWorkspace, WroteWorkspaces
  <1>35. ASSUME NEW a \in Assignments, ReleaseWorkspace(a)
        PROVE  Typed'
    BY <1>35 DEF ReleaseWorkspace, LeaveWorkspace, WroteWorkspaces
  <1>36. ASSUME NEW a \in Assignments, RecoverStaleWorkspace(a)
        PROVE  Typed'
    BY <1>36 DEF RecoverStaleWorkspace, LeaveWorkspace, WroteWorkspaces
  <1>37. ASSUME NEW a \in Assignments, ResumeAfterReset(a)
        PROVE  Typed'
    BY <1>37 DEF ResumeAfterReset, WroteAssignments
  <1>38. ASSUME Recover
        PROVE  Typed'
    <2>1. attempt' \in [Attempts -> [state : AttemptState,
                                   owner : Assignments \cup {None},
                                   phase : AuthorityPhase,
                                   kind  : UncertaintyKind]]
      BY <1>38 DEF Recover, RecoveredKind
    <2>2. claim' \in [Attempts -> ClaimState]
      BY <1>38 DEF Recover
    <2>3. ASSUME NEW s \in Sessions
          PROVE  active'[s] \in Nat
      <3> DEFINE freed == {t \in PreLaunch : SessionOf[Owner(t)] = s}
      <3>1. IsFiniteSet(freed)
        BY LaunchFinite, FS_Subset DEF PreLaunch, Interrupted
      <3>2. Cardinality(freed) \in Nat
        BY <3>1, FS_CardinalityType
      <3>3. active'[s] = IF active[s] >= Cardinality(freed)
                           THEN active[s] - Cardinality(freed) ELSE 0
        BY <1>38 DEF Recover
      <3>q. QED
        BY <3>2, <3>3
    <2>4. active' \in [Sessions -> Nat]
      BY <1>38, <2>3 DEF Recover
    <2>5. /\ assignment' \in [Assignments -> AssignmentState]
          /\ workspace' \in [Assignments ->
                {"NONE", "ACTIVE", "RELEASED", "STALE", "UNCERTAIN"}]
          /\ asRead' \subseteq Runners \cup Assignments
          /\ wsRead' \subseteq Runners \cup Assignments
      BY <1>38 DEF Recover, KeepUncertain, WroteAssignments, WroteWorkspaces
    <2>q. QED
      BY <1>38, <2>1, <2>2, <2>4, <2>5 DEF Recover
  <1>39. CASE UNCHANGED vars
    BY <1>39 DEF vars
  <1>q. QED
    BY <1>1, <1>2, <1>3, <1>4, <1>5, <1>6, <1>7, <1>8, <1>9, <1>10, <1>11,
       <1>12, <1>13, <1>14, <1>15, <1>16, <1>17, <1>18, <1>19, <1>20, <1>21,
       <1>22, <1>23, <1>24, <1>25, <1>26, <1>27, <1>28, <1>29, <1>30, <1>31,
       <1>32, <1>33, <1>34, <1>35, <1>36, <1>37, <1>38, <1>39
    DEF Next, RunnerStep, CancelStep, LeaseStep

-----------------------------------------------------------------------------
(* What the transactions of a launch write of the attempts                  *)

\* The records and claims of the other attempts stay.
Spares(t) ==
    \A u \in Attempts \ {t} : attempt'[u] = attempt[u] /\ claim'[u] = claim[u]

\* An attempt moves to another state, and its claim with it.
Moves(t, state) ==
    /\ attempt'[t].state = state /\ claim'[t] = state
    /\ attempt'[t].owner = attempt[t].owner
    /\ attempt'[t].phase = attempt[t].phase /\ attempt'[t].kind = attempt[t].kind
    /\ Spares(t)

\* The reservation of an attempt is in another phase.
Phases(t, phase) ==
    /\ attempt'[t].state = attempt[t].state /\ claim'[t] = claim[t]
    /\ attempt'[t].owner = attempt[t].owner
    /\ attempt'[t].phase = phase /\ attempt'[t].kind = attempt[t].kind
    /\ Spares(t)

\* An attempt becomes uncertain.
Doubts(t, kind) ==
    /\ attempt'[t].state = "UNCERTAIN" /\ claim'[t] = "UNCERTAIN"
    /\ attempt'[t].owner = attempt[t].owner
    /\ attempt'[t].phase = attempt[t].phase /\ attempt'[t].kind = kind
    /\ Spares(t)

\* Runner r goes on with its attempt, or ends.
Turns(r, pc) ==
    /\ runner'[r].pc = pc /\ runner'[r].job = runner[r].job
    /\ runner'[r].att = runner[r].att
    /\ \A q \in Runners \ {r} : runner'[q] = runner[q]

Rests(r) ==
    /\ runner'[r] = Idle
    /\ \A q \in Runners \ {r} : runner'[q] = runner[q]

\* A record that is replaced is replaced alone.
LEMMA BecomesEffect ==
  ASSUME TypeOK, NEW t \in Attempts, NEW rec, Becomes(t, rec)
  PROVE  attempt'[t] = rec /\ \A u \in Attempts \ {t} : attempt'[u] = attempt[u]
  BY DEF TypeOK, Becomes

\* A runner that goes on goes on alone.
LEMMA GotoEffect ==
  ASSUME TypeOK, NEW r \in Runners, NEW pc, Goto(r, pc)
  PROVE  Turns(r, pc)
  BY DEF TypeOK, Goto, At, Job, Att, Turns

\* A runner that ends ends alone.
LEMMA FinishEffect ==
  ASSUME TypeOK, NEW r \in Runners, Finish(r)
  PROVE  Rests(r)
  BY DEF TypeOK, Finish, Rests

\* A runner that is idle has no attempt.
LEMMA IdleFields == Idle.pc = "idle" /\ Idle.att = None /\ Idle.job = None
  BY DEF Idle, At

\* The claims of the other attempts stay when one is written.
LEMMA ClaimEffect ==
  ASSUME TypeOK, NEW t \in Attempts, NEW state, claim' = [claim EXCEPT ![t] = state]
  PROVE  claim'[t] = state /\ \A u \in Attempts \ {t} : claim'[u] = claim[u]
  BY DEF TypeOK

\* An attempt and its claim move together.
LEMMA InStateMoves ==
  ASSUME TypeOK, NEW t \in Attempts, NEW state, Becomes(t, InState(t, state)),
         claim' = [claim EXCEPT ![t] = state]
  PROVE  Moves(t, state)
  <1>1. attempt'[t] = InState(t, state) /\ \A u \in Attempts \ {t} : attempt'[u] = attempt[u]
    BY BecomesEffect
  <1>2. claim'[t] = state /\ \A u \in Attempts \ {t} : claim'[u] = claim[u]
    BY ClaimEffect
  <1>q. QED
    BY <1>1, <1>2 DEF Moves, Spares, InState, Record, Owner

\* The phase of an attempt is written alone.
LEMMA InPhasePhases ==
  ASSUME TypeOK, NEW t \in Attempts, NEW phase, Becomes(t, InPhase(t, phase)),
         UNCHANGED claim
  PROVE  Phases(t, phase)
  <1>1. attempt'[t] = InPhase(t, phase) /\ \A u \in Attempts \ {t} : attempt'[u] = attempt[u]
    BY BecomesEffect
  <1>q. QED
    BY <1>1 DEF Phases, Spares, InPhase, Record, Owner

\* What is in doubt is in doubt alone.
LEMMA InDoubtDoubts ==
  ASSUME TypeOK, NEW t \in Attempts, NEW kind, Becomes(t, InDoubt(t, kind)),
         claim' = [claim EXCEPT ![t] = "UNCERTAIN"]
  PROVE  Doubts(t, kind)
  <1>1. attempt'[t] = InDoubt(t, kind) /\ \A u \in Attempts \ {t} : attempt'[u] = attempt[u]
    BY BecomesEffect
  <1>2. claim'[t] = "UNCERTAIN" /\ \A u \in Attempts \ {t} : claim'[u] = claim[u]
    BY ClaimEffect
  <1>q. QED
    BY <1>1, <1>2 DEF Doubts, Spares, InDoubt, Record, Owner

\* bind_launch_authorization moves the phase.
LEMMA BindEffect ==
  ASSUME Typed, NEW r \in Runners, BindAuthorization(r)
  PROVE  /\ Att(r) \in Attempts /\ Phases(Att(r), "AUTHORIZED") /\ Turns(r, "claim")
         /\ runner[r].pc = "bind" /\ attempt[Att(r)].state = "RESERVED"
         /\ UNCHANGED <<workspace, usage, canceller, external, stopped>>
  <1>1. Att(r) \in Attempts /\ TypeOK
    BY DEF Typed, RunnersTyped, BindAuthorization, WithAttempt, Guarded
  <1>2. Becomes(Att(r), InPhase(Att(r), "AUTHORIZED")) /\ UNCHANGED claim /\ Goto(r, "claim")
    BY DEF BindAuthorization
  <1>q. QED
    BY <1>1, <1>2, InPhasePhases, GotoEffect DEF BindAuthorization

\* claim_launch moves the attempt to its launch.
LEMMA ClaimLaunchEffect ==
  ASSUME Typed, NEW r \in Runners, ClaimLaunch(r)
  PROVE  /\ Att(r) \in Attempts /\ Moves(Att(r), "LAUNCH_CLAIMED") /\ Turns(r, "own2")
         /\ runner[r].pc = "claim" /\ attempt[Att(r)].state = "RESERVED"
         /\ claim[Att(r)] = "RESERVED"
         /\ UNCHANGED <<workspace, usage, canceller, external, stopped>>
  <1>1. Att(r) \in Attempts /\ TypeOK
    BY DEF Typed, RunnersTyped, ClaimLaunch, WithAttempt
  <1>2. /\ Becomes(Att(r), InState(Att(r), "LAUNCH_CLAIMED"))
        /\ claim' = [claim EXCEPT ![Att(r)] = "LAUNCH_CLAIMED"] /\ Goto(r, "own2")
    BY DEF ClaimLaunch
  <1>q. QED
    BY <1>1, <1>2, InStateMoves, GotoEffect DEF ClaimLaunch

\* mark_running moves it to running.
LEMMA MarkRunningEffect ==
  ASSUME Typed, NEW r \in Runners, MarkRunning(r)
  PROVE  /\ Att(r) \in Attempts /\ Moves(Att(r), "RUNNING") /\ Turns(r, "complete")
         /\ runner[r].pc = "running" /\ attempt[Att(r)].state = "LAUNCH_CLAIMED"
         /\ claim[Att(r)] = "LAUNCH_CLAIMED"
         /\ UNCHANGED <<workspace, usage, canceller, external, stopped>>
  <1>1. Att(r) \in Attempts /\ TypeOK
    BY DEF Typed, RunnersTyped, MarkRunning, WithAttempt
  <1>2. /\ Becomes(Att(r), InState(Att(r), "RUNNING"))
        /\ claim' = [claim EXCEPT ![Att(r)] = "RUNNING"] /\ Goto(r, "complete")
    BY DEF MarkRunning
  <1>q. QED
    BY <1>1, <1>2, InStateMoves, GotoEffect DEF MarkRunning

\* complete_attempt moves it to completed, and consumes the usage of its assignment.
LEMMA CompleteEffect ==
  ASSUME Typed, ClaimMatchesAttempt, NEW r \in Runners, CompleteAttempt(r)
  PROVE  /\ Att(r) \in Attempts /\ Moves(Att(r), "COMPLETED") /\ Rests(r)
         /\ runner[r].pc = "complete" /\ attempt[Att(r)].state = "RUNNING"
         /\ claim[Att(r)] = "RUNNING"
         /\ \A a \in Assignments \ {Owner(Att(r))} : usage'[a] = usage[a]
         /\ UNCHANGED <<workspace, canceller, external, stopped>>
  <1>1. Att(r) \in Attempts /\ TypeOK
    BY DEF Typed, RunnersTyped, CompleteAttempt, WithAttempt
  <1>2. attempt[Att(r)].state = "RUNNING"
    BY DEF CompleteAttempt, Completable
  <1>3. claim[Att(r)] = "RUNNING"
    BY <1>1, <1>2 DEF ClaimMatchesAttempt
  <1>4. claim' = [claim EXCEPT ![Att(r)] = "COMPLETED"]
    BY <1>3 DEF CompleteAttempt
  <1>5. /\ Becomes(Att(r), InState(Att(r), "COMPLETED"))
        /\ Finish(r) /\ ConsumeUsage(Owner(Att(r)))
        /\ runner[r].pc = "complete"
        /\ UNCHANGED <<workspace, canceller, external, stopped>>
    BY DEF CompleteAttempt
  <1>6. \A a \in Assignments \ {Owner(Att(r))} : usage'[a] = usage[a]
    BY <1>1, <1>5 DEF ConsumeUsage, TypeOK
  <1>7. Moves(Att(r), "COMPLETED") /\ Rests(r)
    BY <1>1, <1>4, <1>5, InStateMoves, FinishEffect
  <1>q. QED
    BY <1>1, <1>2, <1>3, <1>5, <1>6, <1>7

\* mark_authority_reservation_uncertain leaves the attempt in doubt.
LEMMA ReservationDoubtEffect ==
  ASSUME Typed, NEW r \in Runners, MarkReservationUncertain(r)
  PROVE  /\ Att(r) \in Attempts /\ Rests(r)
         /\ Doubts(Att(r), "AUTHORITY_RESERVATION_OUTCOME_AMBIGUOUS")
         /\ runner[r].pc = "ambiguous" /\ attempt[Att(r)].state = "RESERVED"
         /\ attempt[Att(r)].phase # "LOCAL_PREPARED"
         /\ claim[Att(r)] = "RESERVED" /\ KeepUncertain({Owner(Att(r))})
         /\ UNCHANGED <<usage, canceller, external, stopped>>
  <1>1. Att(r) \in Attempts /\ TypeOK
    BY DEF Typed, RunnersTyped, MarkReservationUncertain, WithAttempt
  <1>2. /\ Becomes(Att(r), InDoubt(Att(r), "AUTHORITY_RESERVATION_OUTCOME_AMBIGUOUS"))
        /\ claim' = [claim EXCEPT ![Att(r)] = "UNCERTAIN"]
        /\ KeepUncertain({Owner(Att(r))}) /\ Finish(r)
        /\ runner[r].pc = "ambiguous"
        /\ UNCHANGED <<usage, canceller, external, stopped>>
    BY DEF MarkReservationUncertain
  <1>3. /\ attempt[Att(r)].state = "RESERVED"
        /\ attempt[Att(r)].phase # "LOCAL_PREPARED" /\ claim[Att(r)] = "RESERVED"
    BY DEF MarkReservationUncertain, ReservationAmbiguous
  <1>q. QED
    BY <1>1, <1>2, <1>3, InDoubtDoubts, FinishEffect

\* The transactions of a launch that write its attempt once it is reserved.
LaunchStep(r) ==
    \/ BindAuthorization(r) \/ MarkReservationUncertain(r) \/ ClaimLaunch(r)
    \/ MarkRunning(r) \/ CompleteAttempt(r)

\* An attempt in flight is written, and no other.
Writes(t) ==
    /\ attempt[t].state \in InFlight /\ claim[t] \in InFlight
    /\ attempt'[t].state \in InFlight \cup {"UNCERTAIN", "COMPLETED"}
    /\ attempt'[t].owner = attempt[t].owner
    /\ Spares(t)
    /\ UNCHANGED <<canceller, stopped>>

\* Each of them writes one attempt, which is in flight.
LEMMA LaunchWrites ==
  ASSUME Typed, ClaimMatchesAttempt, NEW r \in Runners, LaunchStep(r)
  PROVE  \E t \in Attempts : Writes(t)
  <1>1. ASSUME BindAuthorization(r)
        PROVE  Att(r) \in Attempts /\ Writes(Att(r))
    <2>1. claim[Att(r)] = "RESERVED"
      BY <1>1 DEF BindAuthorization
    <2>q. QED
      BY <1>1, <2>1, BindEffect DEF Writes, Phases, InFlight
  <1>2. ASSUME MarkReservationUncertain(r)
        PROVE  Att(r) \in Attempts /\ Writes(Att(r))
    BY <1>2, ReservationDoubtEffect DEF Writes, Doubts, InFlight
  <1>3. ASSUME ClaimLaunch(r)
        PROVE  Att(r) \in Attempts /\ Writes(Att(r))
    BY <1>3, ClaimLaunchEffect DEF Writes, Moves, InFlight
  <1>4. ASSUME MarkRunning(r)
        PROVE  Att(r) \in Attempts /\ Writes(Att(r))
    BY <1>4, MarkRunningEffect DEF Writes, Moves, InFlight
  <1>5. ASSUME CompleteAttempt(r)
        PROVE  Att(r) \in Attempts /\ Writes(Att(r))
    BY <1>5, CompleteEffect DEF Writes, Moves, InFlight
  <1>q. QED
    BY <1>1, <1>2, <1>3, <1>4, <1>5 DEF LaunchStep

\* The transactions of a cancellation that write its attempt.
CancellingStep(t) ==
    \/ ClaimCancellation(t) \/ CompleteCancellation(t)
    \/ MarkCancellationUncertain(t) \/ ReconcileCancellation(t)

\* An attempt that was executed is on its way to being cancelled, and no other
\* attempt is written.
Cancels(t) ==
    /\ \/ attempt[t].state \in {"RUNNING", "CANCELLATION_CLAIMED"}
       \/ attempt[t].kind = "CANCELLATION_OUTCOME_AMBIGUOUS"
    /\ attempt[t].state # "ABSENT"
    /\ attempt'[t].state \in {"CANCELLATION_CLAIMED", "UNCERTAIN", "CANCELED"}
    /\ claim'[t] = IF attempt'[t].state = "CANCELLATION_CLAIMED"
                     THEN "RUNNING" ELSE attempt'[t].state
    /\ attempt'[t].owner = attempt[t].owner
    /\ attempt'[t].phase = attempt[t].phase
    /\ Spares(t)
    /\ UNCHANGED <<runner, external>>

\* Each of them moves its attempt so.
LEMMA CancellationWrites ==
  ASSUME TypeOK, NEW t \in Attempts, CancellingStep(t)
  PROVE  Cancels(t)
  <1>1. ASSUME NEW state \in {"CANCELLATION_CLAIMED", "CANCELED"},
               Becomes(t, InState(t, state))
        PROVE  /\ attempt'[t].state = state /\ attempt'[t].owner = attempt[t].owner
               /\ attempt'[t].phase = attempt[t].phase
               /\ \A u \in Attempts \ {t} : attempt'[u] = attempt[u]
    BY <1>1, BecomesEffect DEF InState, Record, Owner
  <1>2. ASSUME ClaimCancellation(t)
        PROVE  Cancels(t)
    <2>1. /\ Becomes(t, InState(t, "CANCELLATION_CLAIMED"))
          /\ attempt[t].state = "RUNNING" /\ claim[t] = "RUNNING"
          /\ UNCHANGED <<claim, runner, external>>
      BY <1>2 DEF ClaimCancellation
    <2>q. QED
      BY <1>1, <2>1 DEF Cancels, Spares
  <1>3. ASSUME CompleteCancellation(t) \/ ReconcileCancellation(t)
        PROVE  Cancels(t)
    <2>1. /\ Becomes(t, InState(t, "CANCELED"))
          /\ claim' = [claim EXCEPT ![t] = "CANCELED"]
          /\ UNCHANGED <<runner, external>>
      BY <1>3 DEF CompleteCancellation, ReconcileCancellation, Cancel
    <2>2. \/ attempt[t].state = "CANCELLATION_CLAIMED"
          \/ /\ attempt[t].state = "UNCERTAIN"
             /\ attempt[t].kind = "CANCELLATION_OUTCOME_AMBIGUOUS"
      BY <1>3 DEF CompleteCancellation, ReconcileCancellation, CancellationClaimed
    <2>3. claim'[t] = "CANCELED" /\ \A u \in Attempts \ {t} : claim'[u] = claim[u]
      BY <2>1, ClaimEffect
    <2>q. QED
      BY <1>1, <2>1, <2>2, <2>3 DEF Cancels, Spares
  <1>4. ASSUME MarkCancellationUncertain(t)
        PROVE  Cancels(t)
    <2>1. /\ Becomes(t, InDoubt(t, "CANCELLATION_OUTCOME_AMBIGUOUS"))
          /\ claim' = [claim EXCEPT ![t] = "UNCERTAIN"]
          /\ attempt[t].state = "CANCELLATION_CLAIMED"
          /\ UNCHANGED <<runner, external>>
      BY <1>4 DEF MarkCancellationUncertain, CancellationClaimed
    <2>q. QED
      BY <2>1, InDoubtDoubts DEF Cancels, Doubts
  <1>q. QED
    BY <1>2, <1>3, <1>4 DEF CancellingStep

\* What recovery may make of an attempt: it drops what never left Keeper and
\* leaves the rest in doubt.
Recovers(t) ==
    /\ attempt'[t].owner = attempt[t].owner
    /\ attempt'[t].phase = attempt[t].phase
    /\ \/ attempt'[t] = attempt[t] /\ claim'[t] = claim[t]
       \/ /\ attempt[t].state = "RESERVED" /\ attempt[t].phase = "LOCAL_PREPARED"
          /\ attempt'[t].state = "FAILED" /\ claim'[t] = "FAILED"
          /\ attempt'[t].kind = attempt[t].kind
       \/ /\ attempt[t].state \in InFlight \cup {"CANCELLATION_CLAIMED"}
          /\ attempt[t].state = "RESERVED" => attempt[t].phase # "LOCAL_PREPARED"
          /\ claim[t] \in InFlight
          /\ attempt'[t].state = "UNCERTAIN" /\ claim'[t] = "UNCERTAIN"
          /\ attempt'[t].kind = "CANCELLATION_OUTCOME_AMBIGUOUS" =>
                attempt[t].state = "CANCELLATION_CLAIMED"

\* It does so with every attempt.
LEMMA RecoverEffect ==
  ASSUME ClaimMatchesAttempt, Recover, NEW t \in Attempts
  PROVE  Recovers(t)
  <1>1. /\ claim[t] = "RESERVED" <=> attempt[t].state = "RESERVED"
        /\ claim[t] \in InFlight <=>
              attempt[t].state \in InFlight \cup {"CANCELLATION_CLAIMED"}
    BY DEF ClaimMatchesAttempt, InFlight
  <1>2. /\ attempt' = [u \in Attempts |->
              IF u \in PreLaunch THEN InState(u, "FAILED")
              ELSE IF u \in Interrupted \ PreLaunch
                THEN InDoubt(u, RecoveredKind(u)) ELSE attempt[u]]
        /\ claim' = [u \in Attempts |->
              IF u \in PreLaunch THEN "FAILED"
              ELSE IF u \in Interrupted \ PreLaunch THEN "UNCERTAIN" ELSE claim[u]]
    BY DEF Recover
  <1>3. CASE t \in PreLaunch
    BY <1>1, <1>2, <1>3 DEF Recovers, PreLaunch, InState, Record, Owner
  <1>4. CASE t \in Interrupted \ PreLaunch
    BY <1>1, <1>2, <1>4
    DEF Recovers, PreLaunch, Interrupted, InDoubt, Record, RecoveredKind, Owner
  <1>5. CASE t \notin Interrupted
    BY <1>2, <1>5 DEF Recovers, PreLaunch
  <1>q. QED
    BY <1>3, <1>4, <1>5

-----------------------------------------------------------------------------
(* Attempts, claims and the outside world                                   *)

\* Nothing is on record and nothing has happened outside.
LEMMA InitConsistent == Init => Consistent
  BY LaunchConstants DEF Init, Consistent, ClaimMatchesAttempt, Owned, Driving, Fits,
     Distinct, History, NoAttempt, Idle, At, Att, Owner, WithAttempt, BeyondLocal,
     Guarded

\* What a runner that goes on or ends leaves of who drives which attempt.
LEMMA RunnersApart ==
  ASSUME Distinct, NEW r \in Runners, Rests(r) \/ \E pc \in RunnerPC : Turns(r, pc)
  PROVE  Distinct'
  <1>1. \A q \in Runners : Att(q)' = Att(q) \/ Att(q)' = None
    BY IdleFields DEF Rests, Turns, Att
  <1>q. QED
    BY <1>1, LaunchConstants DEF Distinct

\* The launch of an attempt by its runner keeps what is known of every attempt.
LEMMA MovesConsistent ==
  ASSUME Typed, Consistent, NEW r \in Runners,
         NEW state \in {"LAUNCH_CLAIMED", "RUNNING", "COMPLETED"},
         runner[r].pc \in {"claim", "running", "complete"},
         state = "LAUNCH_CLAIMED" <=> runner[r].pc = "claim",
         Moves(Att(r), state), UNCHANGED external,
         \/ Rests(r)
         \/ Turns(r, "own2") /\ runner[r].pc = "claim"
         \/ Turns(r, "complete") /\ runner[r].pc = "running"
  PROVE  Consistent'
  <1> DEFINE t == Att(r)
  <1>1. /\ t \in Attempts
        /\ attempt[t].state # "ABSENT" /\ attempt[t].phase # "LOCAL_PREPARED"
        /\ runner[r].pc \in {"running", "complete"} => external[t] = "EXECUTED"
        /\ runner[r].pc = "claim" => external[t] # "EXECUTED"
    BY DEF Typed, RunnersTyped, Consistent, Driving, Fits, BeyondLocal, WithAttempt
  <1> HIDE DEF t
  <1>2. /\ Moves(t, state) /\ \A q \in Runners : q # r /\ Att(q) \in Attempts => Att(q) # t
    BY <1>1 DEF Consistent, Distinct, t
  <1>3. ClaimMatchesAttempt'
    BY <1>2 DEF Consistent, ClaimMatchesAttempt, Moves, Spares
  <1>4. Owned'
    BY <1>1, <1>2 DEF Consistent, Owned, Owner, Moves, Spares
  <1>5. Driving'
    <2>1. ASSUME NEW q \in Runners, q # r, runner[q].pc \in WithAttempt
          PROVE  attempt'[Att(q)] = attempt[Att(q)] /\ runner'[q] = runner[q]
      BY <1>2, <2>1 DEF Typed, RunnersTyped, Moves, Spares, Rests, Turns
    <2>2. \A q \in Runners : q # r => runner'[q] = runner[q]
      BY DEF Rests, Turns
    <2>3. CASE Rests(r)
      <3>1. runner'[r].pc = "idle"
        BY <2>3, IdleFields DEF Rests
      <3>q. QED
        BY <2>1, <2>2, <3>1 DEF Consistent, Driving, Fits, Att, BeyondLocal, WithAttempt, Guarded
    <2>4. CASE Turns(r, "own2") /\ runner[r].pc = "claim"
      <3>1. runner'[r].pc = "own2" /\ Att(r)' = t
        BY <2>4 DEF Turns, Att, t
      <3>2. /\ attempt'[t].state = "LAUNCH_CLAIMED" /\ attempt'[t].phase # "LOCAL_PREPARED"
            /\ external'[t] # "EXECUTED"
        BY <1>1, <1>2, <2>4 DEF Moves
      <3>q. QED
        BY <2>1, <2>2, <3>1, <3>2
        DEF Consistent, Driving, Fits, Att, BeyondLocal, WithAttempt, Guarded
    <2>5. CASE Turns(r, "complete") /\ runner[r].pc = "running"
      <3>1. runner'[r].pc = "complete" /\ Att(r)' = t
        BY <2>5 DEF Turns, Att, t
      <3>2. /\ attempt'[t].state \in {"RUNNING", "COMPLETED"}
            /\ attempt'[t].phase # "LOCAL_PREPARED" /\ external'[t] = "EXECUTED"
        BY <1>1, <1>2, <2>5 DEF Moves
      <3>q. QED
        BY <2>1, <2>2, <3>1, <3>2
        DEF Consistent, Driving, Fits, Att, BeyondLocal, WithAttempt, Guarded
    <2>q. QED
      BY <2>3, <2>4, <2>5
  <1>6. Distinct'
    <2>1. Rests(r) \/ \E pc \in RunnerPC : Turns(r, pc)
      BY DEF RunnerPC
    <2>q. QED
      BY <2>1, RunnersApart DEF Consistent
  <1>7. History'
    BY <1>1, <1>2 DEF Consistent, History, Moves, Spares
  <1>q. QED
    BY <1>3, <1>4, <1>5, <1>6, <1>7 DEF Consistent

\* A reservation that becomes uncertain keeps what is known of every attempt.
LEMMA DoubtConsistent ==
  ASSUME Typed, Consistent, NEW r \in Runners, Att(r) \in Attempts,
         Doubts(Att(r), "AUTHORITY_RESERVATION_OUTCOME_AMBIGUOUS"),
         runner[r].pc = "ambiguous", Rests(r), UNCHANGED external
  PROVE  Consistent'
  <1> DEFINE t == Att(r)
  <1>1. /\ t \in Attempts
        /\ attempt[t].state # "ABSENT" /\ attempt[t].phase # "LOCAL_PREPARED"
        /\ external[t] # "EXECUTED"
    BY DEF Consistent, Driving, Fits, BeyondLocal, WithAttempt
  <1> HIDE DEF t
  <1>2. /\ Doubts(t, "AUTHORITY_RESERVATION_OUTCOME_AMBIGUOUS")
        /\ \A q \in Runners : q # r /\ Att(q) \in Attempts => Att(q) # t
    BY <1>1 DEF Consistent, Distinct, t
  <1>3. ClaimMatchesAttempt'
    BY <1>2 DEF Consistent, ClaimMatchesAttempt, Doubts, Spares
  <1>4. Owned'
    BY <1>1, <1>2 DEF Consistent, Owned, Owner, Doubts, Spares
  <1>5. Driving'
    <2>1. ASSUME NEW q \in Runners, q # r, runner[q].pc \in WithAttempt
          PROVE  attempt'[Att(q)] = attempt[Att(q)]
      BY <1>2, <2>1 DEF Typed, RunnersTyped, Doubts, Spares
    <2>2. /\ \A q \in Runners : q # r => runner'[q] = runner[q]
          /\ runner'[r].pc = "idle"
      BY IdleFields DEF Rests
    <2>q. QED
      BY <2>1, <2>2 DEF Consistent, Driving, Fits, Att, BeyondLocal, WithAttempt, Guarded
  <1>6. Distinct'
    BY RunnersApart DEF Consistent
  <1>7. History'
    BY <1>1, <1>2 DEF Consistent, History, Doubts, Spares
  <1>q. QED
    BY <1>3, <1>4, <1>5, <1>6, <1>7 DEF Consistent

\* A phase that is written keeps what is known of every attempt.
LEMMA PhasesConsistent ==
  ASSUME Typed, Consistent, NEW r \in Runners, NEW phase, NEW pc,
         Att(r) \in Attempts, attempt[Att(r)].state = "RESERVED",
         external[Att(r)] # "EXECUTED", phase # "LOCAL_PREPARED",
         pc \in {"own1", "authorize", "claim"},
         Phases(Att(r), phase), Turns(r, pc), UNCHANGED external
  PROVE  Consistent'
  <1> DEFINE t == Att(r)
  <1>1. t \in Attempts /\ attempt[t].state = "RESERVED" /\ external[t] # "EXECUTED"
    OBVIOUS
  <1> HIDE DEF t
  <1>2. /\ Phases(t, phase)
        /\ \A q \in Runners : q # r /\ Att(q) \in Attempts => Att(q) # t
    BY <1>1 DEF Consistent, Distinct, t
  <1>3. ClaimMatchesAttempt'
    BY <1>2 DEF Consistent, ClaimMatchesAttempt, Phases, Spares
  <1>4. Owned'
    BY <1>1, <1>2 DEF Consistent, Owned, Owner, Phases, Spares
  <1>5. Driving'
    <2>1. ASSUME NEW q \in Runners, q # r, runner[q].pc \in WithAttempt
          PROVE  attempt'[Att(q)] = attempt[Att(q)]
      BY <1>2, <2>1 DEF Typed, RunnersTyped, Phases, Spares
    <2>2. /\ \A q \in Runners : q # r => runner'[q] = runner[q]
          /\ runner'[r].pc = pc /\ Att(r)' = t
      BY DEF Turns, Att, t
    <2>3. /\ attempt'[t].state # "ABSENT" /\ attempt'[t].phase # "LOCAL_PREPARED"
          /\ external'[t] # "EXECUTED"
      BY <1>1, <1>2 DEF Phases
    <2>q. QED
      BY <2>1, <2>2, <2>3
      DEF Consistent, Driving, Fits, Att, BeyondLocal, WithAttempt, Guarded
  <1>6. Distinct'
    <2>1. \E to \in RunnerPC : Turns(r, to)
      BY DEF RunnerPC, Guarded
    <2>q. QED
      BY <2>1, RunnersApart DEF Consistent
  <1>7. History'
    BY <1>1, <1>2 DEF Consistent, History, Phases, Spares
  <1>q. QED
    BY <1>3, <1>4, <1>5, <1>6, <1>7 DEF Consistent

\* A step that writes no attempt and calls nobody keeps what is known of every
\* attempt when its runner has none, or no use for the one it has.
LEMMA ApartConsistent ==
  ASSUME Typed, Consistent, NEW r \in Runners,
         UNCHANGED <<attempt, claim, external>>,
         \A q \in Runners \ {r} : runner'[q] = runner[q],
         runner'[r].pc \notin WithAttempt,
         runner'[r].att = runner[r].att \/ runner'[r].att = None
  PROVE  Consistent'
  <1>1. Distinct'
    <2>1. \A q \in Runners : Att(q)' = Att(q) \/ Att(q)' = None
      BY DEF Att
    <2>q. QED
      BY <2>1, LaunchConstants DEF Consistent, Distinct
  <1>2. Driving'
    BY DEF Consistent, Driving, Fits, Att, BeyondLocal, WithAttempt, Guarded
  <1>3. ClaimMatchesAttempt' /\ Owned' /\ History'
    BY DEF Consistent, ClaimMatchesAttempt, Owned, Owner, History
  <1>q. QED
    BY <1>1, <1>2, <1>3 DEF Consistent

\* A runner that goes on knows what its next step relies on.
LEMMA TurnsConsistent ==
  ASSUME Typed, Consistent, NEW r \in Runners, NEW pc \in RunnerPC, Turns(r, pc),
         Fits(pc, attempt[Att(r)], external[Att(r)]),
         UNCHANGED <<attempt, claim, external>>
  PROVE  Consistent'
  <1>1. Distinct'
    BY RunnersApart DEF Consistent
  <1>2. Driving'
    <2>1. ASSUME NEW q \in Runners
          PROVE  Fits(runner'[q].pc, attempt[Att(q)'], external[Att(q)'])
      <3>1. CASE q = r
        BY <3>1 DEF Turns, Att
      <3>2. CASE q # r
        BY <3>2 DEF Turns, Att, Consistent, Driving
      <3>q. QED
        BY <3>1, <3>2
    <2>q. QED
      BY <2>1 DEF Driving, Att
  <1>3. ClaimMatchesAttempt' /\ Owned' /\ History'
    BY DEF Consistent, ClaimMatchesAttempt, Owned, Owner, History
  <1>q. QED
    BY <1>1, <1>2, <1>3 DEF Consistent

\* Nor does a step of anybody else change it.
LEMMA StillConsistent ==
  ASSUME Consistent, UNCHANGED <<attempt, claim, external, runner>>
  PROVE  Consistent'
  BY DEF Consistent, ClaimMatchesAttempt, Owned, Owner, Driving, Fits, Att,
         Distinct, History

\* A call out of Keeper changes only what happened to the attempt of its
\* runner, and an attempt is executed only after its launch was claimed.
LEMMA CallConsistent ==
  ASSUME Typed, Consistent, NEW r \in Runners, NEW outside \in ExternalState,
         runner[r].pc \in {"reserve", "authorize", "launch"},
         external' = [external EXCEPT ![Att(r)] = outside],
         outside = "EXECUTED" <=> runner[r].pc = "launch",
         UNCHANGED <<attempt, claim>>,
         \/ Rests(r)
         \/ \E pc \in {"mark", "bind", "ambiguous", "running"} :
               Turns(r, pc) /\ (pc = "running" <=> runner[r].pc = "launch")
  PROVE  Consistent'
  <1> DEFINE t == Att(r)
  <1>1. /\ t \in Attempts
        /\ attempt[t].state # "ABSENT" /\ attempt[t].phase # "LOCAL_PREPARED"
        /\ runner[r].pc = "launch" => attempt[t].state \notin {"RESERVED", "FAILED"}
        /\ external[t] # "EXECUTED"
    BY DEF Typed, RunnersTyped, Consistent, Driving, Fits, BeyondLocal, WithAttempt,
           Guarded
  <1> HIDE DEF t
  <1>2. /\ \A q \in Runners : q # r /\ Att(q) \in Attempts => Att(q) # t
        /\ external'[t] = outside
        /\ \A u \in Attempts \ {t} : external'[u] = external[u]
    BY <1>1 DEF Consistent, Distinct, t, Typed, TypeOK
  <1>3. Distinct'
    <2>1. Rests(r) \/ \E to \in RunnerPC : Turns(r, to)
      BY DEF RunnerPC, Guarded
    <2>q. QED
      BY <2>1, RunnersApart DEF Consistent
  <1>4. Driving'
    <2>1. ASSUME NEW q \in Runners, q # r
          PROVE  Fits(runner'[q].pc, attempt'[Att(q)'], external'[Att(q)'])
      <3>1. runner'[q] = runner[q] /\ Att(q)' = Att(q)
        BY <2>1 DEF Rests, Turns, Att
      <3>2. Fits(runner[q].pc, attempt[Att(q)], external[Att(q)])
        BY DEF Consistent, Driving
      <3>3. runner[q].pc \in WithAttempt => external'[Att(q)] = external[Att(q)]
        BY <1>2, <2>1 DEF Typed, RunnersTyped
      <3>q. QED
        BY <3>1, <3>2, <3>3 DEF Fits, BeyondLocal, WithAttempt, Guarded
    <2>2. Fits(runner'[r].pc, attempt'[Att(r)'], external'[Att(r)'])
      <3>1. CASE Rests(r)
        BY <3>1, IdleFields DEF Rests, Fits, BeyondLocal, WithAttempt, Guarded
      <3>2. CASE ~Rests(r)
        <4>1. /\ Att(r)' = t /\ runner'[r].pc \in {"mark", "bind", "ambiguous", "running"}
              /\ runner'[r].pc = "running" <=> runner[r].pc = "launch"
          BY <3>2 DEF Turns, Att, t
        <4>q. QED
          BY <1>1, <1>2, <4>1 DEF Fits, BeyondLocal, WithAttempt, Guarded
      <3>q. QED
        BY <3>1, <3>2
    <2>q. QED
      BY <2>1, <2>2 DEF Driving, Att
  <1>5. ClaimMatchesAttempt' /\ Owned'
    BY DEF Consistent, ClaimMatchesAttempt, Owned, Owner
  <1>6. History'
    BY <1>1, <1>2 DEF Consistent, History
  <1>q. QED
    BY <1>3, <1>4, <1>5, <1>6 DEF Consistent

\* A transaction of a launch keeps what is known of every attempt.
LEMMA LaunchConsistent ==
  ASSUME Typed, Consistent, NEW r \in Runners, LaunchStep(r)
  PROVE  Consistent'
  <1>1. ASSUME BindAuthorization(r) PROVE Consistent'
    <2>1. /\ Att(r) \in Attempts /\ attempt[Att(r)].state = "RESERVED"
          /\ Phases(Att(r), "AUTHORIZED") /\ Turns(r, "claim")
          /\ runner[r].pc = "bind" /\ UNCHANGED external
      BY <1>1, BindEffect
    <2>2. external[Att(r)] # "EXECUTED"
      BY <2>1 DEF Consistent, Driving, Fits, WithAttempt, Guarded
    <2>q. QED
      BY <2>1, <2>2, PhasesConsistent
  <1>2. ASSUME MarkReservationUncertain(r) PROVE Consistent'
    BY <1>2, ReservationDoubtEffect, DoubtConsistent
  <1>3. ASSUME ClaimLaunch(r) PROVE Consistent'
    <2>1. /\ Moves(Att(r), "LAUNCH_CLAIMED") /\ Turns(r, "own2")
          /\ runner[r].pc = "claim" /\ UNCHANGED external
      BY <1>3, ClaimLaunchEffect
    <2>q. QED
      BY <2>1, MovesConsistent
  <1>4. ASSUME MarkRunning(r) PROVE Consistent'
    <2>1. /\ Moves(Att(r), "RUNNING") /\ Turns(r, "complete")
          /\ runner[r].pc = "running" /\ UNCHANGED external
      BY <1>4, MarkRunningEffect
    <2>q. QED
      BY <2>1, MovesConsistent
  <1>5. ASSUME CompleteAttempt(r) PROVE Consistent'
    <2>1. /\ Moves(Att(r), "COMPLETED") /\ Rests(r)
          /\ runner[r].pc = "complete" /\ UNCHANGED external
      BY <1>5, CompleteEffect DEF Consistent
    <2>q. QED
      BY <2>1, MovesConsistent
  <1>q. QED
    BY <1>1, <1>2, <1>3, <1>4, <1>5 DEF LaunchStep

\* A transaction of a cancellation keeps what is known of every attempt.
LEMMA CancellationConsistent ==
  ASSUME Typed, Consistent, NEW t \in Attempts, CancellingStep(t)
  PROVE  Consistent'
  <1>1. Cancels(t)
    BY CancellationWrites DEF Typed
  <1>2. external[t] = "EXECUTED" /\ attempt[t].phase # "LOCAL_PREPARED"
    BY <1>1 DEF Consistent, History, Cancels
  <1>3. ClaimMatchesAttempt'
    BY <1>1 DEF Consistent, ClaimMatchesAttempt, Cancels, Spares
  <1>4. Owned'
    BY <1>1 DEF Consistent, Owned, Owner, Cancels, Spares
  <1>5. Driving'
    <2>1. \A u \in Attempts :
             /\ attempt[u].state # "ABSENT" => attempt'[u].state # "ABSENT"
             /\ attempt'[u].phase = attempt[u].phase
             /\ attempt'[u].state \in {"RESERVED", "FAILED"}
                   => attempt[u].state \in {"RESERVED", "FAILED"}
      BY <1>1 DEF Cancels, Spares
    <2>2. \A r \in Runners : runner[r].pc \in WithAttempt => Att(r) \in Attempts
      BY DEF Typed, RunnersTyped
    <2>3. UNCHANGED <<runner, external>>
      BY <1>1 DEF Cancels
    <2>q. QED
      BY <2>1, <2>2, <2>3
      DEF Consistent, Driving, Fits, Att, BeyondLocal, WithAttempt, Guarded
  <1>6. Distinct'
    BY <1>1 DEF Consistent, Distinct, Att, Cancels
  <1>7. History'
    BY <1>1, <1>2 DEF Consistent, History, Cancels, Spares
  <1>q. QED
    BY <1>3, <1>4, <1>5, <1>6, <1>7 DEF Consistent

\* The insertion of an attempt is the first that Keeper records of it.
LEMMA InsertConsistent ==
  ASSUME Typed, Consistent, NEW r \in Runners, NEW t \in Attempts,
         NEW a \in Assignments, NEW phase, NEW pc \in RunnerPC,
         attempt[t].state = "ABSENT", external[t] # "EXECUTED",
         external[t] # "NONE" => phase # "LOCAL_PREPARED",
         \A q \in Runners \ {r} : Att(q) # t,
         Becomes(t, Record("RESERVED", a, phase, "NONE")),
         claim' = [claim EXCEPT ![t] = "RESERVED"], UNCHANGED external,
         runner'[r].pc = pc, runner'[r].att = t,
         \A q \in Runners \ {r} : runner'[q] = runner[q],
         \/ pc = "flight"
         \/ pc = "claim" /\ phase # "LOCAL_PREPARED"
  PROVE  Consistent'
  <1>1. /\ attempt'[t].state = "RESERVED" /\ attempt'[t].owner = a
        /\ attempt'[t].phase = phase /\ attempt'[t].kind = "NONE"
        /\ \A u \in Attempts \ {t} : attempt'[u] = attempt[u]
    <2>1. /\ attempt'[t] = Record("RESERVED", a, phase, "NONE")
          /\ \A u \in Attempts \ {t} : attempt'[u] = attempt[u]
      BY BecomesEffect DEF Typed
    <2>q. QED
      BY <2>1 DEF Record
  <1>2. claim'[t] = "RESERVED" /\ \A u \in Attempts \ {t} : claim'[u] = claim[u]
    BY ClaimEffect DEF Typed
  <1>3. ClaimMatchesAttempt'
    BY <1>1, <1>2 DEF Consistent, ClaimMatchesAttempt
  <1>4. Owned'
    BY <1>1 DEF Consistent, Owned, Owner
  <1>5. Driving'
    <2>1. ASSUME NEW q \in Runners, q # r
          PROVE  Fits(runner'[q].pc, attempt'[Att(q)'], external'[Att(q)'])
      <3>1. runner'[q] = runner[q] /\ Att(q)' = Att(q) /\ Att(q) # t
        BY <2>1 DEF Att
      <3>2. Fits(runner[q].pc, attempt[Att(q)], external[Att(q)])
        BY DEF Consistent, Driving
      <3>3. runner[q].pc \in WithAttempt => attempt'[Att(q)] = attempt[Att(q)]
        BY <1>1, <3>1 DEF Typed, RunnersTyped
      <3>q. QED
        BY <3>1, <3>2, <3>3 DEF Fits, BeyondLocal, WithAttempt, Guarded
    <2>2. Fits(pc, attempt'[t], external'[t])
      BY <1>1 DEF Fits, BeyondLocal, WithAttempt, Guarded
    <2>q. QED
      BY <2>1, <2>2 DEF Driving, Att
  <1>6. Distinct'
    <2>1. Att(r)' = t /\ \A q \in Runners \ {r} : Att(q)' = Att(q)
      BY DEF Att
    <2>q. QED
      BY <2>1 DEF Consistent, Distinct
  <1>7. History'
    BY <1>1 DEF Consistent, History
  <1>q. QED
    BY <1>3, <1>4, <1>5, <1>6, <1>7 DEF Consistent

\* AuthorityService authorizes an attempt that no coordinator has and that
\* Keeper has no record of.
LEMMA DirectConsistent ==
  ASSUME Typed, Consistent, NEW r \in Runners, NEW t \in Attempts, AuthorizeDirect(r, t)
  PROVE  Consistent'
  <1>1. /\ attempt[t].state = "ABSENT" /\ external[t] = "NONE"
        /\ \A q \in Runners : Att(q) # t
        /\ UNCHANGED <<attempt, claim>>
    BY DEF AuthorizeDirect, FreshAttempt, durable
  <1>2. /\ external'[t] = "AUTHORIZED"
        /\ \A u \in Attempts \ {t} : external'[u] = external[u]
    BY DEF AuthorizeDirect, Typed, TypeOK
  <1>3. /\ runner'[r].pc = "direct" /\ runner'[r].att = t
        /\ \A q \in Runners \ {r} : runner'[q] = runner[q]
    BY DEF AuthorizeDirect, At, Typed, TypeOK
  <1>4. ClaimMatchesAttempt' /\ Owned'
    BY <1>1 DEF Consistent, ClaimMatchesAttempt, Owned, Owner
  <1>5. Driving'
    <2>1. ASSUME NEW q \in Runners, q # r
          PROVE  Fits(runner'[q].pc, attempt'[Att(q)'], external'[Att(q)'])
      <3>1. /\ runner'[q] = runner[q] /\ Att(q)' = Att(q) /\ Att(q) # t
            /\ UNCHANGED attempt
        BY <1>1, <1>3, <2>1 DEF Att
      <3>2. Fits(runner[q].pc, attempt[Att(q)], external[Att(q)])
        BY DEF Consistent, Driving
      <3>3. runner[q].pc \in WithAttempt => external'[Att(q)] = external[Att(q)]
        BY <1>2, <3>1 DEF Typed, RunnersTyped
      <3>q. QED
        BY <3>1, <3>2, <3>3 DEF Fits, BeyondLocal, WithAttempt, Guarded
    <2>2. Fits("direct", attempt'[t], external'[t])
      BY <1>2 DEF Fits, BeyondLocal, WithAttempt, Guarded
    <2>q. QED
      BY <1>3, <2>1, <2>2 DEF Driving, Att
  <1>6. Distinct'
    <2>1. Att(r)' = t /\ \A q \in Runners \ {r} : Att(q)' = Att(q)
      BY <1>3 DEF Att
    <2>q. QED
      BY <1>1, <2>1 DEF Consistent, Distinct
  <1>7. History'
    BY <1>1, <1>2 DEF Consistent, History
  <1>q. QED
    BY <1>4, <1>5, <1>6, <1>7 DEF Consistent

\* Recovery drops what never left Keeper and leaves the rest in doubt.
LEMMA RecoverConsistent ==
  ASSUME Typed, Consistent, Recover
  PROVE  Consistent'
  <1>1. \A t \in Attempts : Recovers(t)
    BY RecoverEffect DEF Consistent
  <1>3. UNCHANGED <<runner, external>>
    BY DEF Recover
  <1>4. ClaimMatchesAttempt'
    BY <1>1 DEF Consistent, ClaimMatchesAttempt, Recovers
  <1>5. Owned'
    BY <1>1 DEF Consistent, Owned, Owner, InFlight, Recovers
  <1>6. Driving'
    <2>1. ASSUME NEW r \in Runners
          PROVE  Fits(runner[r].pc, attempt'[Att(r)], external[Att(r)])
      <3>1. Fits(runner[r].pc, attempt[Att(r)], external[Att(r)])
        BY DEF Consistent, Driving
      <3>2. CASE runner[r].pc \in WithAttempt
        <4>1. Att(r) \in Attempts
          BY <3>2 DEF Typed, RunnersTyped
        <4>q. QED
          BY <1>1, <3>1, <4>1 DEF Fits, BeyondLocal, WithAttempt, Guarded, Recovers
      <3>3. CASE runner[r].pc \notin WithAttempt
        BY <3>3 DEF Fits, BeyondLocal, WithAttempt, Guarded
      <3>q. QED
        BY <3>2, <3>3
    <2>q. QED
      BY <1>3, <2>1 DEF Driving, Att
  <1>7. Distinct'
    BY <1>3 DEF Consistent, Distinct, Att
  <1>8. History'
    BY <1>1, <1>3 DEF Consistent, History, InFlight, Recovers
  <1>q. QED
    BY <1>4, <1>5, <1>6, <1>7, <1>8 DEF Consistent

\* Every step keeps claims and attempts together, the coordinators apart, and
\* what they know and what the records say about the outside world true.
LEMMA StepConsistent == Typed /\ Consistent /\ [Next]_vars => Consistent'
  <1> SUFFICES ASSUME Typed, Consistent, [Next]_vars
               PROVE  Consistent'
    OBVIOUS
  <1>t. TypeOK
    BY DEF Typed
  <1>1. ASSUME NEW r \in Runners,
               \/ PrepareAssignment(r) \/ ReserveWorkspace(r) \/ ReadUsageRows(r)
               \/ GrantUsage(r)
        PROVE  Consistent'
    <2>1. /\ UNCHANGED <<attempt, claim, external>>
          /\ \E pc \in {"resources", "rows", "ready", "usage"} : Goto(r, pc)
      BY <1>1 DEF PrepareAssignment, ReserveWorkspace, ReadUsageRows, GrantUsage, durable
    <2>2. PICK pc \in {"resources", "rows", "ready", "usage"} : Turns(r, pc)
      BY <1>t, <2>1, GotoEffect
    <2>3. pc \notin WithAttempt
      BY DEF WithAttempt, Guarded
    <2>q. QED
      BY <2>1, <2>2, <2>3, ApartConsistent DEF Turns
  <1>2. ASSUME NEW r \in Runners, PauseForUsage(r) \/ SwallowRefusal(r) \/ Stop(r)
        PROVE  Consistent'
    <2>1. UNCHANGED <<attempt, claim, external>> /\ Finish(r)
      BY <1>2 DEF PauseForUsage, SwallowRefusal, Stop, durable
    <2>2. Rests(r)
      BY <1>t, <2>1, FinishEffect
    <2>3. "idle" \notin WithAttempt
      BY DEF WithAttempt, Guarded
    <2>q. QED
      BY <2>1, <2>2, <2>3, IdleFields, ApartConsistent DEF Rests
  <1>3. ASSUME NEW r \in Runners, NEW a \in Assignments,
               PickStage(r, a) \/ PickReady(r, a)
        PROVE  Consistent'
    <2>1. /\ UNCHANGED <<attempt, claim, external>>
          /\ \/ runner' = [runner EXCEPT ![r] = At("prepare", a, None)]
             \/ runner' = [runner EXCEPT ![r] = At("resources", a, None)]
      BY <1>3 DEF PickStage, PickReady, durable
    <2>2. /\ \A q \in Runners \ {r} : runner'[q] = runner[q]
          /\ runner'[r].att = None /\ runner'[r].pc \in {"prepare", "resources"}
      BY <1>t, <2>1 DEF TypeOK, At
    <2>3. {"prepare", "resources"} \cap WithAttempt = {}
      BY DEF WithAttempt, Guarded
    <2>q. QED
      BY <2>1, <2>2, <2>3, ApartConsistent
  <1>4. ASSUME NEW r \in Runners,
               RequireReservedOwnership(r) \/ RequireClaimedOwnership(r) \/ Fail(r)
        PROVE  Consistent'
    <2>1. /\ UNCHANGED <<attempt, claim, external>>
          /\ \/ runner[r].pc \in Guarded /\ Goto(r, "ambiguous")
             \/ runner[r].pc = "own1" /\ Goto(r, "reserve")
             \/ runner[r].pc = "own2" /\ Goto(r, "launch")
      BY <1>4 DEF RequireReservedOwnership, RequireClaimedOwnership, Fail, durable
    <2>2. PICK pc \in {"ambiguous", "reserve", "launch"} :
             /\ Turns(r, pc)
             /\ pc = "launch" => runner[r].pc = "own2"
             /\ pc # "launch" => runner[r].pc \in Guarded
      BY <1>t, <2>1, GotoEffect DEF Guarded
    <2>3. Fits(runner[r].pc, attempt[Att(r)], external[Att(r)])
      BY DEF Consistent, Driving
    <2>4. pc \in RunnerPC /\ Fits(pc, attempt[Att(r)], external[Att(r)])
      BY <2>2, <2>3 DEF Fits, BeyondLocal, WithAttempt, Guarded, RunnerPC
    <2>q. QED
      BY <2>1, <2>2, <2>4, TurnsConsistent
  <1>5. ASSUME NEW r \in Runners, NEW t \in Attempts, ReservePrepared(r, t)
        PROVE  Consistent'
    <2>1. /\ Job(r) \in Assignments
          /\ attempt[t].state = "ABSENT" /\ external[t] = "NONE"
          /\ \A q \in Runners : Att(q) # t
          /\ Becomes(t, Record("RESERVED", Job(r), "LOCAL_PREPARED", "NONE"))
          /\ claim' = [claim EXCEPT ![t] = "RESERVED"] /\ UNCHANGED external
      BY <1>5 DEF ReservePrepared, InsertAttempt, FreshAttempt, Typed, RunnersTyped
    <2>2. /\ runner'[r].pc = "flight" /\ runner'[r].att = t
          /\ \A q \in Runners \ {r} : runner'[q] = runner[q]
      BY <1>t, <1>5 DEF ReservePrepared, TypeOK, At
    <2>3. "flight" \in RunnerPC
      BY DEF RunnerPC
    <2>q. QED
      BY <2>1, <2>2, <2>3, InsertConsistent
  <1>6. ASSUME NEW r \in Runners, ReserveDirect(r)
        PROVE  Consistent'
    <2>1. Job(r) \in Assignments /\ Att(r) \in Attempts /\ runner[r].pc = "direct"
      BY <1>6 DEF ReserveDirect, Typed, RunnersTyped, WithAttempt
    <2>2. external[Att(r)] # "EXECUTED" /\ \A q \in Runners \ {r} : Att(q) # Att(r)
      BY <2>1 DEF Consistent, Driving, Fits, WithAttempt, Distinct
    <2>3. /\ attempt[Att(r)].state = "ABSENT"
          /\ Becomes(Att(r), Record("RESERVED", Job(r), "AUTHORIZED", "NONE"))
          /\ claim' = [claim EXCEPT ![Att(r)] = "RESERVED"]
          /\ Goto(r, "claim") /\ UNCHANGED external
      BY <1>6 DEF ReserveDirect, InsertAttempt
    <2>4. /\ runner'[r].pc = "claim" /\ runner'[r].att = Att(r)
          /\ \A q \in Runners \ {r} : runner'[q] = runner[q]
      BY <1>t, <2>3, GotoEffect DEF Turns, Att
    <2>5. "claim" \in RunnerPC
      BY DEF RunnerPC
    <2>q. QED
      BY <2>1, <2>2, <2>3, <2>4, <2>5, InsertConsistent
  <1>7. ASSUME NEW r \in Runners, NEW t \in Attempts, AuthorizeDirect(r, t)
        PROVE  Consistent'
    BY <1>7, DirectConsistent
  <1>8. ASSUME NEW r \in Runners, MarkInFlight(r) \/ MarkAuthorityReserved(r)
        PROVE  Consistent'
    <2>1. PICK phase \in {"RESERVATION_IN_FLIGHT", "AUTHORITY_RESERVED"},
               pc \in {"own1", "authorize"} :
             /\ Becomes(Att(r), InPhase(Att(r), phase)) /\ Goto(r, pc)
             /\ attempt[Att(r)].state = "RESERVED"
             /\ runner[r].pc \in {"flight", "mark"}
             /\ UNCHANGED <<claim, external>>
      BY <1>8 DEF MarkInFlight, MarkAuthorityReserved
    <2>2. Att(r) \in Attempts /\ external[Att(r)] # "EXECUTED"
      BY <2>1 DEF Typed, RunnersTyped, Consistent, Driving, Fits, WithAttempt, Guarded
    <2>3. Phases(Att(r), phase) /\ Turns(r, pc)
      BY <1>t, <2>1, <2>2, InPhasePhases, GotoEffect
    <2>q. QED
      BY <2>1, <2>2, <2>3, PhasesConsistent
  <1>9. ASSUME NEW r \in Runners, ReserveAuthority(r) \/ Authorize(r) \/ Launch(r)
        PROVE  Consistent'
    <2>1. UNCHANGED <<attempt, claim>>
      BY <1>9 DEF ReserveAuthority, Authorize, Launch, durable
    <2>2. CASE ReserveAuthority(r)
      <3>1. /\ runner[r].pc = "reserve"
            /\ external' = [external EXCEPT ![Att(r)] = "RESERVED"]
            /\ \E pc \in {"mark", "ambiguous"} : Turns(r, pc)
        BY <1>t, <2>2, GotoEffect DEF ReserveAuthority
      <3>2. \/ Rests(r)
            \/ \E pc \in {"mark", "bind", "ambiguous", "running"} :
                  Turns(r, pc) /\ (pc = "running" <=> runner[r].pc = "launch")
        BY <3>1
      <3>3. /\ "RESERVED" \in ExternalState
            /\ "RESERVED" = "EXECUTED" <=> runner[r].pc = "launch"
            /\ runner[r].pc \in {"reserve", "authorize", "launch"}
        BY <3>1 DEF ExternalState
      <3>q. QED
        BY <2>1, <3>1, <3>2, <3>3, CallConsistent
    <2>3. CASE Authorize(r)
      <3>1. /\ runner[r].pc = "authorize"
            /\ external' = [external EXCEPT ![Att(r)] = "AUTHORIZED"]
            /\ \E pc \in {"bind", "ambiguous"} : Turns(r, pc)
        BY <1>t, <2>3, GotoEffect DEF Authorize
      <3>2. \/ Rests(r)
            \/ \E pc \in {"mark", "bind", "ambiguous", "running"} :
                  Turns(r, pc) /\ (pc = "running" <=> runner[r].pc = "launch")
        BY <3>1
      <3>3. /\ "AUTHORIZED" \in ExternalState
            /\ "AUTHORIZED" = "EXECUTED" <=> runner[r].pc = "launch"
            /\ runner[r].pc \in {"reserve", "authorize", "launch"}
        BY <3>1 DEF ExternalState
      <3>q. QED
        BY <2>1, <3>1, <3>2, <3>3, CallConsistent
    <2>4. CASE Launch(r)
      <3>1. /\ runner[r].pc = "launch"
            /\ external' = [external EXCEPT ![Att(r)] = "EXECUTED"]
            /\ Turns(r, "running") \/ Rests(r)
        BY <1>t, <2>4, GotoEffect, FinishEffect DEF Launch
      <3>2. \/ Rests(r)
            \/ \E pc \in {"mark", "bind", "ambiguous", "running"} :
                  Turns(r, pc) /\ (pc = "running" <=> runner[r].pc = "launch")
        BY <3>1
      <3>3. /\ "EXECUTED" \in ExternalState
            /\ "EXECUTED" = "EXECUTED" <=> runner[r].pc = "launch"
            /\ runner[r].pc \in {"reserve", "authorize", "launch"}
        BY <3>1 DEF ExternalState
      <3>q. QED
        BY <2>1, <3>1, <3>2, <3>3, CallConsistent
    <2>q. QED
      BY <1>9, <2>2, <2>3, <2>4
  <1>10. ASSUME NEW r \in Runners, LaunchStep(r)
        PROVE  Consistent'
    BY <1>10, LaunchConsistent
  <1>11. ASSUME NEW t \in Attempts, CancellingStep(t)
        PROVE  Consistent'
    BY <1>11, CancellationConsistent
  <1>12. ASSUME NEW t \in Attempts, CallCancel(t) \/ RefuseCancellation(t) \/ StopCancel(t)
        PROVE  Consistent'
    <2>1. UNCHANGED <<attempt, claim, external, runner>>
      BY <1>12 DEF CallCancel, RefuseCancellation, StopCancel, durable
    <2>q. QED
      BY <2>1, StillConsistent
  <1>13. ASSUME NEW a \in Assignments,
                \/ ExpireLease(a) \/ RenewWorkspace(a) \/ ReleaseWorkspace(a)
                \/ RecoverStaleWorkspace(a) \/ ResumeAfterReset(a)
        PROVE  Consistent'
    <2>1. UNCHANGED <<attempt, claim, external, runner>>
      BY <1>13 DEF ExpireLease, RenewWorkspace, ReleaseWorkspace, LeaveWorkspace,
                   RecoverStaleWorkspace, ResumeAfterReset, durable
    <2>q. QED
      BY <2>1, StillConsistent
  <1>14. CASE Recover
    BY <1>14, RecoverConsistent
  <1>15. CASE UNCHANGED vars
    BY <1>15, StillConsistent DEF vars, durable
  <1>16. ASSUME NEW r \in Runners, RunnerStep(r)
        PROVE  Consistent'
    BY <1>1, <1>2, <1>3, <1>4, <1>5, <1>6, <1>7, <1>8, <1>9, <1>10, <1>16
    DEF RunnerStep, LaunchStep
  <1>17. ASSUME NEW t \in Attempts, CancelStep(t)
        PROVE  Consistent'
    BY <1>11, <1>12, <1>17 DEF CancelStep, CancellingStep
  <1>18. ASSUME NEW a \in Assignments, LeaseStep(a)
        PROVE  Consistent'
    BY <1>13, <1>18 DEF LeaseStep
  <1>q. QED
    BY <1>13, <1>14, <1>15, <1>16, <1>17, <1>18 DEF Next

-----------------------------------------------------------------------------
(* Exclusion, resources and cancellations                                   *)

\* Only the insertion of an attempt makes a claim exclusive, and the unique
\* index refuses it when another claim of the assignment is.
LEMMA StepOneLaunch ==
  ASSUME Typed, Consistent, OneLaunchPerAssignment,
         [Next]_vars
  PROVE  OneLaunchPerAssignment'
  <1>0. ASSUME NEW r \in Runners, LaunchStep(r)
        PROVE  OneLaunchPerAssignment'
    <2>1. PICK t \in Attempts : Writes(t)
      BY <1>0, LaunchWrites DEF Consistent
    <2>2. \A u \in Attempts :
             /\ claim'[u] \in Exclusive => claim[u] \in Exclusive
             /\ Owner(u)' = Owner(u)
      BY <2>1 DEF Writes, Spares, Owner, Exclusive, Held
    <2>q. QED
      BY <2>2 DEF OneLaunchPerAssignment
  <1>14. ASSUME Recover
        PROVE  OneLaunchPerAssignment'
    <2>1. \A t \in Attempts : Recovers(t)
      BY <1>14, RecoverEffect DEF Consistent
    <2>2. \A t \in Attempts :
             /\ claim'[t] \in Exclusive => claim[t] \in Exclusive
             /\ Owner(t)' = Owner(t)
      BY <2>1 DEF Recovers, Owner, Exclusive, Held, InFlight
    <2>q. QED
      BY <2>2 DEF OneLaunchPerAssignment
  <1> USE LaunchConstants DEF Typed, TypeOK, RunnersTyped, WithAttempt, Guarded,
        Consistent, ClaimMatchesAttempt, Owned, Becomes, Record, InState,
        InPhase, InDoubt, AttemptState, Att, Owner, Claims, InFlight, Held, Exclusive,
        durable,
        OneLaunchPerAssignment
  <1>1. ASSUME NEW r \in Runners, NEW t \in Attempts, ReservePrepared(r, t)
        PROVE  OneLaunchPerAssignment'
    BY <1>1 DEF ReservePrepared, InsertAttempt, FreshAttempt, LaunchReady
  <1>2. ASSUME NEW r \in Runners, MarkInFlight(r)
        PROVE  OneLaunchPerAssignment'
    BY <1>2 DEF MarkInFlight
  <1>3. ASSUME NEW r \in Runners, MarkAuthorityReserved(r)
        PROVE  OneLaunchPerAssignment'
    BY <1>3 DEF MarkAuthorityReserved
  <1>6. ASSUME NEW r \in Runners, ReserveDirect(r)
        PROVE  OneLaunchPerAssignment'
    BY <1>6 DEF ReserveDirect, InsertAttempt, LaunchReady
  <1>10. ASSUME NEW t \in Attempts, ClaimCancellation(t)
        PROVE  OneLaunchPerAssignment'
    BY <1>10 DEF ClaimCancellation
  <1>11. ASSUME NEW t \in Attempts, CompleteCancellation(t)
        PROVE  OneLaunchPerAssignment'
    BY <1>11 DEF CompleteCancellation, Cancel, CancellationClaimed
  <1>12. ASSUME NEW t \in Attempts, MarkCancellationUncertain(t)
        PROVE  OneLaunchPerAssignment'
    BY <1>12 DEF MarkCancellationUncertain, CancellationClaimed
  <1>13. ASSUME NEW t \in Attempts, ReconcileCancellation(t)
        PROVE  OneLaunchPerAssignment'
    BY <1>13 DEF ReconcileCancellation, Cancel
  <1>15. CASE UNCHANGED <<attempt, claim>>
    BY <1>15
  <1>q. QED
    BY <1>0, StepKinds, <1>1, <1>2, <1>3, <1>6, <1>10,
       <1>11, <1>12, <1>13, <1>14, <1>15
    DEF AttemptStep, LaunchStep

\* An attempt that is in flight holds what its assignment reserved, and the
\* transaction that completes it consumes the usage of that assignment only.
LEMMA LaunchResources ==
  ASSUME Typed, Consistent, OneLaunchPerAssignment, OpenOutcomeKeepsResources,
         NEW r \in Runners, LaunchStep(r)
  PROVE  OpenOutcomeKeepsResources'
  <1>1. PICK t \in Attempts : Writes(t)
    BY LaunchWrites DEF Consistent
  <1>2. \A u \in Attempts : attempt'[u].state \in Unsettled =>
           /\ attempt[u].state \in Unsettled /\ Owner(u)' = Owner(u)
           /\ Owner(u) \in Assignments
    BY <1>1 DEF Writes, Spares, Owner, Unsettled, InFlight, Consistent, Owned
  <1>3. /\ \A a \in Assignments :
              workspace[a] \in {"ACTIVE", "UNCERTAIN"}
                => workspace'[a] \in {"ACTIVE", "UNCERTAIN"}
        /\ \A u \in Attempts : attempt'[u].state \in Unsettled =>
              usage'[Owner(u)] = usage[Owner(u)]
    <2>1. ASSUME CompleteAttempt(r)
          PROVE  <1>3!1 /\ <1>3!2
      <3>1. /\ Att(r) \in Attempts /\ Moves(Att(r), "COMPLETED")
            /\ claim[Att(r)] = "RUNNING" /\ UNCHANGED workspace
            /\ \A a \in Assignments \ {Owner(Att(r))} : usage'[a] = usage[a]
        BY <2>1, CompleteEffect DEF Consistent
      <3>2. ASSUME NEW u \in Attempts, attempt'[u].state \in Unsettled
            PROVE  Owner(u) # Owner(Att(r))
        <4>1. u # Att(r)
          BY <3>1, <3>2 DEF Moves, Unsettled
        <4>2. claim[u] \in Exclusive
          BY <1>2, <3>2
          DEF Consistent, ClaimMatchesAttempt, Unsettled, Exclusive, Held, InFlight
        <4>3. claim[Att(r)] \in Exclusive
          BY <3>1 DEF Exclusive, Held, InFlight
        <4>q. QED
          BY <3>1, <4>1, <4>2, <4>3 DEF OneLaunchPerAssignment
      <3>q. QED
        BY <1>2, <3>1, <3>2
    <2>2. ASSUME MarkReservationUncertain(r)
          PROVE  <1>3!1 /\ <1>3!2
      BY <2>2, ReservationDoubtEffect DEF KeepUncertain
    <2>3. ASSUME BindAuthorization(r) \/ ClaimLaunch(r) \/ MarkRunning(r)
          PROVE  <1>3!1 /\ <1>3!2
      BY <2>3, BindEffect, ClaimLaunchEffect, MarkRunningEffect
    <2>q. QED
      BY <2>1, <2>2, <2>3 DEF LaunchStep
  <1>q. QED
    BY <1>2, <1>3 DEF OpenOutcomeKeepsResources

\* A settled attempt consumes the usage of its own assignment, and no other
\* attempt of that assignment is open.
LEMMA StepResources ==
  ASSUME Typed, Consistent, OneLaunchPerAssignment, 
         OpenOutcomeKeepsResources,
         [Next]_vars
  PROVE  OpenOutcomeKeepsResources'
  <1>0. ASSUME NEW r \in Runners, LaunchStep(r)
        PROVE  OpenOutcomeKeepsResources'
    BY <1>0, LaunchResources
  <1>14. ASSUME Recover
        PROVE  OpenOutcomeKeepsResources'
    <2>1. \A t \in Attempts : Recovers(t)
      BY <1>14, RecoverEffect DEF Consistent
    <2>2. \A t \in Attempts : attempt'[t].state \in Unsettled =>
             /\ attempt[t].state \in Unsettled /\ Owner(t)' = Owner(t)
             /\ Owner(t) \in Assignments
      BY <2>1 DEF Recovers, Owner, Unsettled, InFlight, Consistent, Owned
    <2>3. /\ UNCHANGED usage
          /\ \A a \in Assignments :
                workspace[a] \in {"ACTIVE", "UNCERTAIN"}
                  => workspace'[a] \in {"ACTIVE", "UNCERTAIN"}
      BY <1>14 DEF Recover, KeepUncertain
    <2>q. QED
      BY <2>2, <2>3 DEF OpenOutcomeKeepsResources
  <1> USE LaunchConstants DEF Typed, TypeOK, RunnersTyped, WithAttempt, Guarded,
        Consistent, ClaimMatchesAttempt, Owned, Becomes, Record, InState,
        InPhase, InDoubt, AttemptState, Att, Owner, Claims, InFlight, Held, Exclusive,
        durable,
        OneLaunchPerAssignment, OpenOutcomeKeepsResources, Unsettled
  <1>1. ASSUME NEW r \in Runners, NEW t \in Attempts, ReservePrepared(r, t)
        PROVE  OpenOutcomeKeepsResources'
    BY <1>1 DEF ReservePrepared, InsertAttempt, FreshAttempt, LaunchReady
  <1>2. ASSUME NEW r \in Runners, MarkInFlight(r)
        PROVE  OpenOutcomeKeepsResources'
    BY <1>2 DEF MarkInFlight
  <1>3. ASSUME NEW r \in Runners, MarkAuthorityReserved(r)
        PROVE  OpenOutcomeKeepsResources'
    BY <1>3 DEF MarkAuthorityReserved
  <1>6. ASSUME NEW r \in Runners, ReserveDirect(r)
        PROVE  OpenOutcomeKeepsResources'
    BY <1>6 DEF ReserveDirect, InsertAttempt, LaunchReady
  <1>10. ASSUME NEW t \in Attempts, ClaimCancellation(t)
        PROVE  OpenOutcomeKeepsResources'
    BY <1>10 DEF ClaimCancellation
  <1>11. ASSUME NEW t \in Attempts, CompleteCancellation(t)
        PROVE  OpenOutcomeKeepsResources'
    BY <1>11 DEF CompleteCancellation, Cancel, ConsumeUsage,
       CancellationClaimed
  <1>12. ASSUME NEW t \in Attempts, MarkCancellationUncertain(t)
        PROVE  OpenOutcomeKeepsResources'
    BY <1>12 DEF MarkCancellationUncertain, KeepUncertain, CancellationClaimed
  <1>13. ASSUME NEW t \in Attempts, ReconcileCancellation(t)
        PROVE  OpenOutcomeKeepsResources'
    BY <1>13 DEF ReconcileCancellation, Cancel, ConsumeUsage
  <1>15. ASSUME NEW r \in Runners, ReserveWorkspace(r)
        PROVE  OpenOutcomeKeepsResources'
    BY <1>15 DEF ReserveWorkspace
  <1>16. ASSUME NEW r \in Runners, GrantUsage(r)
        PROVE  OpenOutcomeKeepsResources'
    BY <1>16 DEF GrantUsage
  <1>17. ASSUME NEW a \in Assignments, ReleaseWorkspace(a)
        PROVE  OpenOutcomeKeepsResources'
    BY <1>17 DEF ReleaseWorkspace, LeaveWorkspace, Surrenderable
  <1>18. ASSUME NEW a \in Assignments, RecoverStaleWorkspace(a)
        PROVE  OpenOutcomeKeepsResources'
    BY <1>18 DEF RecoverStaleWorkspace, LeaveWorkspace, Surrenderable
  <1>19. CASE UNCHANGED <<attempt, claim, workspace, usage>>
    BY <1>19
  <1>q. QED
    BY <1>0, StepKinds, <1>1, <1>2, <1>3, <1>6, <1>10,
       <1>11, <1>12, <1>13, <1>14, <1>15, <1>16, <1>17, <1>18, <1>19
    DEF AttemptStep, HoldStep, SignalStep, LaunchStep

\* While a cancellation is in progress, and after it was called, its attempt
\* is neither RUNNING nor COMPLETED.
LEMMA StepStopping ==
  ASSUME Typed, Consistent, Stopping,
         [Next]_vars
  PROVE  Stopping'
  <1>0. ASSUME NEW r \in Runners, LaunchStep(r)
        PROVE  Stopping'
    <2>1. PICK t \in Attempts : Writes(t)
      BY <1>0, LaunchWrites DEF Consistent
    <2>2. canceller[t] = "none" /\ t \notin stopped
      BY <2>1 DEF Writes, Stopping, Cancelling, StoppedNeverCompletes, InFlight
    <2>3. stopped \subseteq Attempts
      BY DEF Typed, TypeOK
    <2>q. QED
      BY <2>1, <2>2, <2>3
      DEF Writes, Spares, Stopping, Cancelling, StoppedNeverCompletes
  <1>14. ASSUME Recover
        PROVE  Stopping'
    <2>1. /\ \A t \in Attempts : Recovers(t)
          /\ UNCHANGED <<canceller, stopped>>
      BY <1>14, RecoverEffect DEF Consistent, Recover
    <2>2. stopped \subseteq Attempts
      BY DEF Typed, TypeOK
    <2>q. QED
      BY <2>1, <2>2 DEF Recovers, Stopping, Cancelling, StoppedNeverCompletes
  <1> USE LaunchConstants DEF Typed, TypeOK, RunnersTyped, WithAttempt, Guarded,
        Consistent, ClaimMatchesAttempt, Owned, Becomes, Record, InState,
        InPhase, InDoubt, AttemptState, Att, Owner, Claims, InFlight, Held, Exclusive,
        durable,
        Stopping, Cancelling, StoppedNeverCompletes
  <1>1. ASSUME NEW r \in Runners, NEW t \in Attempts, ReservePrepared(r, t)
        PROVE  Stopping'
    BY <1>1 DEF ReservePrepared, InsertAttempt, FreshAttempt
  <1>2. ASSUME NEW r \in Runners, MarkInFlight(r)
        PROVE  Stopping'
    BY <1>2 DEF MarkInFlight
  <1>3. ASSUME NEW r \in Runners, MarkAuthorityReserved(r)
        PROVE  Stopping'
    BY <1>3 DEF MarkAuthorityReserved
  <1>6. ASSUME NEW r \in Runners, ReserveDirect(r)
        PROVE  Stopping'
    BY <1>6 DEF ReserveDirect, InsertAttempt, LaunchReady
  <1>10. ASSUME NEW t \in Attempts, ClaimCancellation(t)
        PROVE  Stopping'
    BY <1>10 DEF ClaimCancellation
  <1>11. ASSUME NEW t \in Attempts, CompleteCancellation(t)
        PROVE  Stopping'
    BY <1>11 DEF CompleteCancellation, Cancel, CancellationClaimed
  <1>12. ASSUME NEW t \in Attempts, MarkCancellationUncertain(t)
        PROVE  Stopping'
    BY <1>12 DEF MarkCancellationUncertain, CancellationClaimed
  <1>13. ASSUME NEW t \in Attempts, ReconcileCancellation(t)
        PROVE  Stopping'
    BY <1>13 DEF ReconcileCancellation, Cancel
  <1>15. ASSUME NEW t \in Attempts, CallCancel(t)
        PROVE  Stopping'
    BY <1>15 DEF CallCancel
  <1>16. ASSUME NEW t \in Attempts, RefuseCancellation(t)
        PROVE  Stopping'
    BY <1>16 DEF RefuseCancellation
  <1>17. ASSUME NEW t \in Attempts, StopCancel(t)
        PROVE  Stopping'
    BY <1>17 DEF StopCancel
  <1>18. CASE UNCHANGED <<attempt, canceller, stopped>>
    BY <1>18
  <1>q. QED
    BY <1>0, StepKinds, <1>1, <1>2, <1>3, <1>6, <1>10,
       <1>11, <1>12, <1>13, <1>14, <1>15, <1>16, <1>17, <1>18
    DEF AttemptStep, HoldStep, SignalStep, LaunchStep

-----------------------------------------------------------------------------
(* The theorems                                                             *)

\* The inductive invariant holds before the first coordinator starts.
LEMMA InitInv == Init => Inv
  <1> SUFFICES ASSUME Init
               PROVE  OneLaunchPerAssignment /\ OpenOutcomeKeepsResources /\ Stopping
    BY InitTyped, InitConsistent DEF Inv
  <1>q. QED
    BY DEF Init, OneLaunchPerAssignment, OpenOutcomeKeepsResources, Stopping,
       Cancelling, StoppedNeverCompletes, NoAttempt, Exclusive, Held, InFlight,
       Unsettled

\* The inductive invariant survives every step, recovery included.
LEMMA StepInv == Inv /\ [Next]_vars => Inv'
  BY StepTyped, StepConsistent, StepOneLaunch, StepResources, StepStopping DEF Inv

\* The inductive invariant holds in every reachable state of the protocol.
THEOREM Invariance == Spec => []Inv
  BY InitInv, StepInv, PTL DEF Spec

\* Every record the methods of the repository write, and every program counter
\* of a coordinator, is one of those the code declares.
THEOREM TypeCorrect == Spec => []TypeOK
  <1>1. Inv => TypeOK
    BY DEF Inv, Typed
  <1>q. QED
    BY <1>1, Invariance, PTL

\* The launch-claim table and the attempt records never disagree.
THEOREM ClaimsMatch == Spec => []ClaimMatchesAttempt
  <1>1. Inv => ClaimMatchesAttempt
    BY DEF Inv, Consistent
  <1>q. QED
    BY <1>1, Invariance, PTL

\* At most one attempt of an assignment is in progress, completed or uncertain.
THEOREM OneLaunch == Spec => []OneLaunchPerAssignment
  <1>1. Inv => OneLaunchPerAssignment
    BY DEF Inv
  <1>q. QED
    BY <1>1, Invariance, PTL

\* An attempt recovery calls FAILED was never shown to KeeperAuthority.
THEOREM FailedStayedLocal == Spec => []FailedNeverLeftKeeper
  <1>1. Inv => FailedNeverLeftKeeper
    BY DEF Inv, Consistent, History, FailedNeverLeftKeeper
  <1>q. QED
    BY <1>1, Invariance, PTL

\* An attempt that may have been executed is on record as launched.
THEOREM ExecutedIsRecorded == Spec => []ExecutionOnRecord
  <1>1. Inv => ExecutionOnRecord
    BY DEF Inv, Consistent, History, ExecutionOnRecord
  <1>q. QED
    BY <1>1, Invariance, PTL

\* An attempt whose outcome is open keeps its workspace and its usage.
THEOREM OpenOutcomeHolds == Spec => []OpenOutcomeKeepsResources
  <1>1. Inv => OpenOutcomeKeepsResources
    BY DEF Inv
  <1>q. QED
    BY <1>1, Invariance, PTL

\* An attempt on which a cancel took effect is never accepted as complete.
THEOREM StoppedStaysIncomplete == Spec => []StoppedNeverCompletes
  <1>1. Inv => StoppedNeverCompletes
    BY DEF Inv, Stopping
  <1>q. QED
    BY <1>1, Invariance, PTL

\* At most one execution of an assignment may stand.
THEOREM AtMostOneStands == Spec => []OneStandingExecution
  <1>1. ASSUME Inv, NEW t \in Standing
        PROVE  claim[t] \in Exclusive
    BY <1>1 DEF Inv, Typed, TypeOK, Consistent, History, ClaimMatchesAttempt,
       Standing, AttemptState, Exclusive, Held, InFlight
  <1>2. Inv => OneStandingExecution
    BY <1>1 DEF Inv, OneLaunchPerAssignment, OneStandingExecution, Standing
  <1>q. QED
    BY <1>2, Invariance, PTL

\* What UncertainAttemptIsKept allows a step to do.
Kept ==
    \A t \in Attempts :
        attempt[t].state = "UNCERTAIN" =>
          \/ attempt'[t] = attempt[t]
          \/ /\ attempt'[t].state = "CANCELED"
             /\ attempt[t].kind = "CANCELLATION_OUTCOME_AMBIGUOUS"

\* No step moves an uncertain attempt, except a reconciled cancellation.
LEMMA StepKept ==
  ASSUME Typed, Consistent,
         [Next]_vars
  PROVE  Kept
  <1>0. ASSUME NEW r \in Runners, LaunchStep(r)
        PROVE  Kept
    <2>1. PICK t \in Attempts : Writes(t)
      BY <1>0, LaunchWrites DEF Consistent
    <2>q. QED
      BY <2>1 DEF Writes, Spares, Kept, InFlight
  <1>14. ASSUME Recover
        PROVE  Kept
    <2>1. \A t \in Attempts : Recovers(t)
      BY <1>14, RecoverEffect DEF Consistent
    <2>q. QED
      BY <2>1 DEF Recovers, Kept, InFlight
  <1> USE LaunchConstants DEF Typed, TypeOK, RunnersTyped, WithAttempt, Guarded,
        Consistent, ClaimMatchesAttempt, Owned, Becomes, Record, InState,
        InPhase, InDoubt, AttemptState, Att, Owner, Claims, InFlight, Held, Exclusive,
        durable, Kept
  <1>1. ASSUME NEW r \in Runners, NEW t \in Attempts, ReservePrepared(r, t)
        PROVE  Kept
    BY <1>1 DEF ReservePrepared, InsertAttempt, FreshAttempt
  <1>2. ASSUME NEW r \in Runners, MarkInFlight(r)
        PROVE  Kept
    BY <1>2 DEF MarkInFlight
  <1>3. ASSUME NEW r \in Runners, MarkAuthorityReserved(r)
        PROVE  Kept
    BY <1>3 DEF MarkAuthorityReserved
  <1>6. ASSUME NEW r \in Runners, ReserveDirect(r)
        PROVE  Kept
    BY <1>6 DEF ReserveDirect, InsertAttempt, LaunchReady
  <1>10. ASSUME NEW t \in Attempts, ClaimCancellation(t)
        PROVE  Kept
    BY <1>10 DEF ClaimCancellation
  <1>11. ASSUME NEW t \in Attempts, CompleteCancellation(t)
        PROVE  Kept
    BY <1>11 DEF CompleteCancellation, Cancel, CancellationClaimed
  <1>12. ASSUME NEW t \in Attempts, MarkCancellationUncertain(t)
        PROVE  Kept
    BY <1>12 DEF MarkCancellationUncertain, CancellationClaimed
  <1>13. ASSUME NEW t \in Attempts, ReconcileCancellation(t)
        PROVE  Kept
    BY <1>13 DEF ReconcileCancellation, Cancel
  <1>15. CASE UNCHANGED <<attempt, claim>>
    BY <1>15
  <1>q. QED
    BY <1>0, StepKinds, <1>1, <1>2, <1>3, <1>6, <1>10,
       <1>11, <1>12, <1>13, <1>14, <1>15
    DEF AttemptStep, LaunchStep

\* An uncertain attempt stays so until its cancellation is reconciled.
THEOREM UncertainIsKept == Spec => UncertainAttemptIsKept
  <1>1. Inv /\ [Next]_vars => [Kept]_vars
    BY StepKept DEF Inv
  <1>2. Spec => [][Kept]_vars
    BY <1>1, Invariance, PTL DEF Spec
  <1>q. QED
    BY <1>2 DEF Kept, UncertainAttemptIsKept

-----------------------------------------------------------------------------
(* The slots of a provider session: active_assignments is the number of    *)
(* attempts whose outcome is open, and never exceeds the session's limit.  *)

\* The attempts that hold slots of a session can be counted.
LEMMA HoldersFinite ==
  \A s : IsFiniteSet(SlotHolders(s)) /\ Cardinality(SlotHolders(s)) \in Nat
  <1> TAKE s
  <1>1. SlotHolders(s) \subseteq Attempts
    BY DEF SlotHolders
  <1>2. IsFiniteSet(SlotHolders(s))
    BY <1>1, LaunchFinite, FS_Subset
  <1>q. QED
    BY <1>2, FS_CardinalityType

\* An attempt is inserted while the session has a slot left.
LEMMA SlotTaken ==
  ASSUME Typed, SessionAccounting, NEW t \in Attempts, NEW a \in Assignments,
         NEW phase, attempt[t].state = "ABSENT",
         active[SessionOf[a]] < Limit[SessionOf[a]], InsertAttempt(t, a, phase)
  PROVE  SessionAccounting'
  <1>1. SUFFICES ASSUME NEW s \in Sessions
                 PROVE  active'[s] = Cardinality(SlotHolders(s)')
                        /\ active'[s] <= Limit[s]
    BY DEF SessionAccounting
  <1>2. attempt'[t] = Record("RESERVED", a, phase, "NONE")
        /\ \A u \in Attempts \ {t} : attempt'[u] = attempt[u]
    BY DEF InsertAttempt, Becomes, Typed, TypeOK
  <1>3. t \notin SlotHolders(s)
    BY DEF SlotHolders, Unsettled
  <1>4. CASE SessionOf[a] = s
    <2>1. SlotHolders(s)' = SlotHolders(s) \cup {t}
      BY <1>2, <1>4 DEF SlotHolders, Record, Unsettled, Owner
    <2>2. active'[s] = active[s] + 1
      BY <1>4 DEF InsertAttempt, Typed, TypeOK
    <2>3. Cardinality(SlotHolders(s)') = Cardinality(SlotHolders(s)) + 1
      BY <1>3, <2>1, HoldersFinite, FS_AddElement
    <2>4. active[s] \in Nat /\ Limit[s] \in Nat /\ active[s] < Limit[s]
      BY <1>4, LaunchConstants DEF Typed, TypeOK
    <2>5. active[s] = Cardinality(SlotHolders(s))
      BY DEF SessionAccounting
    <2>q. QED
      BY <2>2, <2>3, <2>4, <2>5
  <1>5. CASE SessionOf[a] # s
    <2>1. SlotHolders(s)' = SlotHolders(s)
      BY <1>2, <1>3, <1>5 DEF SlotHolders, Record, Owner
    <2>2. active'[s] = active[s]
      BY <1>5 DEF InsertAttempt, Typed, TypeOK
    <2>q. QED
      BY <2>1, <2>2 DEF SessionAccounting
  <1>q. QED
    BY <1>4, <1>5

\* An open attempt is settled and its slot is freed.
LEMMA SlotFreed ==
  ASSUME Typed, Consistent, SessionAccounting, NEW t \in Attempts,
         attempt[t].state \in Unsettled, NEW state, state \notin Unsettled,
         Becomes(t, InState(t, state)), FreeSlot(Owner(t))
  PROVE  SessionAccounting'
  <1>1. SUFFICES ASSUME NEW s \in Sessions
                 PROVE  active'[s] = Cardinality(SlotHolders(s)')
                        /\ active'[s] <= Limit[s]
    BY DEF SessionAccounting
  <1>2. attempt'[t].state = state
        /\ \A u \in Attempts \ {t} : attempt'[u] = attempt[u]
    BY DEF Becomes, InState, Record, Typed, TypeOK
  <1>3. Owner(t) \in Assignments
    BY DEF Consistent, Owned, Unsettled
  <1>4. CASE SessionOf[Owner(t)] = s
    <2>1. SlotHolders(s)' = SlotHolders(s) \ {t}
      BY <1>2, <1>4 DEF SlotHolders, Owner
    <2>2. t \in SlotHolders(s)
      BY <1>4 DEF SlotHolders
    <2>3. Cardinality(SlotHolders(s)') = Cardinality(SlotHolders(s)) - 1
      BY <2>1, <2>2, HoldersFinite, FS_RemoveElement
    <2>4. Cardinality(SlotHolders(s)) > 0
      BY <2>2, HoldersFinite, FS_EmptySet
    <2>5. active'[s] = active[s] - 1
      BY <1>4, <2>4 DEF FreeSlot, Typed, TypeOK, SessionAccounting
    <2>q. QED
      BY <2>3, <2>5, LaunchConstants DEF SessionAccounting, Typed, TypeOK
  <1>5. CASE SessionOf[Owner(t)] # s
    <2>1. SlotHolders(s)' = SlotHolders(s)
      BY <1>2, <1>5 DEF SlotHolders, Owner, Becomes, InState, Record, Typed, TypeOK
    <2>2. active'[s] = active[s]
      BY <1>3, <1>5 DEF FreeSlot, Typed, TypeOK
    <2>q. QED
      BY <2>1, <2>2 DEF SessionAccounting
  <1>q. QED
    BY <1>4, <1>5

\* Any other step leaves open attempts open.
LEMMA SlotsKept ==
  ASSUME SessionAccounting, UNCHANGED active,
         \A u \in Attempts : Owner(u)' = Owner(u)
            /\ (attempt'[u].state \in Unsettled <=> attempt[u].state \in Unsettled)
  PROVE  SessionAccounting'
  <1>1. \A s : SlotHolders(s)' = SlotHolders(s)
    BY DEF SlotHolders
  <1>q. QED
    BY <1>1 DEF SessionAccounting

\* Recovery frees one slot for each attempt it drops.
LEMMA SlotsRecovered ==
  ASSUME Typed, Consistent, SessionAccounting, Recover
  PROVE  SessionAccounting'
  <1>1. SUFFICES ASSUME NEW s \in Sessions
                 PROVE  active'[s] = Cardinality(SlotHolders(s)')
                        /\ active'[s] <= Limit[s]
    BY DEF SessionAccounting
  <1> DEFINE freed == {t \in PreLaunch : SessionOf[Owner(t)] = s}
  <1>2. freed \subseteq SlotHolders(s)
    BY DEF PreLaunch, Interrupted, SlotHolders, Unsettled, Consistent,
       ClaimMatchesAttempt, Typed, TypeOK, AttemptState
  <1>3. \A t \in Attempts :
           /\ Owner(t)' = Owner(t)
           /\ t \in PreLaunch => attempt'[t].state = "FAILED"
           /\ t \notin PreLaunch =>
                (attempt'[t].state \in Unsettled <=> attempt[t].state \in Unsettled)
    BY DEF Recover, InState, InDoubt, Record, Owner, Interrupted, InFlight,
       Unsettled, Consistent, ClaimMatchesAttempt, Typed, TypeOK, AttemptState
  <1>4. SlotHolders(s)' = SlotHolders(s) \ freed
    BY <1>3 DEF SlotHolders, Unsettled
  <1>5. /\ IsFiniteSet(freed) /\ Cardinality(freed) \in Nat
        /\ Cardinality(freed) <= Cardinality(SlotHolders(s))
    BY <1>2, HoldersFinite, FS_Subset, FS_CardinalityType
  <1>6. SlotHolders(s) \cap freed = freed
    BY <1>2
  <1>7. Cardinality(SlotHolders(s)') = Cardinality(SlotHolders(s)) - Cardinality(freed)
    BY <1>4, <1>6, HoldersFinite, FS_Difference
  <1>8. active[s] = Cardinality(SlotHolders(s)) /\ active[s] <= Limit[s]
    BY DEF SessionAccounting
  <1>9. active'[s] = IF active[s] >= Cardinality(freed)
                       THEN active[s] - Cardinality(freed) ELSE 0
    BY DEF Recover
  <1>10. Limit[s] \in Nat
    BY LaunchConstants
  <1>q. QED
    BY <1>5, <1>7, <1>8, <1>9, <1>10, HoldersFinite

-----------------------------------------------------------------------------

\* No slot is taken at first.
LEMMA InitSlots == Init => SessionAccounting
  <1> SUFFICES ASSUME Init, NEW s \in Sessions
               PROVE  active[s] = Cardinality(SlotHolders(s)) /\ active[s] <= Limit[s]
    BY DEF SessionAccounting
  <1>1. SlotHolders(s) = {}
    BY DEF Init, SlotHolders, Unsettled, NoAttempt
  <1>q. QED
    BY <1>1, FS_EmptySet, LaunchConstants DEF Init

\* Every step leaves the count and the limit right: insertion, settlement and
\* recovery by the lemmas above, the others because they settle nothing.
LEMMA StepSlots == Inv /\ SessionAccounting /\ [Next]_vars => SessionAccounting'
  <1> SUFFICES ASSUME Inv, SessionAccounting, [Next]_vars
               PROVE  SessionAccounting'
    OBVIOUS
  <1> DEFINE Same == \A u \in Attempts : Owner(u)' = Owner(u)
                  /\ (attempt'[u].state \in Unsettled <=> attempt[u].state \in Unsettled)
  <1> USE LaunchConstants DEF Inv
  <1>1. ASSUME NEW r \in Runners, NEW t \in Attempts, ReservePrepared(r, t)
        PROVE  SessionAccounting'
    BY <1>1, SlotTaken DEF ReservePrepared, FreshAttempt, LaunchReady, Typed,
       RunnersTyped
  <1>2. ASSUME NEW r \in Runners, ReserveDirect(r)
        PROVE  SessionAccounting'
    BY <1>2, SlotTaken DEF ReserveDirect, LaunchReady, Typed, RunnersTyped,
       WithAttempt
  <1>3. ASSUME NEW r \in Runners, MarkInFlight(r)
        PROVE  SessionAccounting'
    <2>1. Same
      BY <1>3 DEF MarkInFlight, Becomes, InState, InPhase, InDoubt, Record,
         Unsettled, Owner, Typed, TypeOK, RunnersTyped, WithAttempt, Guarded
    <2>q. QED
      BY <1>3, <2>1, SlotsKept DEF MarkInFlight
  <1>4. ASSUME NEW r \in Runners, MarkAuthorityReserved(r)
        PROVE  SessionAccounting'
    <2>1. Same
      BY <1>4 DEF MarkAuthorityReserved, Becomes, InState, InPhase, InDoubt, Record,
         Unsettled, Owner, Typed, TypeOK, RunnersTyped, WithAttempt, Guarded
    <2>q. QED
      BY <1>4, <2>1, SlotsKept DEF MarkAuthorityReserved
  <1>5. ASSUME NEW r \in Runners, BindAuthorization(r)
        PROVE  SessionAccounting'
    <2>1. Same
      BY <1>5 DEF BindAuthorization, Becomes, InState, InPhase, InDoubt, Record,
         Unsettled, Owner, Typed, TypeOK, RunnersTyped, WithAttempt, Guarded
    <2>q. QED
      BY <1>5, <2>1, SlotsKept DEF BindAuthorization
  <1>6. ASSUME NEW r \in Runners, MarkReservationUncertain(r)
        PROVE  SessionAccounting'
    <2>1. Same
      BY <1>6 DEF MarkReservationUncertain, ReservationAmbiguous, Becomes, InState, InPhase, InDoubt, Record,
         Unsettled, Owner, Typed, TypeOK, RunnersTyped, WithAttempt, Guarded
    <2>q. QED
      BY <1>6, <2>1, SlotsKept DEF MarkReservationUncertain
  <1>7. ASSUME NEW r \in Runners, ClaimLaunch(r)
        PROVE  SessionAccounting'
    <2>1. Same
      BY <1>7 DEF ClaimLaunch, Becomes, InState, InPhase, InDoubt, Record,
         Unsettled, Owner, Typed, TypeOK, RunnersTyped, WithAttempt, Guarded
    <2>q. QED
      BY <1>7, <2>1, SlotsKept DEF ClaimLaunch
  <1>8. ASSUME NEW r \in Runners, MarkRunning(r)
        PROVE  SessionAccounting'
    <2>1. Same
      BY <1>8 DEF MarkRunning, Becomes, InState, InPhase, InDoubt, Record,
         Unsettled, Owner, Typed, TypeOK, RunnersTyped, WithAttempt, Guarded
    <2>q. QED
      BY <1>8, <2>1, SlotsKept DEF MarkRunning
  <1>9. ASSUME NEW t \in Attempts, ClaimCancellation(t)
        PROVE  SessionAccounting'
    <2>1. Same
      BY <1>9 DEF ClaimCancellation, Becomes, InState, InPhase, InDoubt, Record,
         Unsettled, Owner, Typed, TypeOK, RunnersTyped, WithAttempt, Guarded
    <2>q. QED
      BY <1>9, <2>1, SlotsKept DEF ClaimCancellation
  <1>10. ASSUME NEW t \in Attempts, MarkCancellationUncertain(t)
        PROVE  SessionAccounting'
    <2>1. Same
      BY <1>10 DEF MarkCancellationUncertain, CancellationClaimed, Becomes, InState, InPhase, InDoubt, Record,
         Unsettled, Owner, Typed, TypeOK, RunnersTyped, WithAttempt, Guarded
    <2>q. QED
      BY <1>10, <2>1, SlotsKept DEF MarkCancellationUncertain
  <1>11. ASSUME NEW r \in Runners, CompleteAttempt(r)
        PROVE  SessionAccounting'
    BY <1>11, SlotFreed DEF CompleteAttempt, Completable, Unsettled, Typed,
       RunnersTyped, WithAttempt
  <1>12. ASSUME NEW t \in Attempts, CompleteCancellation(t)
        PROVE  SessionAccounting'
    BY <1>12, SlotFreed DEF CompleteCancellation, CancellationClaimed, Cancel,
       Unsettled
  <1>13. ASSUME NEW t \in Attempts, ReconcileCancellation(t)
        PROVE  SessionAccounting'
    BY <1>13, SlotFreed DEF ReconcileCancellation, Cancel, Unsettled
  <1>14. CASE Recover
    BY <1>14, SlotsRecovered
  <1>15. CASE UNCHANGED <<attempt, active>>
    BY <1>15, SlotsKept DEF Owner
  <1>q. QED
    BY StepKinds, <1>1, <1>2, <1>3, <1>4, <1>5, <1>6, <1>7, <1>8, <1>9,
       <1>10, <1>11, <1>12, <1>13, <1>14, <1>15
    DEF AttemptStep

\* A session's slots are the attempts whose outcome is open, and never more than
\* its concurrency limit.
THEOREM SlotsCounted == Spec => []SessionAccounting
  <1>1. Inv /\ SessionAccounting /\ [Next]_vars => SessionAccounting'
    BY StepSlots
  <1>q. QED
    BY <1>1, InitSlots, Invariance, PTL DEF Spec

-----------------------------------------------------------------------------
(* The launch protocol of Pass B implements OneShotLaunch: in the states Inv *)
(* allows, each of its steps is a step of the promise, or invisible.         *)

\* The promise sees no more of an attempt than its phase, its job, and whether
\* it was executed.
LEMMA Invisible ==
  ASSUME \A t \in Attempts :
            /\ PhaseOf(t)' = PhaseOf(t)
            /\ Owner(t)' = Owner(t)
            /\ external'[t] = "EXECUTED" <=> external[t] = "EXECUTED"
  PROVE  UNCHANGED Promise!vars
  BY DEF Promise!vars

\* The steps that reach KeeperAuthority or the provider.
ExternalStep ==
    \E r \in Runners :
        \/ \E t \in Attempts : AuthorizeDirect(r, t)
        \/ ReserveAuthority(r) \/ Authorize(r) \/ Launch(r)

\* A step outside AttemptStep and ExternalStep is invisible to the promise.
LEMMA ExternalSteps ==
  ASSUME [Next]_vars
  PROVE  ExternalStep \/ UNCHANGED external
  <1>1. ASSUME NEW r \in Runners, RunnerStep(r)
        PROVE  ExternalStep \/ UNCHANGED external
    BY <1>1 DEF ExternalStep, RunnerStep, PickStage, PickReady,
       ReservePrepared, PrepareAssignment, ReserveWorkspace, ReadUsageRows,
       GrantUsage, PauseForUsage, MarkInFlight, RequireReservedOwnership,
       MarkAuthorityReserved, BindAuthorization, MarkReservationUncertain,
       SwallowRefusal, ReserveDirect, ClaimLaunch, RequireClaimedOwnership,
       MarkRunning, CompleteAttempt, Fail, Stop
  <1>2. ASSUME NEW t \in Attempts, CancelStep(t)
        PROVE  UNCHANGED external
    BY <1>2 DEF CancelStep, ClaimCancellation, CallCancel,
       CompleteCancellation, RefuseCancellation, MarkCancellationUncertain,
       StopCancel, ReconcileCancellation
  <1>3. ASSUME NEW a \in Assignments, LeaseStep(a)
        PROVE  UNCHANGED external
    BY <1>3 DEF LeaseStep, LeaveWorkspace, ExpireLease, RenewWorkspace,
       ReleaseWorkspace, RecoverStaleWorkspace, ResumeAfterReset
  <1>4. CASE Recover
    BY <1>4 DEF Recover
  <1>5. CASE UNCHANGED vars
    BY <1>5 DEF vars
  <1>q. QED
    BY <1>1, <1>2, <1>3, <1>4, <1>5 DEF Next

\* Initial states are initial states of the promise.
LEMMA RefinesInit == Init => Promise!Init
  BY DEF Init, Promise!Init, PhaseOf, Owner, NoAttempt

\* Every step is a step of the promise, or invisible to it.
LEMMA RefinesStep == Inv /\ [Next]_vars => [Promise!Next]_(Promise!vars)
  <1> SUFFICES ASSUME Inv, [Next]_vars
               PROVE  Promise!Next \/ UNCHANGED Promise!vars
    OBVIOUS
  <1> USE LaunchConstants DEF Inv, Typed, TypeOK, RunnersTyped, WithAttempt, Guarded,
        AttemptState, Becomes, Record, InState, InPhase, InDoubt
  <1>1. ASSUME NEW r \in Runners, NEW t \in Attempts, ReservePrepared(r, t)
        PROVE  Promise!Next \/ UNCHANGED Promise!vars
    <2>1. Job(r) \in Assignments
      BY <1>1 DEF ReservePrepared
    <2>2. /\ PhaseOf(t) = "free" /\ PhaseOf(t)' = "held"
          /\ Owner(t)' = Job(r)
          /\ \A u \in Attempts \ {t} :
                PhaseOf(u)' = PhaseOf(u) /\ Owner(u)' = Owner(u)
      BY <1>1, <2>1 DEF ReservePrepared, InsertAttempt, FreshAttempt, PhaseOf, Owner
    <2>3. external[t] # "EXECUTED" /\ UNCHANGED external
      BY <1>1 DEF ReservePrepared, FreshAttempt
    <2>4. \A u \in Attempts : Owner(u) = Job(r) => PhaseOf(u) \notin Promise!Blocking
      BY <1>1 DEF ReservePrepared, LaunchReady, Claims, Exclusive, Held, InFlight,
         Consistent, ClaimMatchesAttempt, Promise!Blocking, PhaseOf
    <2>5. Promise!Hold(t, Job(r))
      BY <2>1, <2>2, <2>3, <2>4 DEF Promise!Hold
    <2>q. QED
      BY <2>1, <2>5 DEF Promise!Next
  <1>2. ASSUME NEW r \in Runners, ReserveDirect(r)
        PROVE  Promise!Next \/ UNCHANGED Promise!vars
    <2>0. PICK t \in Attempts : t = Att(r)
      BY <1>2 DEF ReserveDirect
    <2>1. Job(r) \in Assignments
      BY <1>2, <2>0 DEF ReserveDirect
    <2>2. /\ PhaseOf(t) = "free" /\ PhaseOf(t)' = "held"
          /\ Owner(t)' = Job(r)
          /\ \A u \in Attempts \ {t} :
                PhaseOf(u)' = PhaseOf(u) /\ Owner(u)' = Owner(u)
      BY <1>2, <2>0, <2>1 DEF ReserveDirect, InsertAttempt, PhaseOf, Owner
    <2>3. external[t] # "EXECUTED" /\ UNCHANGED external
      BY <1>2, <2>0 DEF ReserveDirect, Consistent, Driving, Fits
    <2>4. \A u \in Attempts : Owner(u) = Job(r) => PhaseOf(u) \notin Promise!Blocking
      BY <1>2, <2>0 DEF ReserveDirect, LaunchReady, Claims, Exclusive, Held, InFlight,
         Consistent, ClaimMatchesAttempt, Promise!Blocking, PhaseOf
    <2>5. Promise!Hold(t, Job(r))
      BY <2>1, <2>2, <2>3, <2>4 DEF Promise!Hold
    <2>q. QED
      BY <2>1, <2>5 DEF Promise!Next
  <1>3. ASSUME NEW r \in Runners, Launch(r)
        PROVE  Promise!Next \/ UNCHANGED Promise!vars
    <2>1. PICK t \in Attempts : t = Att(r)
      BY <1>3 DEF Launch
    <2>2. PhaseOf(t) \in {"held", "unknown"} /\ external[t] # "EXECUTED"
      BY <1>3, <2>1 DEF Launch, Consistent, Driving, Fits, History, BeyondLocal, PhaseOf
    <2>3. \A u \in Attempts : PhaseOf(u)' = PhaseOf(u) /\ Owner(u)' = Owner(u)
      BY <1>3 DEF Launch, durable, PhaseOf, Owner
    <2>4. Promise!Execute(t)
      BY <1>3, <2>1, <2>2, <2>3 DEF Launch, Promise!Execute
    <2>q. QED
      BY <2>1, <2>4 DEF Promise!Next
  <1>4. ASSUME NEW r \in Runners, CompleteAttempt(r)
        PROVE  Promise!Next \/ UNCHANGED Promise!vars
    <2>1. PICK t \in Attempts : t = Att(r)
      BY <1>4 DEF CompleteAttempt
    <2>2. /\ PhaseOf(t) = "held" /\ external[t] = "EXECUTED"
          /\ PhaseOf(t)' = "kept"
      BY <1>4, <2>1 DEF CompleteAttempt, Completable, Consistent, Driving, Fits, PhaseOf
    <2>3. /\ \A u \in Attempts \ {t} : PhaseOf(u)' = PhaseOf(u)
          /\ \A u \in Attempts : Owner(u)' = Owner(u)
          /\ UNCHANGED external
      BY <1>4, <2>1 DEF CompleteAttempt, Completable, PhaseOf, Owner
    <2>4. Promise!Keep(t)
      BY <2>1, <2>2, <2>3 DEF Promise!Keep
    <2>q. QED
      BY <2>1, <2>4 DEF Promise!Next
  <1>5. ASSUME NEW t \in Attempts, CompleteCancellation(t)
        PROVE  Promise!Next \/ UNCHANGED Promise!vars
    <2>1. t \in Attempts
      OBVIOUS
    <2>2. /\ PhaseOf(t) = "held" /\ external[t] = "EXECUTED"
          /\ PhaseOf(t)' = "undone"
      BY <1>5, <2>1 DEF CompleteCancellation, CancellationClaimed, Cancel, Consistent, History, PhaseOf
    <2>3. /\ \A u \in Attempts \ {t} : PhaseOf(u)' = PhaseOf(u)
          /\ \A u \in Attempts : Owner(u)' = Owner(u)
          /\ UNCHANGED external
      BY <1>5, <2>1 DEF CompleteCancellation, CancellationClaimed, Cancel, PhaseOf, Owner
    <2>4. Promise!Undo(t)
      BY <2>1, <2>2, <2>3 DEF Promise!Undo
    <2>q. QED
      BY <2>1, <2>4 DEF Promise!Next
  <1>6. ASSUME NEW t \in Attempts, ReconcileCancellation(t)
        PROVE  Promise!Next \/ UNCHANGED Promise!vars
    <2>1. t \in Attempts
      OBVIOUS
    <2>2. /\ PhaseOf(t) = "unknown" /\ external[t] = "EXECUTED"
          /\ PhaseOf(t)' = "undone"
      BY <1>6, <2>1 DEF ReconcileCancellation, Cancel, Consistent, History, PhaseOf
    <2>3. /\ \A u \in Attempts \ {t} : PhaseOf(u)' = PhaseOf(u)
          /\ \A u \in Attempts : Owner(u)' = Owner(u)
          /\ UNCHANGED external
      BY <1>6, <2>1 DEF ReconcileCancellation, Cancel, PhaseOf, Owner
    <2>4. Promise!Undo(t)
      BY <2>1, <2>2, <2>3 DEF Promise!Undo
    <2>q. QED
      BY <2>1, <2>4 DEF Promise!Next
  <1>7. ASSUME NEW r \in Runners, MarkReservationUncertain(r)
        PROVE  Promise!Next \/ UNCHANGED Promise!vars
    <2>1. PICK t \in Attempts : t = Att(r)
      BY <1>7 DEF MarkReservationUncertain
    <2>2. /\ PhaseOf(t) = "held" /\ PhaseOf(t)' = "unknown"
          /\ \A u \in Attempts \ {t} : PhaseOf(u)' = PhaseOf(u)
          /\ \A u \in Attempts : Owner(u)' = Owner(u)
          /\ UNCHANGED external
      BY <1>7, <2>1 DEF MarkReservationUncertain, ReservationAmbiguous, PhaseOf, Owner
    <2>3. Promise!Settle({}, {t})
      BY <2>1, <2>2 DEF Promise!Settle
    <2>q. QED
      BY <2>1, <2>3 DEF Promise!Next
  <1>8. ASSUME NEW t \in Attempts, MarkCancellationUncertain(t)
        PROVE  Promise!Next \/ UNCHANGED Promise!vars
    <2>1. t \in Attempts
      OBVIOUS
    <2>2. /\ PhaseOf(t) = "held" /\ PhaseOf(t)' = "unknown"
          /\ \A u \in Attempts \ {t} : PhaseOf(u)' = PhaseOf(u)
          /\ \A u \in Attempts : Owner(u)' = Owner(u)
          /\ UNCHANGED external
      BY <1>8, <2>1 DEF MarkCancellationUncertain, CancellationClaimed, PhaseOf, Owner
    <2>3. Promise!Settle({}, {t})
      BY <2>1, <2>2 DEF Promise!Settle
    <2>q. QED
      BY <2>1, <2>3 DEF Promise!Next
  <1>9. ASSUME Recover
        PROVE  Promise!Next \/ UNCHANGED Promise!vars
    <2> DEFINE drop == PreLaunch
               doubt == Interrupted \ PreLaunch
    <2>1. \A t \in drop \cup doubt : PhaseOf(t) = "held"
      BY DEF PreLaunch, Interrupted, InFlight, Consistent, ClaimMatchesAttempt, PhaseOf
    <2>2. \A t \in drop : external[t] # "EXECUTED"
      BY DEF PreLaunch, Interrupted, Consistent, ClaimMatchesAttempt, History
    <2>3. /\ \A t \in drop : PhaseOf(t)' = "dropped"
          /\ \A t \in doubt : PhaseOf(t)' = "unknown"
          /\ \A t \in Attempts \ (drop \cup doubt) : PhaseOf(t)' = PhaseOf(t)
          /\ \A t \in Attempts : Owner(t)' = Owner(t)
          /\ UNCHANGED external
      BY <1>9 DEF Recover, PreLaunch, Interrupted, PhaseOf, Owner
    <2>4. drop \in SUBSET Attempts /\ doubt \in SUBSET Attempts
      BY DEF PreLaunch, Interrupted
    <2> HIDE DEF drop, doubt
    <2>5. drop \cap (doubt \cup {t \in Attempts : external[t] = "EXECUTED"}) = {}
      BY <2>2 DEF drop, doubt
    <2>6. Promise!Settle(drop, doubt)
      BY <2>1, <2>3, <2>4, <2>5 DEF Promise!Settle
    <2>q. QED
      BY <2>4, <2>6 DEF Promise!Next
  <1>10. ASSUME NEW r \in Runners, MarkInFlight(r)
        PROVE  Promise!Next \/ UNCHANGED Promise!vars
    BY <1>10, Invisible DEF MarkInFlight, PhaseOf, Owner
  <1>11. ASSUME NEW r \in Runners, MarkAuthorityReserved(r)
        PROVE  Promise!Next \/ UNCHANGED Promise!vars
    BY <1>11, Invisible DEF MarkAuthorityReserved, PhaseOf, Owner
  <1>12. ASSUME NEW r \in Runners, BindAuthorization(r)
        PROVE  Promise!Next \/ UNCHANGED Promise!vars
    BY <1>12, Invisible DEF BindAuthorization, PhaseOf, Owner
  <1>13. ASSUME NEW r \in Runners, ClaimLaunch(r)
        PROVE  Promise!Next \/ UNCHANGED Promise!vars
    BY <1>13, Invisible DEF ClaimLaunch, PhaseOf, Owner
  <1>14. ASSUME NEW r \in Runners, MarkRunning(r)
        PROVE  Promise!Next \/ UNCHANGED Promise!vars
    BY <1>14, Invisible DEF MarkRunning, PhaseOf, Owner
  <1>15. ASSUME NEW t \in Attempts, ClaimCancellation(t)
        PROVE  Promise!Next \/ UNCHANGED Promise!vars
    BY <1>15, Invisible DEF ClaimCancellation, PhaseOf, Owner
  <1>16. ASSUME NEW r \in Runners, NEW t \in Attempts, AuthorizeDirect(r, t)
        PROVE  Promise!Next \/ UNCHANGED Promise!vars
    BY <1>16, Invisible DEF AuthorizeDirect, FreshAttempt, durable, PhaseOf, Owner
  <1>17. ASSUME NEW r \in Runners, ReserveAuthority(r)
        PROVE  Promise!Next \/ UNCHANGED Promise!vars
    BY <1>17, Invisible DEF ReserveAuthority, Consistent, Driving, Fits, durable, PhaseOf, Owner
  <1>18. ASSUME NEW r \in Runners, Authorize(r)
        PROVE  Promise!Next \/ UNCHANGED Promise!vars
    BY <1>18, Invisible DEF Authorize, Consistent, Driving, Fits, durable, PhaseOf, Owner
  <1>19. CASE UNCHANGED <<attempt, external>>
    BY <1>19, Invisible DEF PhaseOf, Owner
  <1>q. QED
    BY StepKinds, ExternalSteps, <1>1, <1>2, <1>3, <1>4, <1>5, <1>6, <1>7,
       <1>8, <1>9, <1>10, <1>11, <1>12, <1>13, <1>14, <1>15, <1>16, <1>17,
       <1>18, <1>19
    DEF AttemptStep, ExternalStep

\* Every behaviour of the launch protocol is one of OneShotLaunch: a job is held
\* by one token at a time, a token is executed at most once and never after it
\* was dropped, and doubt about an execution keeps the job.
THEOREM Refinement == Spec => ImplementsOneShotLaunch
  <1>1. Spec => Promise!Init /\ [][Promise!Next]_(Promise!vars)
    BY RefinesInit, RefinesStep, Invariance, PTL DEF Spec
  <1>q. QED
    BY <1>1 DEF ImplementsOneShotLaunch, Promise!Spec

-----------------------------------------------------------------------------
(* What follows from the promise alone                                      *)

\* With its types, the two invariants of the promise are inductive.
PromiseInv == Promise!TypeOK /\ Promise!OneBlockingToken /\ Promise!DroppedIsUnused

\* The invariant of the promise holds while every token is free.
LEMMA InitPromise == Promise!Init => PromiseInv
  BY DEF Promise!Init, PromiseInv, Promise!TypeOK, Promise!OneBlockingToken,
     Promise!DroppedIsUnused, Promise!Phase, Promise!Blocking

\* Every step of the promise keeps its invariant.
LEMMA StepPromise == PromiseInv /\ [Promise!Next]_(Promise!vars) => PromiseInv'
  <1> SUFFICES ASSUME PromiseInv, [Promise!Next]_(Promise!vars)
               PROVE  PromiseInv'
    OBVIOUS
  <1> USE DEF PromiseInv, Promise!TypeOK, Promise!OneBlockingToken,
          Promise!DroppedIsUnused, Promise!Phase, Promise!Blocking
  <1>1. ASSUME NEW t \in Attempts, NEW j \in Assignments, Promise!Hold(t, j)
        PROVE  PromiseInv'
    <2>1. /\ PhaseOf(t)' = "held" /\ Owner(t)' = j
          /\ \A u \in Attempts \ {t} : PhaseOf(u)' = PhaseOf(u) /\ Owner(u)' = Owner(u)
      BY <1>1 DEF Promise!Hold
    <2>q. QED
      BY <1>1, <2>1 DEF Promise!Hold
  <1>2. ASSUME NEW t \in Attempts, Promise!Execute(t)
        PROVE  PromiseInv'
    BY <1>2 DEF Promise!Execute
  <1>3. ASSUME NEW t \in Attempts, Promise!Keep(t)
        PROVE  PromiseInv'
    <2>1. /\ PhaseOf(t)' = "kept"
          /\ \A u \in Attempts \ {t} : PhaseOf(u)' = PhaseOf(u)
          /\ \A u \in Attempts : Owner(u)' = Owner(u)
      BY <1>3 DEF Promise!Keep
    <2>q. QED
      BY <1>3, <2>1 DEF Promise!Keep
  <1>4. ASSUME NEW t \in Attempts, Promise!Undo(t)
        PROVE  PromiseInv'
    <2>1. /\ PhaseOf(t)' = "undone"
          /\ \A u \in Attempts \ {t} : PhaseOf(u)' = PhaseOf(u)
          /\ \A u \in Attempts : Owner(u)' = Owner(u)
      BY <1>4 DEF Promise!Undo
    <2>q. QED
      BY <1>4, <2>1 DEF Promise!Undo
  <1>5. ASSUME NEW D \in SUBSET Attempts, NEW U \in SUBSET Attempts,
               Promise!Settle(D, U)
        PROVE  PromiseInv'
    <2>1. \A u \in Attempts :
            /\ PhaseOf(u)' = IF u \in D THEN "dropped"
                             ELSE IF u \in U THEN "unknown" ELSE PhaseOf(u)
            /\ Owner(u)' = Owner(u)
      BY <1>5 DEF Promise!Settle
    <2>2. \A u \in Attempts : external'[u] = "EXECUTED" <=> external[u] = "EXECUTED"
      BY <1>5 DEF Promise!Settle
    <2>3. /\ \A u \in D \cup U : PhaseOf(u) = "held"
          /\ \A u \in D : external[u] # "EXECUTED"
      BY <1>5 DEF Promise!Settle
    <2>4. Promise!TypeOK'
      BY <2>1, <2>2
    <2>5. Promise!OneBlockingToken'
      BY <2>1, <2>3
    <2>6. Promise!DroppedIsUnused'
      BY <2>1, <2>2, <2>3
    <2>q. QED
      BY <2>4, <2>5, <2>6
  <1>6. CASE UNCHANGED Promise!vars
    BY <1>6 DEF Promise!vars
  <1>q. QED
    BY <1>1, <1>2, <1>3, <1>4, <1>5, <1>6 DEF Promise!Next

\* An assignment never has two attempts that block it, so of all its executions
\* at most one is neither cancelled nor still to come.
THEOREM BlockedByOne == Spec => []Promise!OneBlockingToken
  <1>1. PromiseInv => Promise!OneBlockingToken
    BY DEF PromiseInv
  <1>2. Promise!Spec => []PromiseInv
    BY InitPromise, StepPromise, PTL DEF Promise!Spec
  <1>q. QED
    BY <1>1, <1>2, Refinement, PTL DEF ImplementsOneShotLaunch

\* An attempt that was given up before its launch, or is not in use yet, has
\* not been executed.
THEOREM DroppedUnused == Spec => []Promise!DroppedIsUnused
  <1>1. PromiseInv => Promise!DroppedIsUnused
    BY DEF PromiseInv
  <1>2. Promise!Spec => []PromiseInv
    BY InitPromise, StepPromise, PTL DEF Promise!Spec
  <1>q. QED
    BY <1>1, <1>2, Refinement, PTL DEF ImplementsOneShotLaunch

-----------------------------------------------------------------------------
(* One coordinator                                                          *)

\* What has no counterpart with several: a coordinator that has read the usage rows
\* finds the assignment as it was when it comes to reserve.
OneCoordinator == \A r, q \in Runners : r = q

Early == {"ABSENT", "RESERVED", "FAILED"}

\* An assignment is there before its attempts, is launched before they are, and is
\* uncertain only with one of them.
Registered ==
    \A t \in Attempts : attempt[t].state # "ABSENT" => assignment[Owner(t)] # "ABSENT"
Unlaunched ==
    \A t \in Attempts :
        assignment[Owner(t)] \in {"READY", "WAITING_FOR_USAGE_RESET"} =>
            attempt[t].state \in Early
Doubted ==
    \A a \in Assignments :
        assignment[a] = "UNCERTAIN" =>
            \E t \in Attempts : Owner(t) = a /\ attempt[t].state = "UNCERTAIN"

\* Nothing that happens to attempt t closes its assignment.
Prospective(t) ==
    \/ attempt[t].state \in Early
    \/ /\ attempt[t].state = "UNCERTAIN"
       /\ attempt[t].kind # "CANCELLATION_OUTCOME_AMBIGUOUS"

\* The program counters at which a runner has not settled the usage of its stage.
Choosing == {"prepare", "resources", "rows", "usage"}

\* What the coordinator knows there of its assignment.
Chosen ==
    \A r \in Runners :
        /\ runner[r].pc = "prepare" => assignment[Job(r)] = "ABSENT"
        /\ runner[r].pc \in Choosing \ {"prepare"} =>
              /\ assignment[Job(r)] \in {"READY", "UNCERTAIN"}
              /\ \A t \in Attempts : Owner(t) = Job(r) => Prospective(t)
        /\ runner[r].pc = "usage" => usage[Job(r)] # "ACTIVE"

Settled == Registered /\ Unlaunched /\ Doubted /\ DoneHoldsNoUsage

Tidy == Settled /\ Chosen

\* A step that writes no record.
LEMMA SettledSame ==
  ASSUME Settled, UNCHANGED <<attempt, assignment, usage>>
  PROVE  Settled'
  BY DEF Settled, Registered, Unlaunched, Doubted, DoneHoldsNoUsage, Owner

\* The coordinator has settled the usage of its stage, or does nothing.
LEMMA ChosenElsewhere ==
  ASSUME OneCoordinator, NEW r \in Runners, runner'[r].pc \notin Choosing
  PROVE  Chosen'
  BY DEF OneCoordinator, Chosen, Choosing

\* The coordinator has the stage it had, and the records are the same.
LEMMA StillChosen ==
  ASSUME OneCoordinator, Chosen, UNCHANGED <<attempt, assignment, usage>>,
         NEW r \in Runners, runner'[r].job = runner[r].job,
         runner[r].pc \in Choosing \ {"prepare"}, runner'[r].pc \in Choosing \ {"prepare"},
         runner'[r].pc = "usage" => usage[Job(r)] # "ACTIVE"
  PROVE  Chosen'
  <1>1. /\ assignment[Job(r)] \in {"READY", "UNCERTAIN"}
        /\ \A t \in Attempts : Owner(t) = Job(r) => Prospective(t)
    BY DEF Chosen
  <1>2. /\ assignment'[Job(r)'] \in {"READY", "UNCERTAIN"}
        /\ \A t \in Attempts : Owner(t)' = Job(r)' => Prospective(t)'
        /\ runner'[r].pc = "usage" => usage'[Job(r)'] # "ACTIVE"
    BY <1>1 DEF Job, Owner, Prospective
  <1>q. QED
    BY <1>2 DEF OneCoordinator, Chosen, Choosing

\* A coordinator that does not write records, and is not choosing afterwards.
LEMMA TidyElsewhere ==
  ASSUME OneCoordinator, Typed, Tidy, NEW r \in Runners,
         \/ \E t \in Attempts : AuthorizeDirect(r, t)
         \/ RequireReservedOwnership(r) \/ ReserveAuthority(r) \/ Authorize(r)
         \/ SwallowRefusal(r) \/ RequireClaimedOwnership(r) \/ Launch(r) \/ Fail(r)
         \/ Stop(r)
  PROVE  Tidy'
  <1>1. UNCHANGED <<attempt, assignment, usage>>
    BY DEF AuthorizeDirect, RequireReservedOwnership, ReserveAuthority, Authorize,
       SwallowRefusal, RequireClaimedOwnership, Launch, Fail, Stop, durable
  <1>2. runner'[r].pc \notin Choosing
    <2>1. \E pc \in RunnerPC \ Choosing : \E a, t : runner' = [runner EXCEPT ![r] = At(pc, a, t)]
      BY DEF AuthorizeDirect, RequireReservedOwnership, ReserveAuthority, Authorize,
         SwallowRefusal, RequireClaimedOwnership, Launch, Fail, Stop, Goto, Finish, Idle,
         RunnerPC, Guarded, Choosing
    <2>2. runner'[r].pc \in RunnerPC \ Choosing
      BY <2>1 DEF Typed, TypeOK, At
    <2>q. QED
      BY <2>2
  <1>q. QED
    BY <1>1, <1>2, SettledSame, ChosenElsewhere DEF Tidy

\* The coordinator chooses a stage and looks at its reservations.
LEMMA TidyChoosing ==
  ASSUME OneCoordinator, Inv, Tidy, NEW r \in Runners,
         \/ \E a \in Assignments : PickStage(r, a) \/ PickReady(r, a)
         \/ ReserveWorkspace(r) \/ ReadUsageRows(r)
  PROVE  Tidy'
  <1>1. UNCHANGED <<attempt, assignment, usage>>
    BY DEF PickStage, PickReady, ReserveWorkspace, ReadUsageRows, durable
  <1>2. Settled'
    BY <1>1, SettledSame DEF Tidy
  <1>3. \A q \in Runners : q = r
    BY DEF OneCoordinator
  <1>4. runner \in [Runners -> [pc : RunnerPC, job : Assignments \cup {None},
                                att : Attempts \cup {None}]]
    BY DEF Inv, Typed, TypeOK
  <1>5. ASSUME NEW a \in Assignments, PickStage(r, a)
        PROVE  Chosen'
    <2>1. runner'[r].pc = "prepare" /\ runner'[r].job = a /\ assignment[a] = "ABSENT"
      BY <1>4, <1>5 DEF PickStage, At
    <2>q. QED
      BY <1>1, <1>3, <2>1 DEF Chosen, Choosing, Job
  <1>6. ASSUME NEW a \in Assignments, PickReady(r, a)
        PROVE  Chosen'
    <2>1. runner'[r].pc = "resources" /\ runner'[r].job = a /\ assignment[a] = "READY"
      BY <1>4, <1>6 DEF PickReady, At
    <2>2. \A t \in Attempts : Owner(t) = a => Prospective(t)
      BY <2>1 DEF Tidy, Settled, Unlaunched, Prospective
    <2>q. QED
      BY <1>1, <1>3, <2>1, <2>2 DEF Chosen, Choosing, Job, Prospective, Owner
  <1>7. CASE ReserveWorkspace(r)
    <2>1. /\ runner[r].pc = "resources" /\ runner'[r].pc = "rows"
          /\ runner'[r].job = runner[r].job
      BY <1>4, <1>7 DEF ReserveWorkspace, Goto, At, Job
    <2>2. /\ runner[r].pc \in Choosing \ {"prepare"} /\ runner'[r].pc # "usage"
          /\ runner'[r].pc \in Choosing \ {"prepare"}
      BY <2>1 DEF Choosing
    <2>q. QED
      BY <1>1, <1>2, <2>1, <2>2, StillChosen DEF Tidy
  <1>8. CASE ReadUsageRows(r)
    <2>1. /\ runner[r].pc = "rows" /\ runner'[r].job = runner[r].job
          /\ \/ runner'[r].pc = "ready"
             \/ runner'[r].pc = "usage" /\ usage[Job(r)] # "ACTIVE"
      BY <1>4, <1>8 DEF ReadUsageRows, Goto, At, Job
    <2>2. CASE runner'[r].pc = "ready"
      <3>1. runner'[r].pc \notin Choosing
        BY <2>2 DEF Choosing
      <3>q. QED
        BY <1>2, <3>1, ChosenElsewhere DEF Tidy
    <2>3. CASE runner'[r].pc = "usage" /\ usage[Job(r)] # "ACTIVE"
      <3>1. /\ runner[r].pc \in Choosing \ {"prepare"}
            /\ runner'[r].pc \in Choosing \ {"prepare"}
        BY <2>1, <2>3 DEF Choosing
      <3>q. QED
        BY <1>1, <1>2, <2>1, <2>3, <3>1, StillChosen DEF Tidy
    <2>q. QED
      BY <2>1, <2>2, <2>3
  <1>q. QED
    BY <1>2, <1>5, <1>6, <1>7, <1>8 DEF Tidy

\* The coordinator prepares its assignment and reserves usage for it, or pauses it.
LEMMA TidyReserving ==
  ASSUME OneCoordinator, Inv, Tidy, NEW r \in Runners,
         PrepareAssignment(r) \/ GrantUsage(r) \/ PauseForUsage(r)
  PROVE  Tidy'
  <1>1. /\ assignment \in [Assignments -> AssignmentState] /\ Job(r) \in Assignments
        /\ usage \in [Assignments -> {"NONE", "ACTIVE", "CONSUMED"}]
        /\ runner \in [Runners -> [pc : RunnerPC, job : Assignments \cup {None},
                                   att : Attempts \cup {None}]]
    BY DEF Inv, Typed, TypeOK, RunnersTyped, PrepareAssignment, GrantUsage, PauseForUsage
  <1>2. UNCHANGED attempt /\ \A t \in Attempts : Owner(t)' = Owner(t)
    BY DEF PrepareAssignment, GrantUsage, PauseForUsage, Owner
  <1>3. CASE PrepareAssignment(r)
    <2>1. assignment[Job(r)] = "ABSENT"
      BY <1>3 DEF PrepareAssignment, Tidy, Chosen
    <2>2. /\ assignment' = [assignment EXCEPT ![Job(r)] = "READY"] /\ UNCHANGED usage
          /\ runner'[r].pc = "resources" /\ runner'[r].job = Job(r)
      BY <1>1, <1>3, <2>1 DEF PrepareAssignment, Goto, At
    <2>3. \A t \in Attempts : Owner(t) = Job(r) => attempt[t].state = "ABSENT"
      BY <2>1 DEF Tidy, Settled, Registered
    <2>4. Settled'
      <3>1. \A a \in Assignments : a # Job(r) => assignment'[a] = assignment[a]
        BY <1>1, <2>2
      <3>2. \A t \in Attempts : attempt[t].state # "ABSENT" =>
               assignment'[Owner(t)] = assignment[Owner(t)]
        BY <1>1, <2>2, <2>3, <3>1 DEF Inv, Consistent, Owned
      <3>3. Registered' /\ Unlaunched'
        BY <1>2, <3>2 DEF Tidy, Settled, Registered, Unlaunched, Early
      <3>4. Doubted' /\ DoneHoldsNoUsage'
        BY <1>1, <1>2, <2>2, <3>1 DEF Tidy, Settled, Doubted, DoneHoldsNoUsage
      <3>q. QED
        BY <3>3, <3>4 DEF Settled
    <2>5. Chosen'
      BY <1>1, <1>2, <2>2, <2>3 DEF OneCoordinator, Chosen, Choosing, Prospective, Early,
         Job
    <2>q. QED
      BY <2>4, <2>5 DEF Tidy
  <1>4. CASE GrantUsage(r) \/ PauseForUsage(r)
    <2>1. /\ usage[Job(r)] # "ACTIVE" /\ assignment[Job(r)] \in {"READY", "UNCERTAIN"}
      BY <1>4 DEF GrantUsage, PauseForUsage, Tidy, Chosen, Choosing
    <2>2. \A t \in Attempts : Owner(t) = Job(r) => attempt[t].state \notin Unsettled
      BY <2>1 DEF Inv, OpenOutcomeKeepsResources
    <2>3. assignment[Job(r)] = "READY"
      BY <1>1, <2>1, <2>2 DEF Tidy, Settled, Doubted, Unsettled
    <2>4. /\ runner'[r].pc \in {"ready", "idle"}
          /\ \/ UNCHANGED assignment /\ usage' = [usage EXCEPT ![Job(r)] = "ACTIVE"]
             \/ /\ assignment' = [assignment EXCEPT ![Job(r)] = "WAITING_FOR_USAGE_RESET"]
                /\ UNCHANGED usage
      BY <1>1, <1>4 DEF GrantUsage, PauseForUsage, Goto, Finish, At, Idle
    <2>5. Settled'
      <3>0. \A a \in Assignments : a # Job(r) => assignment'[a] = assignment[a]
        BY <1>1, <2>4
      <3>a. assignment'[Job(r)] \in {"READY", "WAITING_FOR_USAGE_RESET"}
        BY <1>1, <2>3, <2>4
      <3>b. ASSUME NEW t \in Attempts, attempt[t].state # "ABSENT"
            PROVE  /\ assignment'[Owner(t)] # "ABSENT"
                   /\ assignment'[Owner(t)] \in {"READY", "WAITING_FOR_USAGE_RESET"} =>
                         attempt[t].state \in Early
        <4>1. Owner(t) \in Assignments
          BY <3>b DEF Inv, Consistent, Owned
        <4>2. CASE Owner(t) = Job(r)
          BY <2>3, <3>a, <4>2 DEF Tidy, Settled, Unlaunched
        <4>3. CASE Owner(t) # Job(r)
          BY <3>0, <3>b, <4>1, <4>3 DEF Tidy, Settled, Registered, Unlaunched
        <4>q. QED
          BY <4>2, <4>3
      <3>1. Registered' /\ Unlaunched'
        BY <1>2, <3>b DEF Registered, Unlaunched, Early
      <3>2. Doubted' /\ DoneHoldsNoUsage'
        BY <1>1, <1>2, <2>3, <2>4 DEF Tidy, Settled, Doubted, DoneHoldsNoUsage
      <3>q. QED
        BY <3>1, <3>2 DEF Settled
    <2>6. runner'[r].pc \notin Choosing
      BY <2>4 DEF Choosing
    <2>q. QED
      BY <2>5, <2>6, ChosenElsewhere DEF Tidy
  <1>q. QED
    BY <1>3, <1>4

\* What is done to a lease, and the end of a pause.
LEMMA TidyLease ==
  ASSUME Inv, Tidy, NEW a \in Assignments, LeaseStep(a)
  PROVE  Tidy'
  <1>1. CASE UNCHANGED <<attempt, assignment, usage, runner>>
    BY <1>1, SettledSame DEF Tidy, Chosen, Job, Owner, Prospective
  <1>2. CASE ResumeAfterReset(a)
    <2>1. /\ assignment \in [Assignments -> AssignmentState]
          /\ assignment[a] = "WAITING_FOR_USAGE_RESET"
          /\ assignment' = [assignment EXCEPT ![a] = "READY"]
          /\ UNCHANGED <<attempt, usage, runner>>
          /\ \A t \in Attempts : Owner(t)' = Owner(t)
      BY <1>2 DEF ResumeAfterReset, Inv, Typed, TypeOK, Owner
    <2>2. Registered' /\ Unlaunched'
      BY <2>1 DEF Tidy, Settled, Registered, Unlaunched
    <2>3. Doubted' /\ DoneHoldsNoUsage'
      BY <2>1 DEF Tidy, Settled, Doubted, DoneHoldsNoUsage
    <2>4. Chosen'
      BY <2>1 DEF Tidy, Chosen, Choosing, Prospective, Job
    <2>q. QED
      BY <2>2, <2>3, <2>4 DEF Tidy, Settled
  <1>q. QED
    BY <1>1, <1>2 DEF LeaseStep, ExpireLease, RenewWorkspace, ReleaseWorkspace,
       RecoverStaleWorkspace, LeaveWorkspace

\* One record of an attempt is written, and with it its assignment a.
LEMMA SettledWrite ==
  ASSUME Inv, Settled, NEW t \in Attempts, NEW a \in Assignments, NEW rec,
         attempt' = [attempt EXCEPT ![t] = rec], rec.owner = a,
         attempt[t].state = "ABSENT" \/ Owner(t) = a,
         \A b \in Assignments \ {a} :
            assignment'[b] = assignment[b] /\ usage'[b] = usage[b],
         assignment'[a] # "ABSENT",
         assignment'[a] \in {"READY", "WAITING_FOR_USAGE_RESET"} =>
            /\ assignment[a] \in {"READY", "WAITING_FOR_USAGE_RESET"}
            /\ rec.state \in Early,
         assignment'[a] = "UNCERTAIN" => rec.state = "UNCERTAIN",
         assignment'[a] \in {"REVIEW_REQUIRED", "CANCELED"} => usage'[a] # "ACTIVE"
  PROVE  Settled'
  <1>1. /\ attempt'[t] = rec /\ Owner(t)' = a
        /\ \A u \in Attempts \ {t} : attempt'[u] = attempt[u] /\ Owner(u)' = Owner(u)
    BY DEF Inv, Typed, TypeOK, Owner
  <1>2. \A u \in Attempts : attempt[u].state # "ABSENT" => Owner(u) \in Assignments
    BY DEF Inv, Consistent, Owned
  <1>3. ASSUME NEW u \in Attempts \ {t}, attempt[u].state # "ABSENT"
        PROVE  /\ assignment'[Owner(u)] # "ABSENT"
               /\ assignment'[Owner(u)] \in {"READY", "WAITING_FOR_USAGE_RESET"} =>
                     attempt[u].state \in Early
    <2>1. CASE Owner(u) = a
      BY <1>3, <2>1 DEF Settled, Unlaunched
    <2>2. CASE Owner(u) # a
      BY <1>2, <1>3, <2>2 DEF Settled, Registered, Unlaunched
    <2>q. QED
      BY <2>1, <2>2
  <1>4. Registered' /\ Unlaunched'
    BY <1>1, <1>3 DEF Registered, Unlaunched, Early
  <1>5. Doubted'
    <2>1. ASSUME NEW b \in Assignments, assignment'[b] = "UNCERTAIN", b # a
          PROVE  \E u \in Attempts : Owner(u)' = b /\ attempt'[u].state = "UNCERTAIN"
      <3>1. PICK u \in Attempts : Owner(u) = b /\ attempt[u].state = "UNCERTAIN"
        BY <2>1 DEF Settled, Doubted
      <3>q. QED
        BY <1>1, <2>1, <3>1
    <2>q. QED
      BY <1>1, <2>1 DEF Doubted
  <1>6. DoneHoldsNoUsage'
    BY DEF Settled, DoneHoldsNoUsage
  <1>q. QED
    BY <1>4, <1>5, <1>6 DEF Settled

\* The coordinator reserves an attempt, or marks how far its reservation is.
LEMMA TidyReserve ==
  ASSUME OneCoordinator, Inv, Tidy, NEW r \in Runners,
         \/ \E t \in Attempts : ReservePrepared(r, t)
         \/ MarkInFlight(r) \/ MarkAuthorityReserved(r) \/ BindAuthorization(r)
         \/ ReserveDirect(r)
  PROVE  Tidy'
  <1>1. UNCHANGED <<assignment, usage>> /\ runner'[r].pc \notin Choosing
    BY DEF ReservePrepared, MarkInFlight, MarkAuthorityReserved, BindAuthorization,
       ReserveDirect, Inv, Typed, TypeOK, Goto, At, Choosing
  <1>2. \E t \in Attempts, a \in Assignments, phase \in AuthorityPhase, k \in UncertaintyKind :
           /\ attempt' = [attempt EXCEPT ![t] = Record("RESERVED", a, phase, k)]
           /\ attempt[t].state = "ABSENT" \/ Owner(t) = a
           /\ assignment[a] = "READY"
    <2>1. CASE (\E t \in Attempts : ReservePrepared(r, t)) \/ ReserveDirect(r)
      BY <2>1 DEF ReservePrepared, ReserveDirect, FreshAttempt, InsertAttempt, Becomes,
         LaunchReady, AuthorityPhase, UncertaintyKind, Inv, Typed, RunnersTyped, WithAttempt
    <2>2. CASE MarkInFlight(r) \/ MarkAuthorityReserved(r) \/ BindAuthorization(r)
      <3>1. /\ Att(r) \in Attempts /\ attempt[Att(r)].state = "RESERVED"
            /\ assignment[Owner(Att(r))] = "READY"
        BY <2>2 DEF MarkInFlight, MarkAuthorityReserved, BindAuthorization, Inv, Typed,
           RunnersTyped, WithAttempt, Guarded
      <3>2. Owner(Att(r)) \in Assignments /\ attempt[Att(r)].kind \in UncertaintyKind
        BY <3>1 DEF Inv, Typed, TypeOK, Consistent, Owned
      <3>3. \E phase \in AuthorityPhase :
               attempt' = [attempt EXCEPT ![Att(r)] =
                  Record("RESERVED", Owner(Att(r)), phase, attempt[Att(r)].kind)]
        BY <2>2, <3>1 DEF MarkInFlight, MarkAuthorityReserved, BindAuthorization, Becomes,
           InPhase, AuthorityPhase
      <3>q. QED
        BY <3>1, <3>2, <3>3
    <2>q. QED
      BY <2>1, <2>2
  <1>3. PICK t \in Attempts, a \in Assignments, phase \in AuthorityPhase,
             k \in UncertaintyKind :
           /\ attempt' = [attempt EXCEPT ![t] = Record("RESERVED", a, phase, k)]
           /\ attempt[t].state = "ABSENT" \/ Owner(t) = a
           /\ assignment[a] = "READY"
    BY <1>2
  <1>4. /\ Record("RESERVED", a, phase, k).owner = a
        /\ Record("RESERVED", a, phase, k).state \in Early
    BY DEF Record, Early
  <1>5. Settled'
    BY <1>1, <1>3, <1>4, SettledWrite DEF Tidy
  <1>q. QED
    BY <1>1, <1>5, ChosenElsewhere DEF Tidy

\* An attempt in another state, or in doubt, is still the same assignment's.
LEMMA WroteState ==
  ASSUME NEW t, NEW state, Becomes(t, InState(t, state))
  PROVE  \E rec : attempt' = [attempt EXCEPT ![t] = rec] /\ rec.owner = Owner(t)
  <1>1. InState(t, state).owner = Owner(t)
    BY DEF InState, Record
  <1>q. QED
    BY <1>1 DEF Becomes

\* The same of an attempt whose outcome is unknown.
LEMMA WroteDoubt ==
  ASSUME NEW t, NEW kind, Becomes(t, InDoubt(t, kind))
  PROVE  \E rec : /\ attempt' = [attempt EXCEPT ![t] = rec]
                  /\ rec.owner = Owner(t) /\ rec.state = "UNCERTAIN"
  <1>1. InDoubt(t, kind).owner = Owner(t) /\ InDoubt(t, kind).state = "UNCERTAIN"
    BY DEF InDoubt, Record
  <1>q. QED
    BY <1>1 DEF Becomes

\* The assignments a transaction puts in doubt.
LEMMA DoubtWrites ==
  ASSUME NEW S, KeepUncertain(S)
  PROVE  \A b \in Assignments :
            assignment'[b] = IF b \in S THEN "UNCERTAIN" ELSE assignment[b]
  BY DEF KeepUncertain

\* The coordinator claims, runs and completes its launch, or puts it in doubt.
LEMMA TidyLaunch ==
  ASSUME OneCoordinator, Inv, Tidy, NEW r \in Runners,
         \/ MarkReservationUncertain(r) \/ ClaimLaunch(r) \/ MarkRunning(r)
         \/ CompleteAttempt(r)
  PROVE  Tidy'
  <1> DEFINE t == Att(r)
             a == Owner(t)
  <1>1. runner'[r].pc \notin Choosing
    BY DEF MarkReservationUncertain, ClaimLaunch, MarkRunning, CompleteAttempt, Inv,
       Typed, TypeOK, Goto, Finish, Idle, At, Choosing
  <1>2. t \in Attempts /\ attempt[t].state # "ABSENT"
    BY DEF MarkReservationUncertain, ReservationAmbiguous, ClaimLaunch, MarkRunning,
       CompleteAttempt, Completable, Inv, Typed, RunnersTyped, WithAttempt, Guarded
  <1>3. /\ a \in Assignments
        /\ assignment \in [Assignments -> AssignmentState]
        /\ usage \in [Assignments -> {"NONE", "ACTIVE", "CONSUMED"}]
    BY <1>2 DEF Inv, Typed, TypeOK, Consistent, Owned
  <1>5. ASSUME MarkReservationUncertain(r)
        PROVE  Settled'
    <2>1. UNCHANGED usage /\ KeepUncertain({a})
      BY <1>5 DEF MarkReservationUncertain
    <2>r. PICK rec : /\ attempt' = [attempt EXCEPT ![t] = rec]
                     /\ rec.owner = a /\ rec.state = "UNCERTAIN"
      BY <1>5, WroteDoubt DEF MarkReservationUncertain
    <2>2. /\ assignment'[a] = "UNCERTAIN"
          /\ \A b \in Assignments \ {a} : assignment'[b] = assignment[b]
      BY <1>3, <2>1, DoubtWrites
    <2>q. QED
      BY <1>2, <1>3, <2>r, <2>1, <2>2, SettledWrite DEF Tidy
  <1>6. ASSUME ClaimLaunch(r) \/ MarkRunning(r)
        PROVE  Settled'
    <2>r. PICK rec : attempt' = [attempt EXCEPT ![t] = rec] /\ rec.owner = a
      BY <1>6, WroteState DEF ClaimLaunch, MarkRunning
    <2>2. PICK state \in {"LAUNCH_CLAIMED", "RUNNING"} :
             assignment' = [assignment EXCEPT ![a] = state] /\ UNCHANGED usage
      BY <1>6 DEF ClaimLaunch, MarkRunning
    <2>3. /\ assignment'[a] = state
          /\ \A b \in Assignments \ {a} : assignment'[b] = assignment[b]
      BY <1>3, <2>2
    <2>q. QED
      BY <1>2, <1>3, <2>r, <2>2, <2>3, SettledWrite DEF Tidy
  <1>7. ASSUME CompleteAttempt(r)
        PROVE  Settled'
    <2>r. PICK rec : attempt' = [attempt EXCEPT ![t] = rec] /\ rec.owner = a
      BY <1>7, WroteState DEF CompleteAttempt
    <2>1. assignment' = [assignment EXCEPT ![a] = "REVIEW_REQUIRED"] /\ ConsumeUsage(a)
      BY <1>7 DEF CompleteAttempt
    <2>2. /\ assignment'[a] = "REVIEW_REQUIRED" /\ usage'[a] # "ACTIVE"
          /\ \A b \in Assignments \ {a} :
                assignment'[b] = assignment[b] /\ usage'[b] = usage[b]
      BY <1>3, <2>1 DEF ConsumeUsage
    <2>q. QED
      BY <1>2, <1>3, <2>r, <2>1, <2>2, SettledWrite DEF Tidy
  <1>8. Settled'
    BY <1>5, <1>6, <1>7
  <1>q. QED
    BY <1>1, <1>8, ChosenElsewhere DEF Tidy

\* What is written of an attempt that can still close its assignment is not about the
\* stage a coordinator is choosing.
LEMMA ChosenCancelling ==
  ASSUME Inv, Chosen, NEW t \in Attempts, NEW rec, ~Prospective(t),
         assignment[Owner(t)] # "ABSENT",
         attempt' = [attempt EXCEPT ![t] = rec], rec.owner = Owner(t),
         \A b \in Assignments \ {Owner(t)} :
            assignment'[b] = assignment[b] /\ usage'[b] = usage[b],
         UNCHANGED runner
  PROVE  Chosen'
  <1>1. /\ attempt'[t] = rec /\ Owner(t)' = Owner(t)
        /\ \A u \in Attempts \ {t} : attempt'[u] = attempt[u] /\ Owner(u)' = Owner(u)
    BY DEF Inv, Typed, TypeOK, Owner
  <1>2. \A u \in Attempts \ {t} : Prospective(u)' <=> Prospective(u)
    BY <1>1 DEF Prospective
  <1>3. ASSUME NEW r \in Runners, runner[r].pc \in Choosing
        PROVE  /\ assignment'[Job(r)] = assignment[Job(r)] /\ usage'[Job(r)] = usage[Job(r)]
               /\ Owner(t) # Job(r)
    <2>1. runner[r].pc # "idle"
      BY <1>3 DEF Choosing
    <2>2. Job(r) \in Assignments
      BY <2>1 DEF Inv, Typed, RunnersTyped
    <2>3. runner[r].pc = "prepare" \/ runner[r].pc \in Choosing \ {"prepare"}
      BY <1>3
    <2>4. Job(r) # Owner(t)
      BY <2>3 DEF Chosen
    <2>q. QED
      BY <2>2, <2>4
  <1>4. \A r \in Runners : Job(r)' = Job(r)
    BY DEF Job
  <1>5. \A r \in Runners : runner[r].pc = "prepare" => assignment'[Job(r)] = "ABSENT"
    BY <1>3 DEF Chosen, Choosing
  <1>6. ASSUME NEW r \in Runners, runner[r].pc \in Choosing \ {"prepare"}
        PROVE  /\ assignment'[Job(r)] \in {"READY", "UNCERTAIN"}
               /\ \A u \in Attempts : Owner(u)' = Job(r) => Prospective(u)'
    BY <1>1, <1>2, <1>3, <1>6 DEF Chosen
  <1>7. \A r \in Runners : runner[r].pc = "usage" => usage'[Job(r)] # "ACTIVE"
    BY <1>3 DEF Chosen, Choosing
  <1>q. QED
    BY <1>4, <1>5, <1>6, <1>7 DEF Chosen

\* A cancellation is claimed, completed, put in doubt or reconciled.
LEMMA TidyCancelling ==
  ASSUME Inv, Tidy, NEW t \in Attempts, CancelStep(t)
  PROVE  Tidy'
  <1> DEFINE a == Owner(t)
  <1>1. CASE CallCancel(t) \/ RefuseCancellation(t) \/ StopCancel(t)
    <2>1. UNCHANGED <<attempt, assignment, usage, runner>>
      BY <1>1 DEF CallCancel, RefuseCancellation, StopCancel, durable
    <2>q. QED
      BY <2>1, SettledSame DEF Tidy, Chosen, Job, Owner, Prospective
  <1>2. CASE \/ ClaimCancellation(t) \/ CompleteCancellation(t)
             \/ MarkCancellationUncertain(t) \/ ReconcileCancellation(t)
    <2>1. /\ UNCHANGED runner
          /\ \/ attempt[t].state \in {"RUNNING", "CANCELLATION_CLAIMED"}
             \/ /\ attempt[t].state = "UNCERTAIN"
                /\ attempt[t].kind = "CANCELLATION_OUTCOME_AMBIGUOUS"
      BY <1>2 DEF ClaimCancellation, CompleteCancellation, CancellationClaimed,
         MarkCancellationUncertain, ReconcileCancellation
    <2>2. ~Prospective(t) /\ attempt[t].state # "ABSENT"
      BY <2>1 DEF Prospective, Early
    <2>3. /\ a \in Assignments /\ assignment[a] # "ABSENT"
          /\ assignment \in [Assignments -> AssignmentState]
          /\ usage \in [Assignments -> {"NONE", "ACTIVE", "CONSUMED"}]
      BY <2>2 DEF Inv, Typed, TypeOK, Consistent, Owned, Tidy, Settled, Registered
    <2>5. CASE ClaimCancellation(t)
      <3>r. PICK rec : attempt' = [attempt EXCEPT ![t] = rec] /\ rec.owner = a
        BY <2>5, WroteState DEF ClaimCancellation
      <3>1. /\ assignment' = [assignment EXCEPT ![a] = "CANCELLATION_CLAIMED"]
            /\ UNCHANGED usage
        BY <2>5 DEF ClaimCancellation
      <3>2. /\ assignment'[a] = "CANCELLATION_CLAIMED"
            /\ \A b \in Assignments \ {a} :
                  assignment'[b] = assignment[b] /\ usage'[b] = usage[b]
        BY <2>3, <3>1
      <3>3. Settled'
        BY <2>3, <3>r, <3>1, <3>2, SettledWrite DEF Tidy
      <3>4. Chosen'
        BY <2>1, <2>2, <2>3, <3>r, <3>1, <3>2, ChosenCancelling DEF Tidy
      <3>q. QED
        BY <3>3, <3>4 DEF Tidy
    <2>6. CASE CompleteCancellation(t) \/ ReconcileCancellation(t)
      <3>r. PICK rec : attempt' = [attempt EXCEPT ![t] = rec] /\ rec.owner = a
        BY <2>6, WroteState DEF CompleteCancellation, ReconcileCancellation, Cancel
      <3>1. assignment' = [assignment EXCEPT ![a] = "CANCELED"] /\ ConsumeUsage(a)
        BY <2>6 DEF CompleteCancellation, ReconcileCancellation, Cancel
      <3>2. /\ assignment'[a] = "CANCELED" /\ usage'[a] # "ACTIVE"
            /\ \A b \in Assignments \ {a} :
                  assignment'[b] = assignment[b] /\ usage'[b] = usage[b]
        BY <2>3, <3>1 DEF ConsumeUsage
      <3>3. Settled'
        BY <2>3, <3>r, <3>1, <3>2, SettledWrite DEF Tidy
      <3>4. Chosen'
        BY <2>1, <2>2, <2>3, <3>r, <3>1, <3>2, ChosenCancelling DEF Tidy
      <3>q. QED
        BY <3>3, <3>4 DEF Tidy
    <2>7. CASE MarkCancellationUncertain(t)
      <3>r. PICK rec : /\ attempt' = [attempt EXCEPT ![t] = rec]
                       /\ rec.owner = a /\ rec.state = "UNCERTAIN"
        BY <2>7, WroteDoubt DEF MarkCancellationUncertain
      <3>1. KeepUncertain({a}) /\ UNCHANGED usage
        BY <2>7 DEF MarkCancellationUncertain
      <3>2. /\ assignment'[a] = "UNCERTAIN"
            /\ \A b \in Assignments \ {a} :
                  assignment'[b] = assignment[b] /\ usage'[b] = usage[b]
        BY <2>3, <3>1, DoubtWrites
      <3>3. Settled'
        BY <2>3, <3>r, <3>1, <3>2, SettledWrite DEF Tidy
      <3>4. Chosen'
        BY <2>1, <2>2, <2>3, <3>r, <3>1, <3>2, ChosenCancelling DEF Tidy
      <3>q. QED
        BY <3>3, <3>4 DEF Tidy
    <2>q. QED
      BY <1>2, <2>5, <2>6, <2>7
  <1>q. QED
    BY <1>1, <1>2 DEF CancelStep

\* A restart finds the attempts that were in flight.
LEMMA TidyRecovery ==
  ASSUME Inv, Tidy, Recover
  PROVE  Tidy'
  <1> DEFINE drop == PreLaunch
             doubt == Interrupted \ drop
             S == {Owner(t) : t \in doubt}
  <1>1. /\ UNCHANGED <<usage, runner>> /\ KeepUncertain(S)
        /\ attempt' = [t \in Attempts |->
              IF t \in drop THEN InState(t, "FAILED")
              ELSE IF t \in doubt THEN InDoubt(t, RecoveredKind(t))
              ELSE attempt[t]]
    BY DEF Recover
  <1>2. \A b \in Assignments :
           assignment'[b] = IF b \in S THEN "UNCERTAIN" ELSE assignment[b]
    BY <1>1, DoubtWrites
  <1>3. \A t \in Attempts :
           /\ Owner(t)' = Owner(t)
           /\ t \in drop => attempt'[t].state = "FAILED"
           /\ t \in doubt => /\ attempt'[t].state = "UNCERTAIN"
                             /\ attempt'[t].kind = RecoveredKind(t)
           /\ t \notin Interrupted => attempt'[t] = attempt[t]
    BY <1>1 DEF PreLaunch, Owner, InState, InDoubt, Record
  <1>4. \A t \in Interrupted :
           /\ t \in Attempts /\ attempt[t].state # "ABSENT"
           /\ attempt[t].state # "UNCERTAIN"
    BY DEF Interrupted, InFlight, Inv, Consistent, ClaimMatchesAttempt
  <1>5. \A t \in Attempts : attempt[t].state # "ABSENT" =>
           Owner(t) \in Assignments /\ assignment[Owner(t)] # "ABSENT"
    BY DEF Inv, Consistent, Owned, Tidy, Settled, Registered
  <1>6. Registered'
    <2>1. ASSUME NEW t \in Attempts, attempt'[t].state # "ABSENT"
          PROVE  assignment'[Owner(t)] # "ABSENT"
      <3>1. attempt[t].state # "ABSENT"
        BY <1>3, <1>4, <2>1
      <3>q. QED
        BY <1>2, <1>5, <3>1
    <2>q. QED
      BY <1>3, <2>1 DEF Registered
  <1>7. Unlaunched'
    <2>1. ASSUME NEW t \in Attempts,
                 assignment'[Owner(t)] \in {"READY", "WAITING_FOR_USAGE_RESET"}
          PROVE  attempt'[t].state \in Early
      <3>1. CASE attempt[t].state = "ABSENT"
        BY <1>3, <1>4, <3>1 DEF Early
      <3>2. CASE attempt[t].state # "ABSENT"
        <4>1. t \notin doubt /\ assignment'[Owner(t)] = assignment[Owner(t)]
          BY <1>2, <1>5, <2>1, <3>2
        <4>2. attempt[t].state \in Early
          BY <2>1, <4>1 DEF Tidy, Settled, Unlaunched
        <4>q. QED
          BY <1>3, <4>1, <4>2 DEF Early
      <3>q. QED
        BY <3>1, <3>2
    <2>q. QED
      BY <1>3, <2>1 DEF Unlaunched
  <1>8. Doubted'
    <2>1. ASSUME NEW b \in Assignments, assignment'[b] = "UNCERTAIN"
          PROVE  \E t \in Attempts : Owner(t) = b /\ attempt'[t].state = "UNCERTAIN"
      <3>1. CASE b \in S
        BY <1>3, <1>4, <3>1
      <3>2. CASE b \notin S
        <4>1. PICK t \in Attempts : Owner(t) = b /\ attempt[t].state = "UNCERTAIN"
          BY <1>2, <2>1, <3>2 DEF Tidy, Settled, Doubted
        <4>q. QED
          BY <1>3, <1>4, <4>1
      <3>q. QED
        BY <3>1, <3>2
    <2>q. QED
      BY <1>3, <2>1 DEF Doubted
  <1>9. DoneHoldsNoUsage'
    BY <1>1, <1>2 DEF Tidy, Settled, DoneHoldsNoUsage
  <1>10. ASSUME NEW t \in Attempts, Prospective(t)
         PROVE  Prospective(t)'
    <2>1. CASE t \in drop
      BY <1>3, <2>1 DEF Prospective, Early
    <2>2. CASE t \in doubt
      <3>1. attempt[t].state # "CANCELLATION_CLAIMED"
        BY <1>10 DEF Prospective, Early
      <3>2. attempt'[t].kind = "EXTERNAL_EXECUTION_OUTCOME_AMBIGUOUS"
        BY <1>3, <2>2, <3>1 DEF RecoveredKind
      <3>q. QED
        BY <1>3, <2>2, <3>2 DEF Prospective
    <2>3. CASE t \notin Interrupted
      BY <1>3, <1>10, <2>3 DEF Prospective
    <2>q. QED
      BY <2>1, <2>2, <2>3
  <1>11. Chosen'
    <2>1. \A r \in Runners : runner'[r] = runner[r] /\ Job(r)' = Job(r)
      BY <1>1 DEF Job
    <2>2. \A r \in Runners : runner[r].pc \in Choosing => Job(r) \in Assignments
      BY DEF Choosing, Inv, Typed, RunnersTyped
    <2>3. ASSUME NEW r \in Runners, runner[r].pc = "prepare"
          PROVE  assignment'[Job(r)] = "ABSENT"
      <3>1. Job(r) \in Assignments /\ assignment[Job(r)] = "ABSENT"
        BY <2>2, <2>3 DEF Tidy, Chosen, Choosing
      <3>2. Job(r) \notin S
        BY <1>4, <1>5, <3>1
      <3>q. QED
        BY <1>2, <3>1, <3>2
    <2>4. ASSUME NEW r \in Runners, runner[r].pc \in Choosing \ {"prepare"}
          PROVE  /\ assignment'[Job(r)] \in {"READY", "UNCERTAIN"}
                 /\ \A t \in Attempts : Owner(t)' = Job(r) => Prospective(t)'
      BY <1>2, <1>3, <1>10, <2>2, <2>4 DEF Tidy, Chosen
    <2>q. QED
      BY <1>1, <2>1, <2>3, <2>4 DEF Tidy, Chosen
  <1>q. QED
    BY <1>6, <1>7, <1>8, <1>9, <1>11 DEF Tidy, Settled

\* With one coordinator, every step leaves the assignments tidy.
LEMMA StepTidy ==
  ASSUME OneCoordinator, Inv, Tidy, [Next]_vars
  PROVE  Tidy'
  <1>1. ASSUME NEW r \in Runners, RunnerStep(r)
        PROVE  Tidy'
    BY <1>1, TidyElsewhere, TidyChoosing, TidyReserving, TidyReserve, TidyLaunch
    DEF RunnerStep, Inv
  <1>2. ASSUME NEW t \in Attempts, CancelStep(t)
        PROVE  Tidy'
    BY <1>2, TidyCancelling
  <1>3. ASSUME NEW a \in Assignments, LeaseStep(a)
        PROVE  Tidy'
    BY <1>3, TidyLease
  <1>4. CASE Recover
    BY <1>4, TidyRecovery
  <1>5. CASE UNCHANGED vars
    <2>1. UNCHANGED <<attempt, assignment, usage, runner>>
      BY <1>5 DEF vars, durable
    <2>q. QED
      BY <2>1, SettledSame DEF Tidy, Chosen, Job, Owner, Prospective
  <1>q. QED
    BY <1>1, <1>2, <1>3, <1>4, <1>5 DEF Next

\* Nothing is assigned yet.
LEMMA InitTidy == Init => Tidy
  BY DEF Init, Tidy, Settled, Registered, Unlaunched, Doubted, DoneHoldsNoUsage, Chosen,
     Choosing, Idle, At, NoAttempt, Early

\* While one coordinator drives the workflow, no assignment that is done holds a usage
\* reservation which nothing would ever consume.
THEOREM DoneIsFree ==
  ASSUME OneCoordinator
  PROVE  Spec => []DoneHoldsNoUsage
  <1>1. Inv /\ Tidy /\ [Next]_vars => Tidy'
    BY StepTidy
  <1>2. Tidy => DoneHoldsNoUsage
    BY DEF Tidy, Settled
  <1>q. QED
    BY <1>1, <1>2, InitTidy, Invariance, PTL DEF Spec
=============================================================================
