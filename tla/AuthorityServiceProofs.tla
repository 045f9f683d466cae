---------------------- MODULE AuthorityServiceProofs ----------------------
(***************************************************************************)
(* Proofs about KeeperAuthority and its provider host, for any attempts,    *)
(* threads, registrations and generations.  The host is looked at alone      *)
(* first: HostNext is what any step of the service does to it.  Then the     *)
(* attempts: AttemptMoves is how any step may change an attempt.            *)
(***************************************************************************)
EXTENDS AuthorityService, TLAPS

-----------------------------------------------------------------------------
(* Types                                                                    *)

\* A thread of execution has an attempt, which it read before it was claimed.
BusyThreads ==
    \A t \in Threads : ~At(t, "idle") =>
        /\ Att(t) \in Attempts
        /\ thread[t].seen \in {"RESERVED", "INPUT_BOUND"}
        /\ At(t, "return") => thread[t].result \in Results

BusyWorker == Working => worker.att \in Attempts

Typed == TypeOK /\ BusyThreads /\ BusyWorker

\* What a step of the whole does to the host.
HostQuiet ==
    \/ \E a \in Attempts :
          \/ PrepareEnvironment(a) \/ CancelActive(a)
          \/ \E n \in Nat : TakeLaunch(a, n) \/ RefuseLaunch(a, n)
    \/ \E r \in Registrations : BindProvider(r)
    \/ \E s \in Terminal : ProcessEnds(s)
    \/ LaunchRaises \/ HostStep
    \/ UNCHANGED hostVars

HostNext == HostQuiet \/ Acknowledged

\* The host is acknowledged in the step that records the start.
Recorded == Acknowledged /\ attempt'[worker.att] = "EXECUTION_STARTED"

LEMMA HostSteps ==
    ASSUME Typed, [Next]_vars
    PROVE  HostQuiet \/ Recorded
<1>1. ASSUME NEW r \in Registrations, RegistrationStep(r) PROVE HostQuiet
  BY <1>1 DEF RegistrationStep, RegisterProvider, BeginQualification,
     StageQualification, FailQualification, FailRegistration, BindQualified,
     CompleteQualification, AbandonQualification, ReconcileQualification,
     RevokeRegistration, HostQuiet
<1>2. ASSUME NEW g \in Generations,
             AuthorizeLaunch(g) \/ ExpireAuthorization(g) \/ RevokeLaunch(g)
      PROVE  HostQuiet
  BY <1>2 DEF AuthorizeLaunch, ExpireAuthorization, RevokeLaunch, HostQuiet
<1>3. ASSUME NEW a \in Attempts, AttemptStep(a) PROVE HostQuiet
  BY <1>3 DEF AttemptStep, ReadForReservation, InsertAttempt, RefuseReservation,
     BindProviderInput, PauseAttempt, ResumeAttempt, FinalizeCompletion,
     RecordOnly, HostQuiet
<1>4. ASSUME NEW a \in Attempts, CancelStep(a) PROVE HostQuiet
  BY <1>4 DEF CancelStep, ClaimCancellation, CallCancel, CancelAcknowledged,
     CancelNotAcknowledged, FinishCancellation, HostQuiet
<1>5. ASSUME NEW t \in Threads, ExecuteStep(t) PROVE HostQuiet \/ Recorded
  <2>1. ASSUME Execute(t) PROVE HostQuiet
    <3>1. Att(t) \in Attempts /\ thread[t].seq \in Nat
      BY <2>1 DEF Typed, TypeOK, BusyThreads, Execute, At
    <3>2. TakeLaunch(Att(t), thread[t].seq) \/ RefuseLaunch(Att(t), thread[t].seq)
      BY <2>1 DEF Execute
    <3>. QED  BY <3>1, <3>2 DEF HostQuiet
  <2>2. ASSUME PrepareLaunch(t) PROVE HostQuiet
    <3>1. Att(t) \in Attempts
      BY <2>2 DEF Typed, BusyThreads, PrepareLaunch, At
    <3>. QED  BY <2>2, <3>1 DEF PrepareLaunch, HostQuiet
  <2>3. ASSUME RecordStart(t) PROVE Recorded
    <3>1. /\ Att(t) \in Attempts /\ worker.att = Att(t)
          /\ attempt' = [attempt EXCEPT ![Att(t)] = "EXECUTION_STARTED"]
      BY <2>3 DEF Typed, BusyThreads, RecordStart, Transition, Drives, At
    <3>. QED  BY <2>3, <3>1 DEF RecordStart, Recorded, Typed, TypeOK
  <2>4. ASSUME \/ \E a \in Attempts : ReadForExecution(t, a)
               \/ ClaimLaunch(t) \/ RefuseExecution(t) \/ UsageExhausted(t)
               \/ MarkWaiting(t) \/ BuildEnvelope(t) \/ RefuseStart(t)
               \/ ConnectionLost(t) \/ ExecutionRaises(t)
               \/ RecordCompletion(t) \/ RecordFailure(t)
        PROVE  HostQuiet
    BY <2>4 DEF ReadForExecution, ClaimLaunch, RefuseExecution, UsageExhausted,
       MarkWaiting, BuildEnvelope, RefuseStart, ConnectionLost, ExecutionRaises,
       RecordCompletion, RecordFailure, HostQuiet
  <2>. QED  BY <1>5, <2>1, <2>2, <2>3, <2>4 DEF ExecuteStep
<1>6. ASSUME ExecutionEnds PROVE HostQuiet
  BY <1>6 DEF ExecutionEnds, HostQuiet
<1>7. ASSUME BeginFence \/ ExpireFence \/ CompleteFence \/ AbortFence \/ RecoverFence
      PROVE  HostQuiet
  BY <1>7 DEF BeginFence, ExpireFence, CompleteFence, AbortFence, RecoverFence,
     FenceStep, HostQuiet
<1>8. ASSUME AuthorityRestart PROVE HostQuiet
  BY <1>8 DEF AuthorityRestart, HostQuiet
<1>9. ASSUME HostAlone \/ WorkerRaises PROVE HostQuiet
  BY <1>9 DEF HostAlone, WorkerRaises, HostQuiet
<1>10. ASSUME UNCHANGED vars PROVE HostQuiet
  BY <1>10 DEF vars, HostQuiet
<1>. QED
  BY <1>1, <1>2, <1>3, <1>4, <1>5, <1>6, <1>7, <1>8, <1>9, <1>10 DEF Next

LEMMA HostTyped ==
    ASSUME HostTypeOK, BusyWorker, HostNext
    PROVE  HostTypeOK' /\ BusyWorker'
<1>. USE HostConstants DEF HostTypeOK, BusyWorker, Working, HostState, LaunchState,
         WorkerPC, Unresolved, Terminal, NoWorker
<1>1. ASSUME NEW a \in Attempts, PrepareEnvironment(a)
      PROVE  HostTypeOK' /\ BusyWorker'
  BY <1>1 DEF PrepareEnvironment
<1>2. ASSUME NEW a \in Attempts, CancelActive(a) PROVE HostTypeOK' /\ BusyWorker'
  BY <1>2 DEF CancelActive, Drives
<1>3. ASSUME NEW a \in Attempts, NEW n \in Nat, TakeLaunch(a, n)
      PROVE  HostTypeOK' /\ BusyWorker'
  BY <1>3 DEF TakeLaunch
<1>4. ASSUME NEW a \in Attempts, NEW n \in Nat, RefuseLaunch(a, n)
      PROVE  HostTypeOK' /\ BusyWorker'
  BY <1>4 DEF RefuseLaunch
<1>5. ASSUME NEW r \in Registrations, BindProvider(r)
      PROVE  HostTypeOK' /\ BusyWorker'
  BY <1>5 DEF BindProvider
<1>6. ASSUME NEW s \in Terminal, ProcessEnds(s) PROVE HostTypeOK' /\ BusyWorker'
  BY <1>6 DEF ProcessEnds, Leave
<1>7. CASE Acknowledged
  BY <1>7 DEF Acknowledged
<1>8. CASE LaunchRaises
  BY <1>8 DEF LaunchRaises, Leave
<1>9. CASE OnStarted
  BY <1>9 DEF OnStarted, Becomes
<1>10. CASE ResumeProcess
  BY <1>10 DEF ResumeProcess
<1>11. CASE OnResumed
  BY <1>11 DEF OnResumed, Becomes
<1>12. CASE HostRestart \/ StatusCommand
  <2>1. launch' \in [Attempts -> LaunchState]
    BY <1>12 DEF HostRestart, StatusCommand, RecoverUncertain
  <2>2. CASE HostRestart
    BY <2>1, <2>2 DEF HostRestart
  <2>3. CASE StatusCommand
    BY <2>1, <2>3 DEF StatusCommand
  <2>. QED  BY <1>12, <2>2, <2>3
<1>13. ASSUME NEW s \in HostState, SuspendHost(s) PROVE HostTypeOK' /\ BusyWorker'
  BY <1>13 DEF SuspendHost, CancelWork
<1>14. CASE Unlock \/ Drain
  BY <1>14 DEF Unlock, Drain
<1>16. CASE Logoff
  BY <1>16 DEF Logoff, CancelWork
<1>15. CASE UNCHANGED hostVars
  BY <1>15 DEF hostVars
<1>. QED
  BY <1>1, <1>2, <1>3, <1>4, <1>5, <1>6, <1>7, <1>8, <1>9, <1>10, <1>11, <1>12,
     <1>13, <1>14, <1>15, <1>16 DEF HostNext, HostQuiet, HostStep

\* The part of the type invariant that is not about the host.
LEMMA ServiceTyped ==
    ASSUME Typed, HostTypeOK', [Next]_vars
    PROVE  TypeOK' /\ BusyThreads'
<1>. USE HostConstants, AuthorityConstants
     DEF Typed, TypeOK, BusyThreads, At, Att, qualifying, authorities, attempts, threads
<1>1. ASSUME NEW r \in Registrations, RegisterProvider(r)
      PROVE TypeOK' /\ BusyThreads'
  BY <1>1 DEF RegisterProvider, RegistrationState, QualificationState
<1>2. ASSUME NEW r \in Registrations, BeginQualification(r)
      PROVE TypeOK' /\ BusyThreads'
  BY <1>2 DEF BeginQualification, RegistrationState, QualificationState
<1>3. ASSUME NEW r \in Registrations, StageQualification(r)
      PROVE TypeOK' /\ BusyThreads'
  BY <1>3 DEF StageQualification, TransitionPair, RegistrationState,
     QualificationState
<1>4. ASSUME NEW r \in Registrations, FailQualification(r)
      PROVE TypeOK' /\ BusyThreads'
  BY <1>4 DEF FailQualification, RegistrationState, QualificationState
<1>5. ASSUME NEW r \in Registrations, FailRegistration(r)
      PROVE TypeOK' /\ BusyThreads'
  BY <1>5 DEF FailRegistration, RegistrationState, QualificationState
<1>6. ASSUME NEW r \in Registrations, BindQualified(r)
      PROVE TypeOK' /\ BusyThreads'
  BY <1>6 DEF BindQualified
<1>7. ASSUME NEW r \in Registrations, CompleteQualification(r)
      PROVE TypeOK' /\ BusyThreads'
  BY <1>7 DEF CompleteQualification, TransitionPair, RegistrationState,
     QualificationState
<1>8. ASSUME NEW r \in Registrations, AbandonQualification(r)
      PROVE TypeOK' /\ BusyThreads'
  BY <1>8 DEF AbandonQualification
<1>9. ASSUME NEW r \in Registrations, ReconcileQualification(r)
      PROVE TypeOK' /\ BusyThreads'
  BY <1>9 DEF ReconcileQualification
<1>10. ASSUME NEW r \in Registrations, RevokeRegistration(r)
      PROVE TypeOK' /\ BusyThreads'
  BY <1>10 DEF RevokeRegistration, RegistrationState, QualificationState
<1>11. ASSUME NEW g \in Generations, AuthorizeLaunch(g)
      PROVE TypeOK' /\ BusyThreads'
  BY <1>11 DEF AuthorizeLaunch
<1>12. ASSUME NEW g \in Generations, ExpireAuthorization(g)
      PROVE TypeOK' /\ BusyThreads'
  BY <1>12 DEF ExpireAuthorization
<1>13. ASSUME NEW g \in Generations, RevokeLaunch(g)
      PROVE TypeOK' /\ BusyThreads'
  BY <1>13 DEF RevokeLaunch, AttemptState, Results
<1>14. ASSUME NEW a \in Attempts, NEW g \in Generations, ReadForReservation(a, g)
      PROVE TypeOK' /\ BusyThreads'
  BY <1>14 DEF ReadForReservation, Generations
<1>15. ASSUME NEW a \in Attempts, InsertAttempt(a)
      PROVE TypeOK' /\ BusyThreads'
  BY <1>15 DEF InsertAttempt, AttemptState
<1>16. ASSUME NEW a \in Attempts, RefuseReservation(a)
      PROVE TypeOK' /\ BusyThreads'
  BY <1>16 DEF RefuseReservation, AttemptState
<1>17. ASSUME NEW a \in Attempts, BindProviderInput(a)
      PROVE TypeOK' /\ BusyThreads'
  BY <1>17 DEF BindProviderInput, RecordOnly, Transition, AttemptState, Results
<1>18. ASSUME NEW a \in Attempts, PauseAttempt(a)
      PROVE TypeOK' /\ BusyThreads'
  BY <1>18 DEF PauseAttempt, RecordOnly, Transition, AttemptState, Results
<1>19. ASSUME NEW a \in Attempts, ResumeAttempt(a)
      PROVE TypeOK' /\ BusyThreads'
  BY <1>19 DEF ResumeAttempt, RecordOnly, Transition, AttemptState, Results
<1>20. ASSUME NEW a \in Attempts, FinalizeCompletion(a)
      PROVE TypeOK' /\ BusyThreads'
  BY <1>20 DEF FinalizeCompletion, RecordOnly, Transition, AttemptState, Results
<1>21. ASSUME NEW a \in Attempts, ClaimCancellation(a)
      PROVE TypeOK' /\ BusyThreads'
  BY <1>21 DEF ClaimCancellation, Transition, AttemptState
<1>22. ASSUME NEW a \in Attempts, FinishCancellation(a)
      PROVE TypeOK' /\ BusyThreads'
  <2>1. attempt' \in [Attempts -> AttemptState]
    BY <1>22 DEF FinishCancellation, Transition, AttemptState, Results
  <2>2. canceller' \in [Attempts -> {"none", "call", "rpc", "finish"}]
    BY <1>22 DEF FinishCancellation
  <2>. QED  BY <1>22, <2>1, <2>2 DEF FinishCancellation
<1>23. ASSUME NEW a \in Attempts, CallCancel(a)
      PROVE TypeOK' /\ BusyThreads'
  BY <1>23 DEF CallCancel
<1>24. ASSUME NEW a \in Attempts, CancelAcknowledged(a)
      PROVE TypeOK' /\ BusyThreads'
  BY <1>24 DEF CancelAcknowledged
<1>25. ASSUME NEW a \in Attempts, CancelNotAcknowledged(a)
      PROVE TypeOK' /\ BusyThreads'
  BY <1>25 DEF CancelNotAcknowledged
<1>26. ASSUME NEW t \in Threads, NEW a \in Attempts, ReadForExecution(t, a)
      PROVE TypeOK' /\ BusyThreads'
  <2> DEFINE read == [NoThread EXCEPT !.pc = "claim", !.att = a, !.seen = attempt[a]]
  <2>1. /\ read.pc = "claim" /\ read.att = a
        /\ read.seen \in {"RESERVED", "INPUT_BOUND"}
    BY <1>26 DEF ReadForExecution, NoThread
  <2>2. read \in [pc : ThreadPC, att : Attempts \cup {None}, seen : AttemptState,
                  seq : Nat, result : Results \cup {None}]
    BY DEF NoThread, ThreadPC
  <2>3. thread' = [thread EXCEPT ![t] = read]
    BY <1>26 DEF ReadForExecution
  <2> HIDE DEF read
  <2>4. thread'[t] = read /\ \A u \in Threads \ {t} : thread'[u] = thread[u]
    BY <2>3
  <2>5. BusyThreads'
    <3>. SUFFICES ASSUME NEW u \in Threads, thread'[u].pc # "idle"
                  PROVE  /\ thread'[u].att \in Attempts
                         /\ thread'[u].seen \in {"RESERVED", "INPUT_BOUND"}
                         /\ thread'[u].pc = "return" => thread'[u].result \in Results
      OBVIOUS
    <3>1. CASE u = t
      BY <2>1, <2>4, <3>1
    <3>2. CASE u # t
      BY <2>4, <3>2
    <3>. QED  BY <3>1, <3>2
  <2>6. thread' \in [Threads -> [pc : ThreadPC, att : Attempts \cup {None},
                                seen : AttemptState, seq : Nat,
                                result : Results \cup {None}]]
    BY <2>2, <2>3
  <2>7. TypeOK'
    BY <1>26, <2>6 DEF ReadForExecution
  <2> HIDE DEF TypeOK, BusyThreads
  <2>. QED  BY <2>5, <2>7
<1>27. ASSUME NEW t \in Threads, ClaimLaunch(t)
      PROVE TypeOK' /\ BusyThreads'
  BY <1>27 DEF ClaimLaunch, Transition, Goto, ThreadPC, AttemptState, Results
<1>28. ASSUME NEW t \in Threads, MarkWaiting(t)
      PROVE TypeOK' /\ BusyThreads'
  BY <1>28 DEF MarkWaiting, Transition, Finish, NoThread, ThreadPC,
     AttemptState, Results
<1>29. ASSUME NEW t \in Threads, RecordCompletion(t)
      PROVE TypeOK' /\ BusyThreads'
  BY <1>29 DEF RecordCompletion, Transition, Finish, NoThread, ThreadPC,
     AttemptState, Results
<1>30. ASSUME NEW t \in Threads, RecordFailure(t)
      PROVE TypeOK' /\ BusyThreads'
  BY <1>30 DEF RecordFailure, Transition, Finish, NoThread, ThreadPC,
     AttemptState, Results
<1>31. ASSUME NEW t \in Threads, RefuseExecution(t)
      PROVE TypeOK' /\ BusyThreads'
  BY <1>31 DEF RefuseExecution, Finish, NoThread, ThreadPC, AttemptState
<1>32. ASSUME NEW t \in Threads, UsageExhausted(t)
      PROVE TypeOK' /\ BusyThreads'
  BY <1>32 DEF UsageExhausted, Goto, ThreadPC
<1>33. ASSUME NEW t \in Threads, PrepareLaunch(t)
      PROVE TypeOK' /\ BusyThreads'
  BY <1>33 DEF PrepareLaunch, Goto, ThreadPC
<1>34. ASSUME NEW t \in Threads, Execute(t)
      PROVE TypeOK' /\ BusyThreads'
  <2>1. PICK pc \in {"rpc", "failed"} : Goto(t, pc)
    BY <1>34 DEF Execute
  <2>2. thread' \in [Threads -> [pc : ThreadPC, att : Attempts \cup {None},
                                seen : AttemptState, seq : Nat,
                                result : Results \cup {None}]]
    BY <2>1 DEF Goto, ThreadPC
  <2>3. BusyThreads'
    <3>1. thread[t].pc = "lock"
      BY <1>34 DEF Execute
    <3>. QED  BY <2>1, <3>1 DEF Goto
  <2>4. lifecycleLock' \in Threads \cup {None}
    BY <1>34 DEF Execute
  <2>5. TypeOK'
    BY <1>34, <2>2, <2>4 DEF Execute
  <2> HIDE DEF TypeOK, BusyThreads
  <2>. QED  BY <2>3, <2>5
<1>35. ASSUME NEW t \in Threads, RefuseStart(t)
      PROVE TypeOK' /\ BusyThreads'
  BY <1>35 DEF RefuseStart, Goto, ThreadPC
<1>36. ASSUME NEW t \in Threads, ConnectionLost(t)
      PROVE TypeOK' /\ BusyThreads'
  BY <1>36 DEF ConnectionLost, Goto, ThreadPC
<1>37. ASSUME NEW t \in Threads, ExecutionRaises(t)
      PROVE TypeOK' /\ BusyThreads'
  BY <1>37 DEF ExecutionRaises, Goto, ThreadPC
<1>38. ASSUME NEW t \in Threads, BuildEnvelope(t)
      PROVE TypeOK' /\ BusyThreads'
  <2>1. sequence' \in Nat
    BY <1>38 DEF BuildEnvelope
  <2>2. thread'[t] = [thread[t] EXCEPT !.pc = "lock", !.seq = sequence']
    BY <1>38 DEF BuildEnvelope
  <2>3. \A u \in Threads \ {t} : thread'[u] = thread[u]
    BY <1>38 DEF BuildEnvelope
  <2> DEFINE T == [pc : ThreadPC, att : Attempts \cup {None}, seen : AttemptState, seq : Nat,
            result : Results \cup {None}]
  <2>4. thread' \in [Threads -> T]
    <3>1. thread[t] \in T /\ "lock" \in ThreadPC
      BY DEF ThreadPC
    <3>2. [thread[t] EXCEPT !.pc = "lock", !.seq = sequence'] \in T
      BY <2>1, <3>1
    <3>3. thread' = [thread EXCEPT ![t] = thread'[t]]
      BY <1>38 DEF BuildEnvelope
    <3>. QED  BY <2>2, <3>2, <3>3
  <2>5. BusyThreads'
    BY <1>38, <2>2, <2>3 DEF BuildEnvelope, ThreadPC
  <2>. QED  BY <1>38, <2>1, <2>4, <2>5 DEF BuildEnvelope
<1>39. ASSUME NEW t \in Threads, RecordStart(t)
      PROVE TypeOK' /\ BusyThreads'
  BY <1>39 DEF RecordStart, Transition, Goto, ThreadPC, AttemptState
<1>40. CASE ExecutionEnds
  <2>1. PICK s \in Terminal :
            \/ /\ lifecycleLock' = None
               /\ \E t \in Threads :
                     /\ At(t, "started")
                     /\ \E w \in Classified(s) :
                           thread' = [thread EXCEPT ![t].pc = "return",
                                                    ![t].result = w]
            \/ UNCHANGED <<lifecycleLock, thread>>
    BY <1>40 DEF ExecutionEnds
  <2>2. UNCHANGED <<qualifying, authorities, attempts, reserving, canceller,
                    sequence, fence>>
    BY <1>40 DEF ExecutionEnds
  <2>3. CASE UNCHANGED <<lifecycleLock, thread>>
    BY <2>2, <2>3
  <2>4. ASSUME lifecycleLock' = None, NEW t \in Threads, At(t, "started"),
               NEW w \in Classified(s),
               thread' = [thread EXCEPT ![t].pc = "return", ![t].result = w]
        PROVE  TypeOK' /\ BusyThreads'
    <3>1. w \in Results
      BY <2>4 DEF Classified, Terminal, Results
    <3> DEFINE T == [pc : ThreadPC, att : Attempts \cup {None}, seen : AttemptState, seq : Nat,
              result : Results \cup {None}]
    <3>2. thread' \in [Threads -> T]
      <4>1. thread[t] \in T /\ "return" \in ThreadPC
        BY DEF ThreadPC
      <4>2. [thread[t] EXCEPT !.pc = "return", !.result = w] \in T
        BY <3>1, <4>1
      <4>3. thread' = [thread EXCEPT ![t] = [thread[t] EXCEPT !.pc = "return",
                                                              !.result = w]]
        BY <2>4
      <4>. QED  BY <4>2, <4>3
    <3>3. /\ thread'[t].pc = "return" /\ thread'[t].result = w
          /\ thread'[t].att = thread[t].att /\ thread'[t].seen = thread[t].seen
          /\ \A u \in Threads \ {t} : thread'[u] = thread[u]
      BY <2>4
    <3>4. BusyThreads'
      BY <2>4, <3>1, <3>3
    <3>. QED  BY <2>2, <2>4, <3>2, <3>4
  <2>. QED  BY <2>1, <2>3, <2>4
<1>41. CASE BeginFence \/ ExpireFence \/ CompleteFence \/ AbortFence \/ RecoverFence
  BY <1>41 DEF BeginFence, ExpireFence, CompleteFence, AbortFence,
     RecoverFence, FenceStep
<1>42. CASE AuthorityRestart
  BY <1>42 DEF AuthorityRestart, NoThread, ThreadPC, AttemptState
<1>43. CASE HostAlone \/ WorkerRaises
  BY <1>43 DEF HostAlone, WorkerRaises, authorityVars
<1>44. CASE UNCHANGED vars
  BY <1>44 DEF vars, authorityVars
<1>. QED
  BY <1>1, <1>2, <1>3, <1>4, <1>5, <1>6, <1>7, <1>8, <1>9, <1>10, <1>11,
     <1>12, <1>13, <1>14, <1>15, <1>16, <1>17, <1>18, <1>19, <1>20, <1>21,
     <1>22, <1>23, <1>24, <1>25, <1>26, <1>27, <1>28, <1>29, <1>30, <1>31,
     <1>32, <1>33, <1>34, <1>35, <1>36, <1>37, <1>38, <1>39, <1>40, <1>41,
     <1>42, <1>43, <1>44 DEF Next, RegistrationStep, AttemptStep, CancelStep,
     ExecuteStep

-----------------------------------------------------------------------------
(* The host alone                                                           *)

\* A launch the journal does not know has not run and is not being run, and a
\* worker that has not resumed its process has not run it.
Journal ==
    /\ \A a \in Attempts : launch[a] = "NONE" => ran[a] = 0 /\ ~Drives(a)
    /\ Working /\ worker.pc \in {"start", "ack", "resume"} => ran[worker.att] = 0

HostInv == Journal /\ RunsAtMostOnce /\ OneLaunchPerWorkspace

\* What the journal makes of a launch that raised.
LEMMA RaisedIsKept ==
    ASSUME launch \in [Attempts -> LaunchState], LaunchRaises
    PROVE  \A a \in Attempts :
              \/ launch'[a] = launch[a]
              \/ launch[a] = "CLAIMED" /\ launch'[a] = "FAILED"
              \/ launch[a] \in {"STARTED", "RUNNING"} /\ launch'[a] = "UNCERTAIN"
<1> DEFINE s == launch[worker.att]
           end == CASE s = "CLAIMED" -> "FAILED"
                    [] s \in {"STARTED", "RUNNING"} -> "UNCERTAIN"
                    [] OTHER -> s
<1>1. launch' = [launch EXCEPT ![worker.att] = end]
  BY DEF LaunchRaises
<1>2. \/ end = s
      \/ s = "CLAIMED" /\ end = "FAILED"
      \/ s \in {"STARTED", "RUNNING"} /\ end = "UNCERTAIN"
  OBVIOUS
<1> HIDE DEF end
<1>. QED  BY <1>1, <1>2

\* The host keeps its journal whatever the service asks of it.
LEMMA HostKeepsJournal ==
    ASSUME HostTypeOK, BusyWorker, HostInv, HostNext
    PROVE  HostInv'
<1>. USE HostConstants DEF HostTypeOK, BusyWorker, HostInv, Journal, RunsAtMostOnce,
         OneLaunchPerWorkspace, Working, Drives, NoWorker
<1>1. ASSUME NEW a \in Attempts, PrepareEnvironment(a) PROVE HostInv'
  BY <1>1 DEF PrepareEnvironment
<1>2. ASSUME NEW a \in Attempts, CancelActive(a) PROVE HostInv'
  <2>1. UNCHANGED <<launch, ran>> /\ worker'.pc = worker.pc /\ worker'.att = worker.att
    BY <1>2 DEF CancelActive
  <2>. QED  BY <2>1
<1>3. ASSUME NEW a \in Attempts, NEW n \in Nat, TakeLaunch(a, n) PROVE HostInv'
  <2>1. launch' = [launch EXCEPT ![a] = "CLAIMED"] /\ UNCHANGED ran /\ ran[a] = 0
    BY <1>3 DEF TakeLaunch, Claimable
  <2>2. worker' = [att |-> a, pc |-> "start", cancelled |-> FALSE]
    BY <1>3 DEF TakeLaunch
  <2>3. Journal' /\ RunsAtMostOnce'
    BY <2>1, <2>2
  <2>4. ~BlockedWorkspace(a)
    BY <1>3 DEF TakeLaunch, Claimable
  <2>5. OneLaunchPerWorkspace'
    BY <2>1, <2>4 DEF BlockedWorkspace, Unresolved
  <2>. QED  BY <2>3, <2>5
<1>4. ASSUME NEW a \in Attempts, NEW n \in Nat, RefuseLaunch(a, n) PROVE HostInv'
  BY <1>4 DEF RefuseLaunch
<1>5. ASSUME NEW r \in Registrations, BindProvider(r) PROVE HostInv'
  BY <1>5 DEF BindProvider
<1>6. ASSUME NEW s \in Terminal, ProcessEnds(s) PROVE HostInv'
  <2>1. /\ launch' = [launch EXCEPT ![worker.att] = s] /\ UNCHANGED ran
        /\ worker'.pc = "idle" /\ worker.att \in Attempts
    BY <1>6 DEF ProcessEnds, Leave
  <2>. QED  BY <2>1 DEF Terminal, Unresolved
<1>7. CASE Acknowledged
  <2>1. /\ UNCHANGED <<launch, ran>> /\ worker'.pc = "resume" /\ worker.pc = "ack"
        /\ worker'.att = worker.att
    BY <1>7 DEF Acknowledged
  <2>. QED  BY <2>1
<1>8. CASE LaunchRaises
  <2>1. /\ UNCHANGED ran /\ worker'.pc = "idle" /\ worker.att \in Attempts
        /\ launch[worker.att] # "NONE"
    BY <1>8 DEF LaunchRaises, Leave
  <2>2. \A a \in Attempts :
            \/ launch'[a] = launch[a]
            \/ launch[a] = "CLAIMED" /\ launch'[a] = "FAILED"
            \/ launch[a] \in {"STARTED", "RUNNING"} /\ launch'[a] = "UNCERTAIN"
    BY <1>8, RaisedIsKept
  <2>. QED  BY <2>1, <2>2 DEF Unresolved
<1>9. CASE OnStarted
  <2>1. /\ launch' = [launch EXCEPT ![worker.att] = "STARTED"] /\ UNCHANGED ran
        /\ launch[worker.att] = "CLAIMED" /\ worker.pc = "start"
        /\ worker'.pc = "ack" /\ worker'.att = worker.att /\ worker.att \in Attempts
    BY <1>9 DEF OnStarted
  <2>. QED  BY <2>1 DEF Unresolved
<1>10. CASE ResumeProcess
  <2>1. /\ ran' = [ran EXCEPT ![worker.att] = @ + 1] /\ UNCHANGED launch
        /\ worker.pc = "resume" /\ worker'.pc = "journal"
        /\ worker'.att = worker.att /\ worker.att \in Attempts
    BY <1>10 DEF ResumeProcess
  <2>. QED  BY <2>1
<1>11. CASE OnResumed
  <2>1. /\ launch' = [launch EXCEPT ![worker.att] = "RUNNING"] /\ UNCHANGED ran
        /\ launch[worker.att] = "STARTED" /\ worker.pc = "journal"
        /\ worker'.pc = "running" /\ worker'.att = worker.att
        /\ worker.att \in Attempts
    BY <1>11 DEF OnResumed
  <2>. QED  BY <2>1 DEF Unresolved
<1>12. ASSUME RecoverUncertain, UNCHANGED ran, worker' \in {worker, NoWorker}
       PROVE  HostInv'
  BY <1>12 DEF RecoverUncertain, Unresolved
<1>13. CASE HostRestart \/ StatusCommand
  BY <1>12, <1>13 DEF HostRestart, StatusCommand
<1>14. ASSUME NEW s \in HostState, SuspendHost(s) PROVE HostInv'
  <2>1. UNCHANGED <<launch, ran>> /\ worker'.pc = worker.pc /\ worker'.att = worker.att
    BY <1>14 DEF SuspendHost, CancelWork
  <2>. QED  BY <2>1
<1>15. CASE Logoff
  <2>1. UNCHANGED <<launch, ran>> /\ worker'.pc = worker.pc /\ worker'.att = worker.att
    BY <1>15 DEF Logoff, CancelWork
  <2>. QED  BY <2>1
<1>16. CASE Unlock \/ Drain
  BY <1>16 DEF Unlock, Drain
<1>17. CASE UNCHANGED hostVars
  BY <1>17 DEF hostVars
<1>. QED
  BY <1>1, <1>2, <1>3, <1>4, <1>5, <1>6, <1>7, <1>8, <1>9, <1>10, <1>11, <1>13,
     <1>14, <1>15, <1>16, <1>17 DEF HostNext, HostQuiet, HostStep

-----------------------------------------------------------------------------
(* Bindings                                                                 *)

Binding ==
    \A r \in Registrations :
        registration[r] = "QUALIFIED" \/ qualifier[r] = "complete" => binding = r

\* Once bound, the host is never bound to another registration.
LEMMA BindingStands ==
    ASSUME HostTypeOK, HostNext, binding # None
    PROVE  binding' = binding
  BY DEF HostNext, HostQuiet, PrepareEnvironment, CancelActive, TakeLaunch, RefuseLaunch,
     BindProvider, Bindable, ProcessEnds, Acknowledged, LaunchRaises, HostStep,
     OnStarted, ResumeProcess, OnResumed, HostRestart, StatusCommand, SuspendHost,
     Unlock, Drain, Logoff, hostVars

\* Only a registration request or a restart changes what is known of registrations.
LEMMA QualifyingSteps ==
    ASSUME [Next]_vars
    PROVE  \/ \E r \in Registrations : RegistrationStep(r)
           \/ AuthorityRestart
           \/ UNCHANGED qualifying
<1>. USE DEF threads, authorityVars
<1>1. ASSUME NEW g \in Generations,
             AuthorizeLaunch(g) \/ ExpireAuthorization(g) \/ RevokeLaunch(g)
      PROVE  UNCHANGED qualifying
  BY <1>1 DEF AuthorizeLaunch, ExpireAuthorization, RevokeLaunch
<1>2. ASSUME NEW a \in Attempts, AttemptStep(a) \/ CancelStep(a)
      PROVE  UNCHANGED qualifying
  BY <1>2 DEF AttemptStep, ReadForReservation, InsertAttempt, RefuseReservation,
     BindProviderInput, PauseAttempt, ResumeAttempt, FinalizeCompletion,
     RecordOnly, CancelStep, ClaimCancellation, CallCancel, CancelAcknowledged,
     CancelNotAcknowledged, FinishCancellation
<1>3. ASSUME NEW t \in Threads, ExecuteStep(t) PROVE UNCHANGED qualifying
  BY <1>3 DEF ExecuteStep, ReadForExecution, ClaimLaunch, RefuseExecution,
     UsageExhausted, MarkWaiting, PrepareLaunch, BuildEnvelope, Execute,
     RecordStart, RefuseStart, ConnectionLost, ExecutionRaises, RecordCompletion,
     RecordFailure
<1>4. ASSUME ExecutionEnds \/ HostAlone \/ WorkerRaises PROVE UNCHANGED qualifying
  BY <1>4 DEF ExecutionEnds, HostAlone, WorkerRaises
<1>5. ASSUME BeginFence \/ ExpireFence \/ CompleteFence \/ AbortFence \/ RecoverFence
      PROVE  UNCHANGED qualifying
  BY <1>5 DEF BeginFence, ExpireFence, CompleteFence, AbortFence, RecoverFence,
     FenceStep
<1>6. ASSUME UNCHANGED vars PROVE UNCHANGED qualifying
  BY <1>6 DEF vars
<1>. QED  BY <1>1, <1>2, <1>3, <1>4, <1>5, <1>6 DEF Next

LEMMA BindingStep ==
    ASSUME Typed, Binding, [Next]_vars
    PROVE  Binding'
<1>. USE DEF Typed, TypeOK, Binding
<1>1. binding # None => binding' = binding
  BY HostSteps, BindingStands DEF HostNext, Recorded
<1>2. None \notin Registrations
  BY HostConstants
<1>3. ASSUME \A r \in Registrations :
                /\ registration'[r] = registration[r] \/ registration'[r] # "QUALIFIED"
                /\ qualifier'[r] = qualifier[r] \/ qualifier'[r] # "complete"
      PROVE  Binding'
  BY <1>1, <1>2, <1>3
<1>4. ASSUME NEW r \in Registrations, RegistrationStep(r) PROVE Binding'
  <2>1. CASE BindQualified(r)
    <3>1. binding' = r /\ UNCHANGED registration
      BY <2>1 DEF BindQualified, BindProvider
    <3>2. \A q \in Registrations \ {r} : qualifier'[q] = qualifier[q]
      BY <2>1 DEF BindQualified
    <3>. QED  BY <1>1, <1>2, <3>1, <3>2
  <2>2. CASE CompleteQualification(r)
    <3>1. /\ qualifier[r] = "complete" /\ qualifier'[r] = "none"
          /\ \A q \in Registrations \ {r} :
                qualifier'[q] = qualifier[q] /\ registration'[q] = registration[q]
      BY <2>2 DEF CompleteQualification, TransitionPair
    <3>. QED  BY <1>1, <1>2, <3>1
  <2>3. CASE RegisterProvider(r) \/ BeginQualification(r) \/ FailRegistration(r)
             \/ RevokeRegistration(r)
    BY <1>3, <2>3 DEF RegisterProvider, BeginQualification, FailRegistration,
       RevokeRegistration
  <2>4. CASE StageQualification(r) \/ FailQualification(r)
             \/ AbandonQualification(r) \/ ReconcileQualification(r)
    BY <1>3, <2>4 DEF StageQualification, TransitionPair, FailQualification,
       AbandonQualification, ReconcileQualification
  <2>. QED  BY <1>4, <2>1, <2>2, <2>3, <2>4 DEF RegistrationStep
<1>5. CASE AuthorityRestart
  BY <1>3, <1>5 DEF AuthorityRestart
<1>6. CASE UNCHANGED qualifying
  BY <1>3, <1>6 DEF qualifying
<1>. QED
  BY <1>4, <1>5, <1>6, QualifyingSteps

-----------------------------------------------------------------------------
(* The attempts                                                             *)

\* How the state of an attempt may change.
Moves ==
    ({"ABSENT"} \X {"RESERVED"})
    \cup ({"RESERVED"} \X {"INPUT_BOUND"})
    \cup ({"RESERVED", "INPUT_BOUND"} \X {"LAUNCH_CLAIMED", "WAITING_FOR_USAGE_RESET"})
    \cup ({"RESERVED", "INPUT_BOUND", "LAUNCH_CLAIMED"} \X {"CANCELLED"})
    \cup ({"LAUNCH_CLAIMED"} \X {"EXECUTION_STARTED", "UNCERTAIN"})
    \cup ({"EXECUTION_STARTED"} \X (Results \cup {"PAUSED"}))
    \cup ({"PAUSED"} \X {"EXECUTION_STARTED"})
    \cup (Cancellable \X {"CANCELLATION_CLAIMED"})
    \cup ({"CANCELLATION_CLAIMED"} \X {"CANCELLED"})

Move(a) ==
    /\ Unfenced
    /\ <<attempt[a], attempt'[a]>> \in Moves
    /\ IF attempt[a] = "ABSENT"
         THEN reserving[a] # 0 /\ reserving'[a] = 0 /\ generation'[a] = reserving[a]
         ELSE generation'[a] = generation[a]
    /\ attempt'[a] = "LAUNCH_CLAIMED" => LaunchAuthorized(a)

Keep(a) == attempt'[a] = attempt[a] /\ generation'[a] = generation[a]

AttemptMoves == \A a \in Attempts : Keep(a) \/ Move(a)

\* A reservation that is being made is for an attempt that does not exist, and an
\* attempt that exists was reserved under a generation.
Reserved ==
    \A a \in Attempts :
        /\ reserving[a] # 0 => attempt[a] = "ABSENT"
        /\ attempt[a] # "ABSENT" => generation[a] \in Generations

LEMMA OneMoves ==
    ASSUME TypeOK, NEW a \in Attempts, NEW from, NEW to,
           Transition(a, from, to), generation' = generation,
           from # "ABSENT", <<from, to>> \in Moves, to = "LAUNCH_CLAIMED" => LaunchAuthorized(a)
    PROVE  AttemptMoves
<1>1. Unfenced /\ attempt[a] = from /\ attempt' = [attempt EXCEPT ![a] = to]
  BY DEF Transition
<1>2. attempt'[a] = to /\ \A b \in Attempts \ {a} : attempt'[b] = attempt[b]
  BY <1>1 DEF TypeOK
<1>3. Move(a)
  BY <1>1, <1>2 DEF Move
<1>4. \A b \in Attempts \ {a} : Keep(b)
  BY <1>2 DEF Keep
<1>. QED  BY <1>3, <1>4 DEF AttemptMoves

LEMMA NoneMoves ==
    ASSUME UNCHANGED attempts
    PROVE  AttemptMoves
  BY DEF attempts, AttemptMoves, Keep

\* Every step of the service keeps to the moves.
LEMMA AttemptSteps ==
    ASSUME Typed, Reserved, [Next]_vars
    PROVE  AttemptMoves
<1>. USE DEF Typed
<1>1. ASSUME NEW r \in Registrations, RegistrationStep(r) PROVE AttemptMoves
  BY <1>1, NoneMoves DEF RegistrationStep, RegisterProvider, BeginQualification,
     StageQualification, FailQualification, FailRegistration, BindQualified,
     CompleteQualification, AbandonQualification, ReconcileQualification,
     RevokeRegistration
<1>2. ASSUME NEW g \in Generations, AuthorizeLaunch(g) \/ ExpireAuthorization(g)
      PROVE  AttemptMoves
  BY <1>2, NoneMoves DEF AuthorizeLaunch, ExpireAuthorization
<1>3. ASSUME NEW g \in Generations, RevokeLaunch(g) PROVE AttemptMoves
  <2>1. /\ Unfenced /\ generation' = generation
        /\ \A a \in Attempts : attempt'[a] = IF a \in Withdrawn(g) THEN "CANCELLED"
                                                                  ELSE attempt[a]
    BY <1>3 DEF RevokeLaunch
  <2>. QED  BY <2>1 DEF Withdrawn, AttemptMoves, Keep, Move, Moves
<1>4. ASSUME NEW a \in Attempts,
             \/ \E g \in Generations : ReadForReservation(a, g)
             \/ RefuseReservation(a)
      PROVE  AttemptMoves
  BY <1>4, NoneMoves DEF ReadForReservation, RefuseReservation
<1>5. ASSUME NEW a \in Attempts, InsertAttempt(a) PROVE AttemptMoves
  <2>1. /\ Unfenced /\ attempt[a] = "ABSENT" /\ attempt'[a] = "RESERVED"
        /\ reserving[a] # 0 /\ reserving'[a] = 0 /\ generation'[a] = reserving[a]
        /\ \A b \in Attempts \ {a} : attempt'[b] = attempt[b]
                                     /\ generation'[b] = generation[b]
    BY <1>5 DEF InsertAttempt, Reserved, TypeOK
  <2>. QED  BY <2>1 DEF AttemptMoves, Keep, Move, Moves
<1>6. ASSUME NEW a \in Attempts, BindProviderInput(a) PROVE AttemptMoves
  BY <1>6, OneMoves DEF BindProviderInput, RecordOnly, Moves
<1>7. ASSUME NEW a \in Attempts, PauseAttempt(a) \/ ResumeAttempt(a)
      PROVE  AttemptMoves
  BY <1>7, OneMoves DEF PauseAttempt, ResumeAttempt, RecordOnly, Moves
<1>8. ASSUME NEW a \in Attempts, FinalizeCompletion(a) PROVE AttemptMoves
  BY <1>8, OneMoves DEF FinalizeCompletion, RecordOnly, Moves, Results
<1>9. ASSUME NEW a \in Attempts, ClaimCancellation(a) PROVE AttemptMoves
  BY <1>9, OneMoves DEF ClaimCancellation, Moves, Cancellable
<1>10. ASSUME NEW a \in Attempts, FinishCancellation(a) PROVE AttemptMoves
  <2>1. \/ Transition(a, "CANCELLATION_CLAIMED", "CANCELLED") \/ UNCHANGED attempt
    BY <1>10 DEF FinishCancellation
  <2>2. generation' = generation
    BY <1>10 DEF FinishCancellation
  <2>. QED  BY <2>1, <2>2, OneMoves, NoneMoves DEF Moves, attempts
<1>11. ASSUME NEW a \in Attempts,
              CallCancel(a) \/ CancelAcknowledged(a) \/ CancelNotAcknowledged(a)
       PROVE  AttemptMoves
  BY <1>11, NoneMoves DEF CallCancel, CancelAcknowledged, CancelNotAcknowledged
<1>12. ASSUME NEW t \in Threads, ClaimLaunch(t) PROVE AttemptMoves
  <2>1. Att(t) \in Attempts /\ thread[t].seen \in {"RESERVED", "INPUT_BOUND"}
    BY <1>12 DEF ClaimLaunch, BusyThreads, At
  <2>2. /\ Transition(Att(t), thread[t].seen, "LAUNCH_CLAIMED")
        /\ LaunchAuthorized(Att(t)) /\ generation' = generation
    BY <1>12 DEF ClaimLaunch
  <2>3. <<thread[t].seen, "LAUNCH_CLAIMED">> \in Moves
    BY <2>1 DEF Moves
  <2>. QED  BY <2>1, <2>2, <2>3, OneMoves
<1>13. ASSUME NEW t \in Threads, MarkWaiting(t) PROVE AttemptMoves
  <2>1. Att(t) \in Attempts /\ thread[t].seen \in {"RESERVED", "INPUT_BOUND"}
    BY <1>13 DEF MarkWaiting, BusyThreads, At
  <2>2. \/ Transition(Att(t), thread[t].seen, "WAITING_FOR_USAGE_RESET")
        \/ UNCHANGED attempt
    BY <1>13 DEF MarkWaiting
  <2>3. <<thread[t].seen, "WAITING_FOR_USAGE_RESET">> \in Moves
    BY <2>1 DEF Moves
  <2>4. generation' = generation
    BY <1>13 DEF MarkWaiting
  <2>. QED  BY <2>1, <2>2, <2>3, <2>4, OneMoves, NoneMoves DEF attempts
<1>14. ASSUME NEW t \in Threads, RecordStart(t) PROVE AttemptMoves
  <2>1. Att(t) \in Attempts
    BY <1>14 DEF RecordStart, BusyThreads, At
  <2>2. /\ Transition(Att(t), "LAUNCH_CLAIMED", "EXECUTION_STARTED")
        /\ generation' = generation
    BY <1>14 DEF RecordStart
  <2>. QED  BY <2>1, <2>2, OneMoves DEF Moves
<1>15. ASSUME NEW t \in Threads, RecordCompletion(t) PROVE AttemptMoves
  <2>1. Att(t) \in Attempts /\ thread[t].result \in Results
    BY <1>15 DEF RecordCompletion, BusyThreads, At
  <2>2. \/ Transition(Att(t), "EXECUTION_STARTED", thread[t].result)
        \/ UNCHANGED attempt
    BY <1>15 DEF RecordCompletion
  <2>3. /\ <<"EXECUTION_STARTED", thread[t].result>> \in Moves
        /\ thread[t].result # "LAUNCH_CLAIMED"
    BY <2>1 DEF Moves, Results
  <2>4. generation' = generation
    BY <1>15 DEF RecordCompletion
  <2>. QED  BY <2>1, <2>2, <2>3, <2>4, OneMoves, NoneMoves DEF attempts
<1>16. ASSUME NEW t \in Threads, RecordFailure(t) PROVE AttemptMoves
  <2>1. Att(t) \in Attempts
    BY <1>16 DEF RecordFailure, BusyThreads, At
  <2>2. \/ Transition(Att(t), "LAUNCH_CLAIMED", "UNCERTAIN")
        \/ UNCHANGED attempt
    BY <1>16 DEF RecordFailure
  <2>3. generation' = generation
    BY <1>16 DEF RecordFailure
  <2>. QED  BY <2>1, <2>2, <2>3, OneMoves, NoneMoves DEF attempts, Moves
<1>17. ASSUME NEW t \in Threads,
              \/ \E a \in Attempts : ReadForExecution(t, a)
              \/ RefuseExecution(t) \/ UsageExhausted(t) \/ PrepareLaunch(t)
              \/ BuildEnvelope(t) \/ Execute(t) \/ RefuseStart(t)
              \/ ConnectionLost(t) \/ ExecutionRaises(t)
       PROVE  AttemptMoves
  BY <1>17, NoneMoves DEF ReadForExecution, RefuseExecution, UsageExhausted,
     PrepareLaunch, BuildEnvelope, Execute, RefuseStart, ConnectionLost,
     ExecutionRaises
<1>18. CASE ExecutionEnds
  BY <1>18, NoneMoves DEF ExecutionEnds
<1>19. CASE BeginFence \/ ExpireFence \/ CompleteFence \/ AbortFence \/ RecoverFence
  BY <1>19, NoneMoves DEF BeginFence, ExpireFence, CompleteFence, AbortFence,
     RecoverFence, FenceStep
<1>20. CASE AuthorityRestart
  BY <1>20, NoneMoves DEF AuthorityRestart
<1>21. CASE HostAlone \/ WorkerRaises \/ UNCHANGED vars
  BY <1>21, NoneMoves DEF HostAlone, WorkerRaises, authorityVars, vars
<1>. QED
  BY <1>1, <1>2, <1>3, <1>4, <1>5, <1>6, <1>7, <1>8, <1>9, <1>10, <1>11, <1>12,
     <1>13, <1>14, <1>15, <1>16, <1>17, <1>18, <1>19, <1>20, <1>21
     DEF Next, AttemptStep, CancelStep, ExecuteStep

\* A reservation is read for an attempt that does not exist.
LEMMA ReservingSteps ==
    ASSUME Typed, [Next]_vars, NEW a \in Attempts
    PROVE  \/ reserving'[a] \in {reserving[a], 0}
           \/ attempt[a] = "ABSENT" /\ attempt'[a] = "ABSENT"
<1>. USE DEF Typed, TypeOK, threads, authorityVars
<1> DEFINE Goal == \/ reserving'[a] \in {reserving[a], 0}
                   \/ attempt[a] = "ABSENT" /\ attempt'[a] = "ABSENT"
<1>1. ASSUME NEW r \in Registrations, RegistrationStep(r) PROVE Goal
  BY <1>1 DEF RegistrationStep, RegisterProvider, BeginQualification,
     StageQualification, FailQualification, FailRegistration, BindQualified,
     CompleteQualification, AbandonQualification, ReconcileQualification,
     RevokeRegistration
<1>2. ASSUME NEW g \in Generations,
             AuthorizeLaunch(g) \/ ExpireAuthorization(g) \/ RevokeLaunch(g)
      PROVE  Goal
  BY <1>2 DEF AuthorizeLaunch, ExpireAuthorization, RevokeLaunch
<1>3. ASSUME NEW b \in Attempts, NEW g \in Generations, ReadForReservation(b, g)
      PROVE  Goal
  BY <1>3 DEF ReadForReservation, attempts
<1>4. ASSUME NEW b \in Attempts, InsertAttempt(b) \/ RefuseReservation(b)
      PROVE  Goal
  BY <1>4 DEF InsertAttempt, RefuseReservation
<1>5. ASSUME NEW b \in Attempts,
             \/ BindProviderInput(b) \/ PauseAttempt(b) \/ ResumeAttempt(b)
             \/ FinalizeCompletion(b) \/ CancelStep(b)
      PROVE  Goal
  BY <1>5 DEF BindProviderInput, PauseAttempt, ResumeAttempt, FinalizeCompletion,
     RecordOnly, CancelStep, ClaimCancellation, CallCancel, CancelAcknowledged,
     CancelNotAcknowledged, FinishCancellation
<1>6. ASSUME NEW t \in Threads, ExecuteStep(t) PROVE Goal
  BY <1>6 DEF ExecuteStep, ReadForExecution, ClaimLaunch, RefuseExecution,
     UsageExhausted, MarkWaiting, PrepareLaunch, BuildEnvelope, Execute,
     RecordStart, RefuseStart, ConnectionLost, ExecutionRaises, RecordCompletion,
     RecordFailure
<1>7. CASE ExecutionEnds \/ HostAlone \/ WorkerRaises
  BY <1>7 DEF ExecutionEnds, HostAlone, WorkerRaises
<1>8. CASE BeginFence \/ ExpireFence \/ CompleteFence \/ AbortFence \/ RecoverFence
  BY <1>8 DEF BeginFence, ExpireFence, CompleteFence, AbortFence, RecoverFence,
     FenceStep
<1>9. CASE AuthorityRestart \/ UNCHANGED vars
  BY <1>9 DEF AuthorityRestart, vars
<1>. QED
  BY <1>1, <1>2, <1>3, <1>4, <1>5, <1>6, <1>7, <1>8, <1>9 DEF Next, AttemptStep

LEMMA ReservedStep ==
    ASSUME Typed, Reserved, [Next]_vars
    PROVE  Reserved'
<1>. SUFFICES ASSUME NEW a \in Attempts
              PROVE  /\ reserving'[a] # 0 => attempt'[a] = "ABSENT"
                     /\ attempt'[a] # "ABSENT" => generation'[a] \in Generations
  BY DEF Reserved
<1>1. Keep(a) \/ Move(a)
  BY AttemptSteps DEF AttemptMoves
<1>2. /\ reserving[a] # 0 => attempt[a] = "ABSENT"
      /\ attempt[a] # "ABSENT" => generation[a] \in Generations
  BY DEF Reserved
<1>3. reserving[a] \in 0 .. MaxGeneration
  BY DEF Typed, TypeOK
<1>4. \/ reserving'[a] \in {reserving[a], 0}
      \/ attempt[a] = "ABSENT" /\ attempt'[a] = "ABSENT"
  BY ReservingSteps
<1>. QED
  BY <1>1, <1>2, <1>3, <1>4, AuthorityConstants DEF Keep, Move, Generations

-----------------------------------------------------------------------------
(* Authorizations and the fence                                             *)

LEMMA AuthorizationSteps ==
    ASSUME Typed, [Next]_vars
    PROVE  \/ UNCHANGED authorization
           \/ \E g \in Generations : AuthorizeLaunch(g) \/ RevokeLaunch(g)
<1>. USE DEF authorities, authorityVars
<1>1. ASSUME NEW r \in Registrations, RegistrationStep(r)
      PROVE  UNCHANGED authorization
  BY <1>1 DEF RegistrationStep, RegisterProvider, BeginQualification,
     StageQualification, FailQualification, FailRegistration, BindQualified,
     CompleteQualification, AbandonQualification, ReconcileQualification,
     RevokeRegistration
<1>2. ASSUME NEW g \in Generations, ExpireAuthorization(g)
      PROVE  UNCHANGED authorization
  BY <1>2 DEF ExpireAuthorization
<1>3. ASSUME NEW a \in Attempts, AttemptStep(a) \/ CancelStep(a)
      PROVE  UNCHANGED authorization
  BY <1>3 DEF AttemptStep, ReadForReservation, InsertAttempt, RefuseReservation,
     BindProviderInput, PauseAttempt, ResumeAttempt, FinalizeCompletion,
     RecordOnly, CancelStep, ClaimCancellation, CallCancel, CancelAcknowledged,
     CancelNotAcknowledged, FinishCancellation
<1>4. ASSUME NEW t \in Threads, ExecuteStep(t) PROVE UNCHANGED authorization
  BY <1>4 DEF ExecuteStep, ReadForExecution, ClaimLaunch, RefuseExecution,
     UsageExhausted, MarkWaiting, PrepareLaunch, BuildEnvelope, Execute,
     RecordStart, RefuseStart, ConnectionLost, ExecutionRaises, RecordCompletion,
     RecordFailure
<1>5. ASSUME ExecutionEnds \/ HostAlone \/ WorkerRaises PROVE UNCHANGED authorization
  BY <1>5 DEF ExecutionEnds, HostAlone, WorkerRaises
<1>6. ASSUME BeginFence \/ ExpireFence \/ CompleteFence \/ AbortFence \/ RecoverFence
      PROVE  UNCHANGED authorization
  BY <1>6 DEF BeginFence, ExpireFence, CompleteFence, AbortFence, RecoverFence,
     FenceStep
<1>7. ASSUME AuthorityRestart \/ UNCHANGED vars PROVE UNCHANGED authorization
  BY <1>7 DEF AuthorityRestart, vars
<1>. QED  BY <1>1, <1>2, <1>3, <1>4, <1>5, <1>6, <1>7 DEF Next

LEMMA ClaimsStayAuthorized ==
    ASSUME Typed, Reserved, ClaimNeedsAuthorization, [Next]_vars
    PROVE  ClaimNeedsAuthorization'
<1>. SUFFICES ASSUME NEW a \in Attempts, attempt'[a] = "LAUNCH_CLAIMED"
              PROVE  authorization'[generation'[a]] = "ACTIVE"
  BY DEF ClaimNeedsAuthorization
<1>1. Keep(a) \/ Move(a)
  BY AttemptSteps DEF AttemptMoves
<1>2. /\ attempt[a] # "ABSENT" /\ generation'[a] = generation[a]
      /\ generation[a] \in Generations
      /\ authorization[generation[a]] = "ACTIVE"
  BY <1>1 DEF Keep, Move, Moves, Reserved, LaunchAuthorized, ClaimNeedsAuthorization
<1>3. CASE UNCHANGED authorization
  BY <1>2, <1>3
<1>4. ASSUME NEW g \in Generations, AuthorizeLaunch(g)
      PROVE  authorization'[generation'[a]] = "ACTIVE"
  BY <1>2, <1>4 DEF AuthorizeLaunch, Typed, TypeOK
<1>5. ASSUME NEW g \in Generations, RevokeLaunch(g)
      PROVE  authorization'[generation'[a]] = "ACTIVE"
  <2>1. attempt'[a] = IF a \in Withdrawn(g) THEN "CANCELLED" ELSE attempt[a]
    BY <1>5 DEF RevokeLaunch
  <2>2. attempt[a] = "LAUNCH_CLAIMED" /\ a \notin Withdrawn(g)
    BY <2>1
  <2>3. generation[a] # g
    BY <2>2 DEF Withdrawn
  <2>. QED  BY <1>2, <1>5, <2>3 DEF RevokeLaunch, Typed, TypeOK
<1>. QED  BY <1>3, <1>4, <1>5, AuthorizationSteps

LEMMA FencedStep ==
    ASSUME Typed, Reserved, TypeOK', [Next]_vars, fence # "NONE"
    PROVE  UNCHANGED <<attempts, authorization>>
<1>1. ~Unfenced
  BY DEF Unfenced
<1>2. \A a \in Attempts : Keep(a)
  BY <1>1, AttemptSteps DEF AttemptMoves, Move
<1>3. UNCHANGED attempts
  BY <1>2 DEF Keep, Typed, TypeOK, attempts
<1>4. UNCHANGED authorization
  BY <1>1, AuthorizationSteps DEF AuthorizeLaunch, RevokeLaunch
<1>. QED  BY <1>3, <1>4

LEMMA OutcomeStep ==
    ASSUME Typed, Reserved, [Next]_vars
    PROVE  \A a \in Attempts :
              /\ attempt[a] \in Results \cup {"UNCERTAIN"} => attempt'[a] = attempt[a]
              /\ attempt[a] \in Cancelled => attempt'[a] \in Cancelled
  BY AttemptSteps DEF AttemptMoves, Keep, Move, Moves, Results, Cancelled, Cancellable

-----------------------------------------------------------------------------
(* The provider runs after its start is recorded                            *)

\* The host may resume, or has resumed, the process of the attempt.
Underway(a) == Drives(a) /\ worker.pc \in {"resume", "journal", "running"}

\* States an attempt reaches only past the record of its start, or cancelled.
PastStart == AttemptState \ {"ABSENT", "RESERVED", "INPUT_BOUND", "LAUNCH_CLAIMED",
                             "UNCERTAIN"}

RunRecorded ==
    \A a \in Attempts : ran[a] > 0 \/ Underway(a) => attempt[a] \in PastStart

\* Without an acknowledgement nothing new is resumed.
LEMMA QuietHost ==
    ASSUME HostTypeOK, BusyWorker, HostQuiet, NEW a \in Attempts,
           (ran[a] > 0 \/ Underway(a))'
    PROVE  ran[a] > 0 \/ Underway(a)
<1>. USE HostConstants DEF HostTypeOK, BusyWorker, Underway, Drives, Working, NoWorker
<1> DEFINE Goal == ran[a] > 0 \/ Underway(a)
<1>1. ASSUME NEW b \in Attempts,
             \/ PrepareEnvironment(b) \/ CancelActive(b)
             \/ \E n \in Nat : TakeLaunch(b, n) \/ RefuseLaunch(b, n)
      PROVE  Goal
  BY <1>1 DEF PrepareEnvironment, CancelActive, TakeLaunch, RefuseLaunch
<1>2. ASSUME NEW r \in Registrations, BindProvider(r) PROVE Goal
  BY <1>2 DEF BindProvider
<1>3. ASSUME NEW s \in Terminal, ProcessEnds(s) PROVE Goal
  BY <1>3 DEF ProcessEnds, Leave
<1>4. CASE LaunchRaises
  BY <1>4 DEF LaunchRaises, Leave
<1>5. CASE OnStarted
  BY <1>5 DEF OnStarted
<1>6. CASE ResumeProcess
  BY <1>6 DEF ResumeProcess
<1>7. CASE OnResumed
  BY <1>7 DEF OnResumed
<1>8. CASE HostRestart \/ StatusCommand
  BY <1>8 DEF HostRestart, StatusCommand
<1>9. CASE (\E s \in HostState : SuspendHost(s)) \/ Logoff
  BY <1>9 DEF SuspendHost, Logoff, CancelWork
<1>10. CASE Unlock \/ Drain \/ UNCHANGED hostVars
  BY <1>10 DEF Unlock, Drain, hostVars
<1>. QED
  BY <1>1, <1>2, <1>3, <1>4, <1>5, <1>6, <1>7, <1>8, <1>9, <1>10
     DEF HostQuiet, HostStep

LEMMA RunRecordedStep ==
    ASSUME Typed, Reserved, RunRecorded, TypeOK', [Next]_vars
    PROVE  RunRecorded'
<1>. SUFFICES ASSUME NEW a \in Attempts, (ran[a] > 0 \/ Underway(a))'
              PROVE  attempt'[a] \in PastStart
  BY DEF RunRecorded
<1>1. ASSUME attempt[a] \in PastStart PROVE attempt'[a] \in PastStart
  <2>1. Keep(a) \/ <<attempt[a], attempt'[a]>> \in Moves
    BY AttemptSteps DEF AttemptMoves, Move
  <2>2. attempt'[a] \in AttemptState
    BY DEF TypeOK
  <2>. QED  BY <1>1, <2>1, <2>2 DEF Keep, Moves, PastStart, Results, Cancellable
<1>2. CASE HostQuiet
  BY <1>1, <1>2, QuietHost DEF RunRecorded, Typed, TypeOK
<1>3. CASE Recorded
  <2>1. /\ worker'.att = worker.att /\ ran' = ran
        /\ attempt'[worker.att] = "EXECUTION_STARTED"
    BY <1>3 DEF Recorded, Acknowledged, Typed, TypeOK, HostTypeOK
  <2>2. CASE ran[a] > 0
    BY <1>1, <2>2 DEF RunRecorded
  <2>3. CASE worker.att = a
    BY <2>1, <2>3 DEF PastStart, AttemptState
  <2>. QED  BY <2>1, <2>2, <2>3 DEF Underway, Drives
<1>. QED  BY <1>2, <1>3, HostSteps

-----------------------------------------------------------------------------
(* The theorems                                                             *)

IInv == /\ Typed /\ HostInv /\ Binding /\ Reserved
        /\ ClaimNeedsAuthorization /\ RunRecorded

LEMMA InitIInv == Init => IInv
<1>. SUFFICES ASSUME Init PROVE IInv
  OBVIOUS
<1>. USE HostConstants, AuthorityConstants DEF Init, HostInit
<1>1. HostTypeOK /\ BusyWorker
  BY DEF HostTypeOK, BusyWorker, HostState, LaunchState, NoWorker, WorkerPC, Working
<1>2. TypeOK /\ BusyThreads
  BY <1>1 DEF TypeOK, BusyThreads, At, RegistrationState, QualificationState,
     AttemptState, NoThread, ThreadPC
<1>3. HostInv
  BY DEF HostInv, Journal, RunsAtMostOnce, OneLaunchPerWorkspace, Working, Drives,
     NoWorker, Unresolved
<1>4. Binding /\ Reserved /\ ClaimNeedsAuthorization
  BY DEF Binding, Reserved, ClaimNeedsAuthorization
<1>5. RunRecorded
  BY DEF RunRecorded, Underway, Drives, Working, NoWorker
<1>. QED  BY <1>1, <1>2, <1>3, <1>4, <1>5 DEF IInv, Typed

LEMMA NextIInv == IInv /\ [Next]_vars => IInv'
<1>. SUFFICES ASSUME IInv, [Next]_vars PROVE IInv'
  OBVIOUS
<1>1. HostNext /\ HostTypeOK /\ BusyWorker
  BY HostSteps DEF IInv, Typed, TypeOK, HostNext, Recorded
<1>2. HostTypeOK' /\ BusyWorker'
  BY <1>1, HostTyped
<1>3. TypeOK' /\ BusyThreads'
  BY <1>2, ServiceTyped DEF IInv
<1>4. HostInv'
  BY <1>1, HostKeepsJournal DEF IInv
<1>5. Binding' /\ Reserved' /\ ClaimNeedsAuthorization'
  BY BindingStep, ReservedStep, ClaimsStayAuthorized DEF IInv
<1>6. RunRecorded'
  BY <1>3, RunRecordedStep DEF IInv
<1>. QED  BY <1>2, <1>3, <1>4, <1>5, <1>6 DEF IInv, Typed

LEMMA SpecIInv == Spec => []IInv
  BY InitIInv, NextIInv, PTL DEF Spec

\* Every variable of the service and of the host keeps its type.
THEOREM TypeCorrect == Spec => []TypeOK
<1>1. IInv => TypeOK
  BY DEF IInv, Typed
<1>. QED  BY <1>1, SpecIInv, PTL

\* A claimed launch has a live authorization, for any number of threads that
\* claim while the founder revokes.
THEOREM ClaimsAreAuthorized == Spec => []ClaimNeedsAuthorization
<1>1. IInv => ClaimNeedsAuthorization
  BY DEF IInv
<1>. QED  BY <1>1, SpecIInv, PTL

\* The provider never runs before its start is recorded, whatever either process
\* loses in a restart.
THEOREM RunsAreRecorded == Spec => []RunIsRecorded
<1>1. IInv => RunIsRecorded
  BY DEF IInv, RunRecorded, PastStart, RunIsRecorded
<1>. QED  BY <1>1, SpecIInv, PTL

\* The provider of an attempt is resumed at most once, across restarts of both
\* processes and repeated requests.
THEOREM ProviderRunsOnce == Spec => []RunsAtMostOnce
<1>1. IInv => RunsAtMostOnce
  BY DEF IInv, HostInv
<1>. QED  BY <1>1, SpecIInv, PTL

\* The journal never holds two unresolved or uncertain launches of a workspace.
THEOREM WorkspaceIsExclusive == Spec => []OneLaunchPerWorkspace
<1>1. IInv => OneLaunchPerWorkspace
  BY DEF IInv, HostInv
<1>. QED  BY <1>1, SpecIInv, PTL

\* A qualified registration is the one the host is bound to.
THEOREM QualificationIsBound == Spec => []QualifiedIsBound
<1>1. IInv => QualifiedIsBound
  BY DEF IInv, Binding, QualifiedIsBound
<1>. QED  BY <1>1, SpecIInv, PTL

\* A standing fence freezes attempts and authorizations, also once it has expired.
THEOREM FenceFreezes == Spec => FencedIsFrozen
<1>1. IInv /\ IInv' /\ [Next]_vars
      => [fence # "NONE" /\ fence' # "NONE" => UNCHANGED <<attempts, authorization>>]_vars
  BY FencedStep DEF IInv, Typed
<1>. QED  BY <1>1, SpecIInv, PTL DEF Spec, FencedIsFrozen

\* Results, uncertainty and cancellation stand, whichever thread comes late.
THEOREM OutcomesStand == Spec => OutcomeStands
<1>1. IInv /\ [Next]_vars
      => [\A a \in Attempts :
             /\ attempt[a] \in Results \cup {"UNCERTAIN"} => attempt'[a] = attempt[a]
             /\ attempt[a] \in Cancelled => attempt'[a] \in Cancelled]_vars
  BY OutcomeStep DEF IInv
<1>. QED  BY <1>1, SpecIInv, PTL DEF Spec, OutcomeStands
=============================================================================
