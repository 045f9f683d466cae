-------------------------- MODULE KeeperRunsProofs --------------------------
(***************************************************************************)
(* Proofs about a run of the Keeper application, for any provider runs and    *)
(* any wishes of the task.  Stores overwrite each other, so nothing here rests *)
(* on the stage a record happens to show: what is committed follows from the  *)
(* task file, which only the engine writes and which keeps COMPLETED, and from *)
(* facts about every copy of the record that stay true while it is stale.     *)
(***************************************************************************)
EXTENDS KeeperRuns, FiniteSetTheorems, TLAPS

-----------------------------------------------------------------------------
(* The invariant                                                            *)

Ends == {"COMPLETED", "FAILED", "BLOCKED"}
Goals == Phases \cup Ends \cup {"APPROVED"}

Starting == {"advance", "route", "routed", "prepare", "engine"}
WithRun == {"reserve", "call", "calling", "own", "finish"}

\* After the engine completed the task: before, at and after the commit.
Deciding == {"validate", "worktree", "await", "wait", "reject", "rejected"}
Committing == {"commit", "committing"}
Pushing == {"hash", "pushWait", "push", "pushing"}
Closing == {"ended", "finalize", "lastReport", "close", "complete"}
Failing == {"dropRoute", "failRoute", "stop", "failMend", "failReport", "idle"}

IsFlags == flags \in [cancel : BOOLEAN, pause : BOOLEAN, ready : BOOLEAN,
                      decision : {"none", "approved", "rejected"}]

\* What the desktop's thread remembers of the record it loaded.
Remembered ==
    /\ desk = "resuming" => seen \in Records /\ seen.from # None
    /\ desk \in {"retrying", "starting"} => seen \in Records /\ Selected(seen) \in Retryable

Typed == TypeOK /\ IsFlags /\ wish \in Wishes /\ Remembered

\* What the place of the worker says about its goal and the task file.
Heading ==
    /\ at \in {"advance", "prepare"} => goal = "READY"
    /\ at \in Starting => (goal = "READY" /\ task = "READY") \/ goal \in Phases
    /\ at = "enter" => goal \in Goals /\ task # "COMPLETED"
    /\ at = "observe" => goal \in Goals
    /\ at = "again" => goal \in Phases \ {"POST_REPAIR_REVIEWING"}
    /\ copy # None => at \in Loading \/ (at \in {"observe", "again"} /\ Mapped)
    /\ at = "hop" => goal = "FINAL_VERIFY"
    /\ at \in WithRun => goal \in WithProvider
    /\ at \in {"call", "calling", "own", "finish"} => mine \in Executions
    /\ at = "judge" => goal \in Phases \cup {"APPROVED"}
    /\ at \in {"endRoute", "returned"} => goal \in Ends
    /\ at \in {"observe", "again", "hop", "judge", "endRoute", "returned"} \cup WithRun
          => task = StatusOfGoal

Consented == wish.approval => consent
Delivered == /\ task = "COMPLETED" /\ Consented
             /\ wish.commit => commits = 1
             /\ wish.commit /\ wish.push => pushed

\* What has been earned where the worker is.
Earned ==
    /\ at \in Deciding \cup Committing \cup Pushing \cup Closing => task = "COMPLETED"
    /\ at \in Committing \cup Pushing => wish.commit /\ Consented
    /\ at \in Pushing => commits = 1 /\ wish.push
    /\ at \in Closing => Delivered

Committed ==
    /\ commits \in {0, 1}
    /\ commits = 1 => /\ wish.commit /\ task = "COMPLETED" /\ Consented
                      /\ at \in Pushing \cup Closing \cup Failing
                                  \cup (Starting \ {"advance", "prepare"})
    /\ pushed => commits = 1 /\ wish.push

\* What every copy of the record says, the stale ones included.
Honest(r) ==
    /\ r.stage = "approval_decision" \/ r.from = "approval_decision" => task = "COMPLETED"
    /\ r.status = "COMPLETED" => Delivered

AllHonest == /\ Honest(run)
             /\ copy # None => Honest(copy)
             /\ seen # None => Honest(seen)
             /\ flags.decision = "approved" => consent

\* Where the worker is after a stage of a provider was interrupted; the task file
\* still names that stage, so the engine refuses to repeat it.
AfterCall == {"failRoute", "stop", "failMend", "failReport", "idle", "route", "routed",
              "dropRoute", "engine"}

\* The provider of a run that was never cancelled is the one the worker waits for,
\* or was left behind.
Alone(e) == /\ provider = {e}
            /\ \/ at = "calling" /\ mine = e
               \/ at \in AfterCall /\ task \in {"BUILDING", "INDEPENDENT_AUDIT", "REPAIRING"}

Lone == ~asked => /\ ~flags.cancel
                  /\ provider = {} \/ \E e \in Executions : Alone(e)

Inv == Typed /\ Heading /\ Earned /\ Committed /\ AllHonest /\ Lone

-----------------------------------------------------------------------------
(* Types                                                                    *)

\* A transition leaves a record.
LEMMA MovedTyped ==
  ASSUME NEW r \in Records, NEW t \in Stages
  PROVE  Moved(r, t) \in Records
  <1>1. /\ r.stage \in Stages /\ r.stopped \in Stages \cup {None}
        /\ r.from \in Stages \cup {None}
    BY DEF Records
  <1>2. {"completed", "cancelled", "blocked", "running"} \subseteq Statuses
    BY DEF Statuses, Live, Finished
  <1> DEFINE m == Moved(r, t)
  <1>3. m.status \in Statuses
    BY <1>2 DEF Moved, Records
  <1>4. m.from \in Stages \cup {None} /\ m.stopped \in Stages \cup {None}
    BY <1>1 DEF Moved, Records
  <1>q. QED
    BY <1>3, <1>4 DEF Moved, Records

\* So does a change of the status, of the recovery or of the executions.
LEMMA EditTyped ==
  ASSUME NEW r \in Records, NEW e \in Executions
  PROVE  /\ \A s \in Statuses : [r EXCEPT !.status = s] \in Records
         /\ \A v \in {"none", "safe", "unsafe"} : [r EXCEPT !.recovery = v] \in Records
         /\ \A x \in {"NONE", "RESERVED", "STARTED"} :
               [r EXCEPT !.execution[e] = x] \in Records
  BY DEF Records

\* The stages a status of the engine maps to, and those of the worker.
LEMMA StagesTyped ==
  /\ \A g \in Phases : StageOf[g] \in Retryable
  /\ Retryable \subseteq Stages
  /\ \A p \in DOMAIN AfterMove : AfterMove[p][1] \in Stages
  /\ {"preparing", "interrupted", "cancelled", "blocked", "independent_audit"} \subseteq Stages
  /\ \A d \in DOMAIN TargetOf : TargetOf[d] \in Stages
  <1>1. Retryable \subseteq Stages
    BY DEF Stages
  <1>2. \A g \in Phases : StageOf[g] \in Retryable
    BY DEF Retryable
  <1>3. \A p \in DOMAIN AfterMove : AfterMove[p][1] \in Stages
    BY DEF AfterMove, Stages, Unrepeatable, Terminal
  <1>4. {"preparing", "interrupted", "cancelled", "blocked"} \subseteq Stages
    BY DEF Stages, Terminal
  <1>5. "independent_audit" \in Retryable
    BY DEF Retryable, StageOf, Phases
  <1>6. \A d \in DOMAIN TargetOf : TargetOf[d] \in Stages
    BY <1>4 DEF TargetOf
  <1>q. QED
    BY <1>1, <1>2, <1>3, <1>4, <1>5, <1>6

\* The flags of the worker keep their type.
LEMMA FlagsTyped ==
  ASSUME Inv, [Next]_vars
  PROVE  IsFlags'
  <1> USE DEF IsFlags
  <1>0. IsFlags /\ NoFlags \in [cancel : BOOLEAN, pause : BOOLEAN, ready : BOOLEAN,
                               decision : {"none", "approved", "rejected"}]
    BY DEF Inv, Typed, NoFlags
  <1>1. ASSUME NEW next, To(next) PROVE IsFlags'
    BY <1>0, <1>1 DEF To
  <1>2. CASE UNCHANGED flags
    BY <1>0, <1>2
  <1>3. ASSUME WorkerStep PROVE IsFlags'
    <2>1. CASE Rewrite \/ Move \/ Advance \/ ObserveHop \/ ObserveStore \/ Own \/ FinishExecution
               \/ Mend \/ Await \/ Rejected \/ AwaitPush \/ Complete \/ Stop
      BY <1>1, <2>1 DEF Store, Rewrite, Move, Advance, ObserveHop, ObserveStore, Own,
         FinishExecution, Mend, Await, Rejected, AwaitPush, Complete, Stop
    <2>2. CASE Routed \/ ObserveNothing \/ Returned \/ AfterEngine \/ Decided \/ PushAuthorized
      BY <1>1, <2>2 DEF Go, Routed, ObserveNothing, Returned, AfterEngine, Decided,
         PushAuthorized
    <2>3. CASE Load \/ StartEngine \/ Enter \/ ObserveLoad \/ Reserve \/ Call \/ Judge \/ Commit \/ Push
      BY <1>2, <2>3 DEF Load, StartEngine, Enter, ObserveLoad, Reserve, Call, Judge, Commit, Push
    <2>4. CASE Raise
      BY <1>0, <2>4 DEF Raise
    <2>q. QED
      BY <1>3, <2>1, <2>2, <2>3, <2>4 DEF WorkerStep
  <1>4. ASSUME DeskStep PROVE IsFlags'
    <2>1. CASE DeskLoad \/ DeskMove \/ DeskRefused \/ RetryStore \/ List \/ Settle
               \/ NothingToRecover
      BY <1>2, <2>1 DEF DeskLoad, DeskMove, DeskRefused, RetryStore, List, Settle,
         NothingToRecover
    <2>2. CASE ResumeStore \/ DecideStore \/ RetryStart
      BY <1>0, <2>2 DEF ResumeStore, DecideStore, RetryStart
    <2>q. QED
      BY <1>4, <2>1, <2>2 DEF DeskStep
  <1>5. ASSUME User PROVE IsFlags'
    BY <1>0, <1>5 DEF User, Cancel, Pause, Resume, Retry, Decide
  <1>6. CASE Restart
    BY <1>0, <1>6 DEF Restart
  <1>7. ASSUME NEW e \in Executions, ProviderEnds(e) PROVE IsFlags'
    BY <1>2, <1>7 DEF ProviderEnds
  <1>8. CASE UNCHANGED vars
    BY <1>2, <1>8 DEF vars
  <1>q. QED
    BY <1>3, <1>4, <1>5, <1>6, <1>7, <1>8 DEF Next

\* The three records keep their type.
LEMMA RecordsTyped ==
  ASSUME Inv, [Next]_vars
  PROVE  run' \in Records /\ copy' \in Records \cup {None} /\ seen' \in Records \cup {None}
  <1> DEFINE Good == run' \in Records /\ copy' \in Records \cup {None}
                     /\ seen' \in Records \cup {None}
  <1> SUFFICES Good
    OBVIOUS
  <1> USE DEF worker, desktop, history
  <1>0. /\ run \in Records /\ copy \in Records \cup {None} /\ seen \in Records \cup {None}
        /\ mine \in Executions \cup {None}
    BY DEF Inv, Typed, TypeOK
  <1>1. ASSUME NEW record, NEW next, Store(record, next), record \in Records PROVE Good
    BY <1>0, <1>1 DEF Store
  <1>2. ASSUME run' = run, copy' \in {copy, None, run}, seen' \in {seen, None, run} PROVE Good
    BY <1>0, <1>2
  <1>3. ASSUME run' \in Records, UNCHANGED copy, seen' \in {seen, None} PROVE Good
    BY <1>0, <1>3
  <1>4. ASSUME NEW r \in Records, NEW t \in Stages PROVE AfterTransition(r, t) \in Records
    BY <1>0, <1>4, MovedTyped DEF AfterTransition
  <1>5. ASSUME WorkerStep PROVE Good
    <2>1. CASE Load \/ Routed \/ StartEngine \/ Enter \/ ObserveLoad \/ ObserveNothing \/ Call
               \/ Returned \/ Judge \/ AfterEngine \/ Decided \/ Commit \/ PushAuthorized \/ Push
               \/ Raise
      BY <1>2, <2>1 DEF Go, Load, Routed, StartEngine, Enter, ObserveLoad, ObserveNothing, Call,
         Returned, Judge, AfterEngine, Decided, Commit, PushAuthorized, Push, Raise
    <2>2. CASE Rewrite \/ Advance
      <3>1. copy \in Records
        BY <1>0, <2>2 DEF Rewrite, Advance, Store
      <3>q. QED
        BY <1>1, <2>2, <3>1 DEF Rewrite, Advance
    <2>3. CASE Move
      <3>1. copy \in Records /\ AfterMove[at][1] \in Stages
        BY <1>0, <2>3, StagesTyped DEF Move
      <3>q. QED
        BY <1>1, <1>4, <2>3, <3>1 DEF Move
    <2>4. CASE ObserveHop
      <3>1. Moved(copy, "independent_audit") \in Records
        BY <1>0, <2>4, MovedTyped, StagesTyped DEF ObserveHop
      <3>q. QED
        BY <1>1, <2>4, <3>1 DEF ObserveHop
    <2>5. CASE ObserveStore
      <3>1. goal \in Phases
        BY <2>5 DEF ObserveStore, Inv, Heading, Mapped, Loading, AfterRewrite, AfterMove, Phases
      <3>2. copy \in Records /\ StageOf[goal] \in Stages
        BY <1>0, <2>5, <3>1, StagesTyped DEF ObserveStore
      <3>q. QED
        BY <1>1, <1>4, <2>5, <3>2 DEF ObserveStore
    <2>6. CASE Reserve
      <3>1. Unused \subseteq Executions
        BY DEF Unused
      <3>2. mine' \in Executions
        BY <2>6, <3>1 DEF Reserve
      <3>3. run' = [copy EXCEPT !.execution[mine'] = "RESERVED"] /\ copy \in Records
        BY <1>0, <2>6 DEF Reserve
      <3>4. run' \in Records
        BY <3>2, <3>3, EditTyped
      <3>q. QED
        BY <1>0, <2>6, <3>4 DEF Reserve
    <2>7. CASE Own \/ FinishExecution
      <3>1. copy \in Records /\ mine \in Executions
        BY <1>0, <2>7 DEF Own, FinishExecution, Inv, Heading
      <3>2. copy.execution[mine] \in {"NONE", "RESERVED", "STARTED"}
        BY <3>1 DEF Records
      <3>3. /\ [copy EXCEPT !.execution[mine] = "NONE"] \in Records
            /\ [copy EXCEPT !.execution[mine] = IF @ = "RESERVED" THEN "STARTED" ELSE @]
                  \in Records
        BY <3>1, <3>2, EditTyped
      <3>q. QED
        BY <1>1, <2>7, <3>3 DEF Own, FinishExecution
    <2>8. CASE Mend
      <3>1. WithRecovery(copy) \in Records
        BY <1>0, <2>8 DEF Mend, WithRecovery, Records
      <3>q. QED
        BY <1>1, <2>8, <3>1 DEF Mend
    <2>9. CASE Await \/ Rejected \/ AwaitPush \/ Complete
      <3>1. {"awaiting_approval", "awaiting_push_authorization", "REJECTED", "COMPLETED"}
               \subseteq Statuses
        BY DEF Statuses, Live, Finished
      <3>2. \A s \in Statuses : copy # None => [copy EXCEPT !.status = s] \in Records
        BY <1>0 DEF Records
      <3>q. QED
        BY <1>1, <2>9, <3>1, <3>2 DEF Await, Rejected, AwaitPush, Complete
    <2>10. CASE Stop
      <3>1. copy \in Records
        BY <1>0, <2>10 DEF Stop
      <3>q. QED
        BY <1>1, <1>4, <2>10, <3>1, StagesTyped DEF Stop
    <2>q. QED
      BY <1>5, <2>1, <2>2, <2>3, <2>4, <2>5, <2>6, <2>7, <2>8, <2>9, <2>10 DEF WorkerStep
  <1>6. ASSUME DeskStep PROVE Good
    <2>1. CASE DeskLoad \/ DeskRefused \/ RetryStart \/ List \/ NothingToRecover
      BY <1>2, <2>1 DEF DeskLoad, DeskRefused, RetryStart, List, NothingToRecover
    <2>2. CASE DeskMove
      <3>1. seen \in Records /\ TargetOf[desk] \in Stages
        BY <1>0, <2>2, StagesTyped DEF DeskMove
      <3>q. QED
        BY <1>3, <1>4, <2>2, <3>1 DEF DeskMove, DeskStore
    <2>3. CASE ResumeStore
      <3>1. seen \in Records /\ seen.from # None
        BY <1>0, <2>3 DEF ResumeStore, DeskStore, Inv, Typed, Remembered
      <3>2. seen.from \in Stages
        BY <3>1 DEF Records
      <3>q. QED
        BY <1>3, <2>3, <3>1, <3>2, MovedTyped DEF ResumeStore, DeskStore
    <2>4. CASE DecideStore
      BY <1>0, <1>3, <2>4 DEF DecideStore, DeskStore
    <2>5. CASE RetryStore
      <3>1. seen \in Records /\ Selected(seen) \in Stages
        BY <1>0, <2>5, StagesTyped DEF RetryStore, Inv, Typed, Remembered
      <3>2. "running" \in Statuses
        BY DEF Statuses, Live
      <3>3. Retried(seen) \in Records
        BY <3>1, <3>2 DEF Retried, Records
      <3>q. QED
        BY <1>3, <2>5, <3>3 DEF RetryStore
    <2>6. CASE Settle
      <3>1. seen \in Records /\ "interrupted" \in Statuses
        BY <1>0, <2>6 DEF Settle, DeskStore, Statuses
      <3>2. run' \in Records
        BY <2>6, <3>1 DEF Settle, DeskStore, Records
      <3>q. QED
        BY <1>3, <2>6, <3>2 DEF Settle, DeskStore
    <2>q. QED
      BY <1>6, <2>1, <2>2, <2>3, <2>4, <2>5, <2>6 DEF DeskStep
  <1>7. ASSUME User PROVE Good
    BY <1>2, <1>7 DEF User, Cancel, Pause, Resume, Retry, Decide
  <1>8. CASE Restart
    BY <1>2, <1>8 DEF Restart
  <1>9. ASSUME NEW e \in Executions, ProviderEnds(e) PROVE Good
    BY <1>2, <1>9 DEF ProviderEnds
  <1>10. CASE UNCHANGED vars
    BY <1>2, <1>10 DEF vars
  <1>q. QED
    BY <1>5, <1>6, <1>7, <1>8, <1>9, <1>10 DEF Next

\* What the desktop's thread remembers stays true of the record it holds.
LEMMA RememberedTyped ==
  ASSUME Inv, [Next]_vars
  PROVE  Remembered'
  <1> USE DEF Remembered, desktop
  <1>0. Remembered
    BY DEF Inv, Typed
  <1>1. CASE UNCHANGED <<desk, seen>>
    BY <1>0, <1>1
  <1>2. ASSUME desk' \notin {"resuming", "retrying", "starting"} PROVE Remembered'
    BY <1>2
  <1>3. ASSUME WorkerStep PROVE UNCHANGED <<desk, seen>>
    BY <1>3 DEF WorkerStep, Load, Rewrite, Move, Advance, Routed, StartEngine, Enter, ObserveLoad,
       ObserveNothing, ObserveHop, ObserveStore, Reserve, Call, Returned, Own, FinishExecution,
       Judge, AfterEngine, Mend, Await, Decided, Rejected, Commit, AwaitPush, PushAuthorized,
       Push, Complete, Stop, Raise, Store, Go
  <1>4. ASSUME DeskStep PROVE Remembered'
    <2>1. CASE DeskLoad \/ DeskMove \/ DeskRefused \/ ResumeStore \/ DecideStore \/ RetryStart
               \/ List \/ Settle \/ NothingToRecover
      BY <1>2, <2>1 DEF DeskLoad, DeskMove, DeskRefused, ResumeStore, DecideStore, RetryStart,
         List, Settle, NothingToRecover
    <2>2. CASE RetryStore
      BY <1>0, <2>2 DEF RetryStore
    <2>q. QED
      BY <1>4, <2>1, <2>2 DEF DeskStep
  <1>5. ASSUME User PROVE Remembered'
    <2>1. run \in Records
      BY DEF Inv, Typed, TypeOK
    <2>2. CASE Resume
      BY <2>1, <2>2 DEF Resume
    <2>3. CASE Retry
      BY <2>1, <2>3 DEF Retry, MayRetry
    <2>4. CASE Cancel \/ Pause \/ \E decision \in {"approved", "rejected"} : Decide(decision)
      BY <1>2, <2>4 DEF Cancel, Pause, Decide
    <2>q. QED
      BY <1>5, <2>2, <2>3, <2>4 DEF User
  <1>6. CASE Restart
    BY <1>2, <1>6 DEF Restart
  <1>7. ASSUME NEW e \in Executions, ProviderEnds(e) PROVE UNCHANGED <<desk, seen>>
    BY <1>7 DEF ProviderEnds
  <1>8. CASE UNCHANGED vars
    BY <1>1, <1>8 DEF vars
  <1>q. QED
    BY <1>1, <1>3, <1>4, <1>5, <1>6, <1>7, <1>8 DEF Next

\* The steps that write the task file, or a provider run of the worker.
LEMMA QuietSteps ==
  ASSUME [Next]_vars
  PROVE  /\ Enter \/ Raise \/ UNCHANGED task
         /\ UNCHANGED wish
         /\ Commit \/ UNCHANGED commits
         /\ Push \/ UNCHANGED pushed
         /\ consent => consent'
         /\ asked => asked'
  <1> USE DEF worker, desktop, outside, history
  <1> DEFINE Quiet == /\ Enter \/ Raise \/ UNCHANGED task
                      /\ UNCHANGED wish
                      /\ Commit \/ UNCHANGED commits
                      /\ Push \/ UNCHANGED pushed
                      /\ consent => consent'
                      /\ asked => asked'
  <1>1. ASSUME WorkerStep PROVE Quiet
    BY <1>1 DEF WorkerStep, Load, Rewrite, Move, Advance, Routed, StartEngine, Enter, ObserveLoad,
       ObserveNothing, ObserveHop, ObserveStore, Reserve, Call, Returned, Own, FinishExecution,
       Judge, AfterEngine, Mend, Await, Decided, Rejected, Commit, AwaitPush, PushAuthorized,
       Push, Complete, Stop, Raise, Store, Go
  <1>2. ASSUME DeskStep PROVE Quiet
    BY <1>2 DEF DeskStep, DeskStore, DeskLoad, DeskMove, DeskRefused, ResumeStore, DecideStore,
       RetryStore, RetryStart, List, Settle, NothingToRecover, Called
  <1>3. ASSUME User PROVE Quiet
    <2>1. ASSUME NEW decision, Decide(decision) PROVE Quiet
      <3>1. UNCHANGED <<task, wish, commits, pushed, asked>>
        BY <2>1 DEF Decide
      <3>2. consent => consent'
        BY <2>1, Zenon DEF Decide
      <3>q. QED
        BY <3>1, <3>2
    <2>2. CASE Cancel \/ Pause \/ Resume \/ Retry
      BY <2>2 DEF Cancel, Pause, Resume, Retry
    <2>q. QED
      BY <1>3, <2>1, <2>2 DEF User
  <1>4. CASE Restart \/ (\E e \in Executions : ProviderEnds(e)) \/ UNCHANGED vars
    BY <1>4 DEF Restart, ProviderEnds, vars
  <1>q. QED
    BY <1>1, <1>2, <1>3, <1>4 DEF Next

\* The executions of the worker and of the providers keep their types.
LEMMA ExecutionsTyped ==
  ASSUME Inv, [Next]_vars
  PROVE  mine' \in Executions \cup {None} /\ provider' \subseteq Executions
  <1> USE DEF worker, desktop, outside, history
  <1> DEFINE Good == mine' \in Executions \cup {None} /\ provider' \subseteq Executions
  <1>0. mine \in Executions \cup {None} /\ provider \subseteq Executions
    BY DEF Inv, Typed, TypeOK
  <1>1. CASE Reserve
    <2>1. Unused \subseteq Executions
      BY DEF Unused
    <2>q. QED
      BY <1>0, <1>1, <2>1 DEF Reserve
  <1>2. CASE Call
    BY <1>0, <1>2 DEF Call, Inv, Heading
  <1>3. ASSUME NEW e \in Executions, ProviderEnds(e) PROVE Good
    BY <1>0, <1>3 DEF ProviderEnds
  <1>4. CASE Judge \/ Raise \/ Restart
    BY <1>0, <1>4 DEF Judge, Raise, Restart
  <1>5. ASSUME WorkerStep PROVE Good \/ UNCHANGED <<mine, provider>>
    BY <1>1, <1>2, <1>4, <1>5 DEF WorkerStep, Load, Rewrite, Move, Advance, Routed, StartEngine,
       Enter, ObserveLoad, ObserveNothing, ObserveHop, ObserveStore, Returned, Own,
       FinishExecution, AfterEngine, Mend, Await, Decided, Rejected, Commit, AwaitPush,
       PushAuthorized, Push, Complete, Stop, Store, Go
  <1>6. CASE DeskStep
    BY <1>0, <1>6 DEF DeskStep, DeskStore, DeskLoad, DeskMove, DeskRefused, ResumeStore,
       DecideStore, RetryStore, RetryStart, List, Settle, NothingToRecover
  <1>7. CASE User
    BY <1>0, <1>7 DEF User, Cancel, Pause, Resume, Retry, Decide
  <1>8. CASE UNCHANGED vars
    BY <1>0, <1>8 DEF vars
  <1>q. QED
    BY <1>0, <1>3, <1>4, <1>5, <1>6, <1>7, <1>8 DEF Next

\* Every step keeps the types.
LEMMA StepTyped ==
  ASSUME Inv, [Next]_vars
  PROVE  Typed'
  <1>1. task' \in TaskStatuses
    <2>1. task \in TaskStatuses /\ "FAILED" \in TaskStatuses
      BY DEF Inv, Typed, TypeOK, TaskStatuses
    <2>2. CASE Enter
      <3>1. goal \in Goals
        BY <2>2 DEF Enter, Inv, Heading
      <3>2. StatusOfGoal \in TaskStatuses
        BY <3>1 DEF StatusOfGoal, Goals, Ends, TaskStatuses, Phases
      <3>q. QED
        BY <2>2, <3>2 DEF Enter
    <2>3. CASE Raise
      BY <2>1, <2>3 DEF Raise
    <2>q. QED
      BY <2>1, <2>2, <2>3, QuietSteps
  <1>2. wish' \in Wishes
    BY QuietSteps DEF Inv, Typed
  <1>q. QED
    BY <1>1, <1>2, FlagsTyped, RecordsTyped, RememberedTyped, ExecutionsTyped DEF Typed, TypeOK

-----------------------------------------------------------------------------
(* Where the worker is                                                      *)

\* The other actors leave the worker alone, but for the thread a retry starts
\* and the restart.
LEMMA OthersQuiet ==
  ASSUME [Next]_vars
  PROVE  WorkerStep \/ RetryStart \/ Restart \/ UNCHANGED worker
  <1> USE DEF worker, desktop, outside, history
  <1>1. ASSUME DeskStep PROVE RetryStart \/ UNCHANGED worker
    BY <1>1 DEF DeskStep, DeskStore, DeskLoad, DeskMove, DeskRefused, ResumeStore, DecideStore,
       RetryStore, List, Settle, NothingToRecover
  <1>2. CASE User
    BY <1>2 DEF User, Cancel, Pause, Resume, Retry, Decide
  <1>3. CASE (\E e \in Executions : ProviderEnds(e)) \/ UNCHANGED vars
    BY <1>3 DEF ProviderEnds, vars
  <1>q. QED
    BY <1>1, <1>2, <1>3 DEF Next

\* The goal and the task file agree with the place of the worker.
LEMMA StepHeading ==
  ASSUME Inv, [Next]_vars
  PROVE  Heading'
  <1> USE DEF Heading, Starting, WithRun, Goals, Ends, Phases, WithProvider, StatusOfGoal, worker,
         Loading, AfterRewrite, AfterMove, Mapped
  <1>0. Heading
    BY DEF Inv
  <1>1. CASE UNCHANGED <<task, worker>>
    BY <1>0, <1>1
  <1>2. ASSUME WorkerStep PROVE Heading'
    <2>1. CASE Load
      BY <1>0, <2>1 DEF Load, Loading, AfterRewrite, AfterMove
    <2>2. CASE Rewrite
      BY <1>0, <2>2 DEF Rewrite, Store, To, AfterRewrite
    <2>3. CASE Move
      BY <1>0, <2>3 DEF Move, Store, To, AfterMove
    <2>4. CASE Advance \/ Routed
      BY <1>0, <2>4 DEF Advance, Routed, Store, Go, To
    <2>5. CASE StartEngine
      BY <1>0, <2>5 DEF StartEngine, RepeatsTask
    <2>6. CASE Enter
      BY <1>0, <2>6 DEF Enter
    <2>7. CASE ObserveLoad
      BY <1>0, <2>7 DEF ObserveLoad, Proceeds, Mapped
    <2>8. CASE ObserveNothing
      BY <1>0, <2>8 DEF ObserveNothing, Proceeds, Mapped, AfterObserve, Go, To
    <2>9. CASE ObserveHop
      BY <1>0, <2>9 DEF ObserveHop, Hops, Store, To
    <2>10. CASE ObserveStore
      BY <1>0, <2>10 DEF ObserveStore, AfterObserve, Store, To
    <2>11. CASE Reserve
      <3>1. Unused \subseteq Executions
        BY DEF Unused
      <3>q. QED
        BY <1>0, <2>11, <3>1 DEF Reserve
    <2>12. CASE Call \/ Returned \/ Own \/ FinishExecution
      BY <1>0, <2>12 DEF Call, Returned, Own, FinishExecution, Store, Go, To
    <2>13. CASE Judge
      BY <1>0, <2>13 DEF Judge, Judged
    <2>14. CASE AfterEngine \/ Mend \/ Await \/ Decided \/ Rejected
      BY <1>0, <2>14 DEF AfterEngine, Mend, Await, Decided, Rejected, Store, Go, To
    <2>15. CASE Commit \/ AwaitPush \/ PushAuthorized \/ Push \/ Complete \/ Stop
      BY <1>0, <2>15 DEF Commit, AwaitPush, PushAuthorized, AfterWaiting, Push, Complete, Stop,
         Store, Go, To
    <2>16. CASE Raise
      BY <1>0, <2>16 DEF Raise, InHandler, AfterRouting
    <2>q. QED
      BY <1>2, <2>1, <2>2, <2>3, <2>4, <2>5, <2>6, <2>7, <2>8, <2>9, <2>10, <2>11, <2>12, <2>13,
         <2>14, <2>15, <2>16 DEF WorkerStep
  <1>3. CASE RetryStart
    BY <1>0, <1>3 DEF RetryStart
  <1>4. CASE Restart
    BY <1>0, <1>4 DEF Restart
  <1>5. CASE UNCHANGED worker
    <2>1. Enter \/ Raise \/ UNCHANGED task
      BY QuietSteps
    <2>2. CASE Enter \/ Raise
      BY <1>2, <2>2 DEF WorkerStep
    <2>q. QED
      BY <1>1, <1>5, <2>1, <2>2
  <1>q. QED
    BY <1>2, <1>3, <1>4, <1>5, OthersQuiet

\* COMPLETED stays in the task file, and what was delivered stays delivered.
LEMMA Lasting ==
  ASSUME Inv, [Next]_vars
  PROVE  /\ task = "COMPLETED" => task' = "COMPLETED"
         /\ Consented => Consented'
         /\ Delivered => Delivered'
  <1>1. UNCHANGED wish /\ (consent => consent')
    BY QuietSteps
  <1>2. task = "COMPLETED" => task' = "COMPLETED"
    <2>1. CASE Enter
      BY <2>1 DEF Enter, Inv, Heading
    <2>2. CASE Raise
      BY <2>2 DEF Raise, Phases
    <2>q. QED
      BY <2>1, <2>2, QuietSteps
  <1>3. commits = 1 => commits' = 1
    <2>1. CASE Commit
      BY <2>1 DEF Commit, Inv, Committed, Pushing, Closing, Failing, Starting
    <2>q. QED
      BY <2>1, QuietSteps
  <1>4. pushed => pushed'
    BY QuietSteps DEF Push
  <1>q. QED
    BY <1>1, <1>2, <1>3, <1>4 DEF Consented, Delivered

\* The worker comes to a commit, a push and the end of a run only with what they
\* take.
LEMMA StepEarned ==
  ASSUME Inv, [Next]_vars
  PROVE  Earned' /\ Committed'
  <1> USE DEF Earned, Committed, Consented, Delivered, Deciding, Committing, Pushing, Closing,
              Failing, Starting, worker, outside
  <1> DEFINE Good == Earned' /\ Committed'
  <1>0. /\ Earned /\ Committed
        /\ task = "COMPLETED" => task' = "COMPLETED"
        /\ Consented => Consented'
        /\ UNCHANGED wish
    BY Lasting, QuietSteps DEF Inv
  <1>1. CASE UNCHANGED <<task, at, commits, pushed>>
    BY <1>0, <1>1
  <1>2. ASSUME WorkerStep PROVE Good
    <2>1. CASE Load \/ ObserveLoad
      BY <1>1, <2>1 DEF Load, ObserveLoad
    <2>2. CASE Rewrite
      <3>1. Consented \/ wish.approval
        OBVIOUS
      <3>q. QED
        BY <1>0, <2>2, <3>1 DEF Rewrite, Store, To, AfterRewrite
    <2>3. CASE Move
      BY <1>0, <2>3 DEF Move, Store, To, AfterMove
    <2>4. CASE Advance \/ Routed \/ StartEngine
      BY <1>0, <2>4 DEF Advance, Routed, StartEngine, RepeatsTask, Store, Go, To, Inv,
         Heading, Phases
    <2>5. CASE Enter \/ ObserveNothing \/ ObserveHop \/ ObserveStore \/ Reserve \/ Call \/ Returned
               \/ Own \/ FinishExecution \/ Judge
      BY <1>0, <2>5 DEF Enter, ObserveNothing, ObserveHop, ObserveStore, AfterObserve, Proceeds,
         Reserve, Call, Returned, Own, FinishExecution, Judge, Store, Go, To, Inv, Heading, Goals,
         Ends, Phases, WithProvider
    <2>6. CASE AfterEngine
      BY <1>0, <2>6 DEF AfterEngine, Go, To, Inv, Heading, StatusOfGoal
    <2>7. CASE Decided
      <3>1. flags.decision = "approved" => consent
        BY DEF Inv, AllHonest
      <3>q. QED
        BY <1>0, <2>7, <3>1 DEF Decided, Go, To
    <2>8. CASE Await \/ Rejected \/ Mend \/ Complete \/ Stop
      BY <1>0, <2>8 DEF Await, Rejected, Mend, Complete, Stop, Store, To
    <2>9. CASE Commit
      BY <1>0, <2>9 DEF Commit
    <2>10. CASE AwaitPush \/ PushAuthorized \/ Push
      BY <1>0, <2>10 DEF AwaitPush, PushAuthorized, AfterWaiting, Push, Store, Go, To
    <2>11. CASE Raise
      BY <1>0, <2>11 DEF Raise, InHandler, AfterRouting
    <2>q. QED
      BY <1>2, <2>1, <2>2, <2>3, <2>4, <2>5, <2>6, <2>7, <2>8, <2>9, <2>10, <2>11 DEF WorkerStep
  <1>3. CASE RetryStart
    BY <1>0, <1>3 DEF RetryStart
  <1>4. CASE Restart
    BY <1>0, <1>4 DEF Restart
  <1>5. CASE UNCHANGED worker
    <2>1. CASE WorkerStep
      BY <1>2, <2>1
    <2>2. CASE ~WorkerStep
      BY <1>1, <1>5, <2>2, QuietSteps DEF WorkerStep
    <2>q. QED
      BY <2>1, <2>2
  <1>q. QED
    BY <1>2, <1>3, <1>4, <1>5, OthersQuiet

\* A provider that was left behind keeps the engine from the stage it works on.
LEMMA StepLone ==
  ASSUME Inv, [Next]_vars
  PROVE  Lone'
  <1> USE DEF Lone, Alone, AfterCall, worker, desktop, outside, history
  <1>0. Lone /\ (asked => asked')
    BY QuietSteps DEF Inv
  <1>1. SUFFICES ASSUME ~asked' PROVE Lone'
    OBVIOUS
  <1>2. ~flags.cancel /\ (provider = {} \/ \E e \in Executions : Alone(e))
    BY <1>0, <1>1
  <1>3. CASE UNCHANGED <<flags, provider, worker, task>>
    BY <1>2, <1>3
  <1>4. ASSUME WorkerStep PROVE Lone'
    <2>1. ~flags'.cancel
      BY <1>2, <1>4 DEF WorkerStep, Load, Rewrite, Move, Advance, Routed, StartEngine, Enter,
         ObserveLoad, ObserveNothing, ObserveHop, ObserveStore, Reserve, Call, Returned, Own,
         FinishExecution, Judge, AfterEngine, Mend, Await, Decided, Rejected, Commit, AwaitPush,
         PushAuthorized, Push, Complete, Stop, Raise, Store, Go, To, NoFlags
    <2>2. CASE Call
      BY <1>2, <2>1, <2>2 DEF Call, Inv, Heading
    <2>3. CASE Raise
      BY <1>2, <2>1, <2>3 DEF Raise, InHandler, AfterRouting, Inv, Heading, WithRun,
         WithProvider, Phases, StatusOfGoal
    <2>4. CASE Rewrite
      BY <1>2, <2>1, <2>4 DEF Rewrite, Store, To, AfterRewrite
    <2>5. CASE Move
      BY <1>2, <2>1, <2>5 DEF Move, Store, To, AfterMove
    <2>6. CASE Routed \/ StartEngine
      BY <1>2, <2>1, <2>6 DEF Routed, StartEngine, RepeatsTask, Go, To, Inv, Heading,
         Starting, Phases
    <2>7. CASE Load \/ Advance \/ Enter \/ ObserveLoad \/ ObserveNothing \/ ObserveHop
               \/ ObserveStore \/ Reserve
      BY <1>2, <2>1, <2>7 DEF Load, Advance, Enter, ObserveLoad, ObserveNothing, Proceeds,
         ObserveHop, ObserveStore, Reserve, Store, Go, To
    <2>8. CASE Returned \/ Own \/ FinishExecution \/ Judge \/ AfterEngine \/ Mend \/ Await
      BY <1>2, <2>1, <2>8 DEF Returned, Own, FinishExecution, Judge, AfterEngine, Mend, Await,
         Store, Go, To
    <2>9. CASE Decided \/ Rejected \/ Commit \/ AwaitPush \/ PushAuthorized \/ Push \/ Complete
      BY <1>2, <2>1, <2>9 DEF Decided, Rejected, Commit, AwaitPush, PushAuthorized, Push,
         Complete, Store, Go, To
    <2>10. CASE Stop
      BY <1>2, <2>1, <2>10 DEF Stop, Store, To
    <2>q. QED
      BY <1>4, <2>2, <2>3, <2>4, <2>5, <2>6, <2>7, <2>8, <2>9, <2>10 DEF WorkerStep
  <1>5. ASSUME DeskStep PROVE Lone'
    <2>1. CASE RetryStart
      BY <1>2, <2>1 DEF RetryStart, NoFlags
    <2>2. CASE ResumeStore \/ DecideStore
      BY <1>2, <2>2 DEF ResumeStore, DecideStore, DeskStore, Inv, Typed, IsFlags
    <2>3. CASE DeskLoad \/ DeskMove \/ DeskRefused \/ RetryStore \/ List \/ Settle
               \/ NothingToRecover
      BY <1>3, <2>3 DEF DeskLoad, DeskMove, DeskRefused, RetryStore, List, Settle,
         NothingToRecover, DeskStore
    <2>q. QED
      BY <1>5, <2>1, <2>2, <2>3 DEF DeskStep
  <1>6. ASSUME User PROVE Lone'
    <2>1. CASE Pause \/ \E decision \in {"approved", "rejected"} : Decide(decision)
      BY <1>2, <2>1 DEF Pause, Decide, Inv, Typed, IsFlags
    <2>2. CASE Cancel
      BY <1>1, <2>2 DEF Cancel
    <2>3. CASE Resume \/ Retry
      BY <1>3, <2>3 DEF Resume, Retry
    <2>q. QED
      BY <1>6, <2>1, <2>2, <2>3 DEF User
  <1>7. CASE Restart
    BY <1>2, <1>7 DEF Restart, NoFlags, Inv, Heading, WithRun, WithProvider, Phases,
       StatusOfGoal
  <1>8. ASSUME NEW e \in Executions, ProviderEnds(e) PROVE Lone'
    BY <1>2, <1>8 DEF ProviderEnds
  <1>9. CASE UNCHANGED vars
    BY <1>3, <1>9 DEF vars
  <1>q. QED
    BY <1>4, <1>5, <1>6, <1>7, <1>8, <1>9 DEF Next

-----------------------------------------------------------------------------
(* The copies of the record                                                 *)

\* A transition says nothing of a decision but the one that reaches it, and the
\* return from an interruption in it.
LEMMA HonestMove ==
  ASSUME NEW r, Honest(r), NEW t,
         t = "approval_decision" => task = "COMPLETED" \/ r.from = t
  PROVE  Honest(Moved(r, t))
  <1> DEFINE m == Moved(r, t)
  <1>1. m.status # "COMPLETED"
    BY DEF Moved
  <1>2. m.stage = t
    BY DEF Moved
  <1>3. m.from \in {r.stage, r.from, None}
    BY DEF Moved
  <1>4. None # "approval_decision"
    BY NoneIsNoStage DEF NoneIsNoStage, Stages
  <1>q. QED
    BY <1>1, <1>2, <1>3, <1>4 DEF Honest

\* Every copy of the record stays honest, the stale ones included.
LEMMA StepHonest ==
  ASSUME Inv, [Next]_vars
  PROVE  AllHonest'
  <1> USE DEF worker, desktop, outside, history
  <1> DEFINE Good == /\ Honest(run')
                     /\ copy' # None => Honest(copy')
                     /\ seen' # None => Honest(seen')
  <1>0. /\ Honest(run)
        /\ copy # None => Honest(copy)
        /\ seen # None => Honest(seen)
        /\ Earned
    BY DEF Inv, AllHonest
  <1>1. flags'.decision = "approved" => consent'
    <2>0. /\ flags.decision = "approved" => consent
          /\ consent => consent'
          /\ IsFlags
      BY QuietSteps DEF Inv, AllHonest, Typed
    <2>1. CASE UNCHANGED flags.decision \/ flags' = NoFlags
      BY <2>0, <2>1 DEF NoFlags
    <2>2. ASSUME WorkerStep PROVE UNCHANGED flags.decision \/ flags' = NoFlags
      BY <2>2 DEF WorkerStep, Load, Rewrite, Move, Advance, Routed, StartEngine, Enter,
         ObserveLoad, ObserveNothing, ObserveHop, ObserveStore, Reserve, Call, Returned, Own,
         FinishExecution, Judge, AfterEngine, Mend, Await, Decided, Rejected, Commit, AwaitPush,
         PushAuthorized, Push, Complete, Stop, Raise, Store, Go, To
    <2>3. ASSUME DeskStep PROVE UNCHANGED flags.decision \/ flags' = NoFlags
      BY <2>0, <2>3 DEF DeskStep, DeskStore, DeskLoad, DeskMove, DeskRefused, ResumeStore,
         DecideStore, RetryStore, RetryStart, List, Settle, NothingToRecover, IsFlags
    <2>4. ASSUME NEW decision, Decide(decision) PROVE flags'.decision = "approved" => consent'
      <3>1. run.stage = "approval_decision"
        BY <2>4 DEF Decide, AwaitsDecision
      <3>2. task = "COMPLETED"
        BY <1>0, <3>1 DEF Honest
      <3>3. flags'.decision = decision
        BY <2>0, <2>4 DEF Decide, IsFlags
      <3>4. decision = "approved" => consent'
        BY <2>4, <3>2, Zenon DEF Decide
      <3>q. QED
        BY <3>3, <3>4
    <2>5. CASE Cancel \/ Pause \/ Resume \/ Retry
      BY <2>0, <2>5 DEF Cancel, Pause, Resume, Retry, IsFlags
    <2>6. CASE Restart \/ (\E e \in Executions : ProviderEnds(e)) \/ UNCHANGED vars
      BY <2>1, <2>6 DEF Restart, ProviderEnds, vars
    <2>q. QED
      BY <2>1, <2>2, <2>3, <2>4, <2>5, <2>6 DEF Next, User
  <1>2. ASSUME run' = run, copy' \in {copy, None, run}, seen' \in {seen, None, run} PROVE Good
    BY <1>0, <1>2
  <1>3. ASSUME NEW record, NEW next, Store(record, next), Honest(record) PROVE Good
    BY <1>0, <1>3 DEF Store
  <1>4. ASSUME Honest(run'), UNCHANGED copy, seen' \in {seen, None} PROVE Good
    BY <1>0, <1>4
  <1>5. ASSUME NEW r, Honest(r), NEW t,
               t = "approval_decision" => task = "COMPLETED" \/ r.from = t
        PROVE  Honest(AfterTransition(r, t))
    BY <1>0, <1>5, HonestMove DEF AfterTransition
  <1>6. ASSUME WorkerStep PROVE Good
    <2>1. CASE Load \/ Routed \/ StartEngine \/ Enter \/ ObserveLoad \/ ObserveNothing \/ Call
               \/ Returned \/ Judge \/ AfterEngine \/ Decided \/ Commit \/ PushAuthorized \/ Push
               \/ Raise
      BY <1>2, <2>1 DEF Go, Load, Routed, StartEngine, Enter, ObserveLoad, ObserveNothing, Call,
         Returned, Judge, AfterEngine, Decided, Commit, PushAuthorized, Push, Raise
    <2>2. CASE Rewrite \/ Advance
      <3>1. Honest(copy)
        BY <1>0, <2>2 DEF Rewrite, Advance, Store
      <3>q. QED
        BY <1>3, <2>2, <3>1 DEF Rewrite, Advance
    <2>3. CASE Move
      <3>1. Honest(copy)
        BY <1>0, <2>3 DEF Move
      <3>2. AfterMove[at][1] = "approval_decision" => task = "COMPLETED"
        BY <1>0, <2>3 DEF Move, AfterMove, Earned, Deciding
      <3>q. QED
        BY <1>3, <1>5, <2>3, <3>1, <3>2 DEF Move
    <2>4. CASE ObserveHop
      <3>1. Honest(Moved(copy, "independent_audit"))
        BY <1>0, <2>4, HonestMove DEF ObserveHop
      <3>q. QED
        BY <1>3, <2>4, <3>1 DEF ObserveHop
    <2>5. CASE ObserveStore
      <3>1. goal \in Phases
        BY <2>5 DEF ObserveStore, Inv, Heading, Mapped, Loading, AfterRewrite, AfterMove, Phases
      <3>2. StageOf[goal] # "approval_decision"
        BY <3>1 DEF StageOf, Phases
      <3>3. Honest(copy)
        BY <1>0, <2>5 DEF ObserveStore
      <3>q. QED
        BY <1>3, <1>5, <2>5, <3>2, <3>3 DEF ObserveStore
    <2>6. CASE Reserve
      <3>1. copy # None /\ copy \in Records
        BY <2>6 DEF Reserve, Inv, Typed, TypeOK
      <3>2. Honest([copy EXCEPT !.execution[mine'] = "RESERVED"])
        BY <1>0, <3>1 DEF Honest, Records
      <3>q. QED
        BY <1>0, <2>6, <3>2 DEF Reserve
    <2>7. CASE Own \/ FinishExecution \/ Mend
      <3>1. copy # None /\ copy \in Records
        BY <2>7 DEF Own, FinishExecution, Mend, Store, Inv, Typed, TypeOK
      <3>2. \A x : Honest([copy EXCEPT !.execution[mine] = x])
        BY <1>0, <3>1 DEF Honest, Records
      <3>3. Honest(WithRecovery(copy))
        BY <1>0, <3>1 DEF Honest, Records, WithRecovery
      <3>q. QED
        BY <1>3, <2>7, <3>2, <3>3 DEF Own, FinishExecution, Mend
    <2>8. CASE Await \/ Rejected \/ AwaitPush \/ Complete
      <3>1. copy # None /\ copy \in Records
        BY <2>8 DEF Await, Rejected, AwaitPush, Complete, Store, Inv, Typed, TypeOK
      <3>2. \A s : (s = "COMPLETED" => Delivered) => Honest([copy EXCEPT !.status = s])
        BY <1>0, <3>1 DEF Honest, Records
      <3>3. Complete => Delivered
        BY <1>0 DEF Complete, Earned, Closing
      <3>q. QED
        BY <1>3, <2>8, <3>2, <3>3 DEF Await, Rejected, AwaitPush, Complete
    <2>9. CASE Stop
      <3>1. Honest(copy)
        BY <1>0, <2>9 DEF Stop
      <3>q. QED
        BY <1>3, <1>5, <2>9, <3>1 DEF Stop
    <2>q. QED
      BY <1>6, <2>1, <2>2, <2>3, <2>4, <2>5, <2>6, <2>7, <2>8, <2>9 DEF WorkerStep
  <1>7. ASSUME DeskStep PROVE Good
    <2>1. CASE DeskLoad \/ DeskRefused \/ RetryStart \/ List \/ NothingToRecover
      BY <1>2, <2>1 DEF DeskLoad, DeskRefused, RetryStart, List, NothingToRecover
    <2>2. CASE DeskMove
      <3>1. Honest(seen) /\ TargetOf[desk] # "approval_decision"
        BY <1>0, <2>2 DEF DeskMove, TargetOf
      <3>q. QED
        BY <1>4, <1>5, <2>2, <3>1 DEF DeskMove, DeskStore
    <2>3. CASE ResumeStore
      <3>1. Honest(seen)
        BY <1>0, <2>3 DEF ResumeStore, DeskStore
      <3>2. Honest(Moved(seen, seen.from))
        BY <3>1, HonestMove
      <3>q. QED
        BY <1>4, <2>3, <3>2 DEF ResumeStore, DeskStore
    <2>4. CASE DecideStore
      BY <1>0, <1>4, <2>4 DEF DecideStore, DeskStore
    <2>5. CASE RetryStore
      <3>1. seen \in Records /\ Selected(seen) \in Retryable
        BY <2>5 DEF RetryStore, Inv, Typed, Remembered
      <3>2. Selected(seen) # "approval_decision"
        BY <3>1 DEF Retryable, StageOf, Phases
      <3>3. None # "approval_decision"
        BY NoneIsNoStage DEF NoneIsNoStage, Stages
      <3>4. Honest(Retried(seen))
        BY <3>1, <3>2, <3>3 DEF Retried, Records, Honest
      <3>q. QED
        BY <1>4, <2>5, <3>4 DEF RetryStore
    <2>6. CASE Settle
      <3>1. seen \in Records /\ Honest(seen)
        BY <1>0, <2>6 DEF Settle, DeskStore, Inv, Typed, TypeOK
      <3>2. Honest(run')
        BY <2>6, <3>1 DEF Settle, DeskStore, Records, Honest
      <3>q. QED
        BY <1>4, <2>6, <3>2 DEF Settle, DeskStore
    <2>q. QED
      BY <1>7, <2>1, <2>2, <2>3, <2>4, <2>5, <2>6 DEF DeskStep
  <1>8. ASSUME User PROVE Good
    BY <1>2, <1>8 DEF User, Cancel, Pause, Resume, Retry, Decide
  <1>9. ASSUME Restart PROVE Good
    BY <1>2, <1>9 DEF Restart
  <1>10. ASSUME NEW e \in Executions, ProviderEnds(e) PROVE Good
    BY <1>2, <1>10 DEF ProviderEnds
  <1>11. ASSUME UNCHANGED vars PROVE Good
    BY <1>2, <1>11 DEF vars
  <1>12. Good
    BY <1>6, <1>7, <1>8, <1>9, <1>10, <1>11 DEF Next
  <1>13. ASSUME NEW r, Honest(r) PROVE Honest(r)'
    BY <1>13, Lasting DEF Honest
  <1>q. QED
    BY <1>1, <1>12, <1>13 DEF AllHonest, Honest

-----------------------------------------------------------------------------
(* The theorems                                                             *)

\* A new run satisfies the invariant.
LEMMA InitInv == Init => Inv
  <1> SUFFICES ASSUME Init PROVE Inv
    OBVIOUS
  <1> USE DEF Init
  <1>1. Typed
    <2>1. run \in Records
      BY DEF Records, Stages, Statuses, Live
    <2>2. task \in TaskStatuses /\ IsFlags
      BY DEF TaskStatuses, IsFlags, NoFlags
    <2>q. QED
      BY <2>1, <2>2 DEF Typed, TypeOK, Remembered
  <1>2. Heading
    BY DEF Heading, Loading, Starting, WithRun
  <1>3. Earned /\ Committed
    BY DEF Earned, Committed, Deciding, Committing, Pushing, Closing
  <1>4. AllHonest
    <2>1. None # "approval_decision"
      BY NoneIsNoStage DEF NoneIsNoStage, Stages
    <2>q. QED
      BY <2>1 DEF AllHonest, Honest, NoFlags
  <1>5. Lone
    BY DEF Lone, NoFlags
  <1>q. QED
    BY <1>1, <1>2, <1>3, <1>4, <1>5 DEF Inv

\* Inv holds in every state of every behaviour.
THEOREM Invariance == Spec => []Inv
  <1>1. Inv /\ [Next]_vars => Inv'
    BY StepTyped, StepHeading, StepEarned, StepHonest, StepLone DEF Inv
  <1>q. QED
    BY InitInv, <1>1, PTL DEF Spec

\* The records, the task file and the executions have their types.
THEOREM TypeCorrect == Spec => []TypeOK
  <1>1. Inv => TypeOK
    BY DEF Inv, Typed
  <1>q. QED
    BY <1>1, Invariance, PTL

\* However the stores of the two threads overwrite each other, and wherever the
\* process ends, a run commits once, after the engine completed the task and the
\* user consented to that result, and pushes what it committed.
THEOREM EarnedCommits == Spec => []CommitIsEarned
  <1>1. Inv => CommitIsEarned
    BY DEF Inv, Committed, Consented, CommitIsEarned
  <1>q. QED
    BY <1>1, Invariance, PTL

\* A record that says COMPLETED, stale copies included, is one of a run whose task
\* the engine completed, with the consent, the commit and the push of the commit
\* that were asked for; a push asked for without a commit is no part of it.
THEOREM CompletedRuns == Spec => []CompletedIsDelivered
  <1>1. Inv => CompletedIsDelivered
    BY DEF Inv, AllHonest, Honest, Delivered, Consented, CompletedIsDelivered
  <1>q. QED
    BY <1>1, Invariance, PTL

\* Without a cancellation no second provider is started while one works.
THEOREM OneProvider == Spec => []ProvidersAlone
  <1>1. Inv => ProvidersAlone
    <2>1. SUFFICES ASSUME Inv, ~asked PROVE ~(Cardinality(provider) > 1)
      BY DEF ProvidersAlone
    <2>2. PICK e : provider = {} \/ provider = {e}
      BY <2>1 DEF Inv, Lone, Alone
    <2>3. Cardinality(provider) \in {0, 1}
      BY <2>2, FS_EmptySet, FS_Singleton
    <2>q. QED
      BY <2>3
  <1>q. QED
    BY <1>1, Invariance, PTL

=============================================================================
