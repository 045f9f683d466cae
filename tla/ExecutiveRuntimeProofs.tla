----------------------- MODULE ExecutiveRuntimeProofs -----------------------
(***************************************************************************)
(* Proofs about the executive layer, for any number of workers, workflows,  *)
(* stages, retries and attempts and any budget.  The properties of           *)
(* ExecutiveRuntime are not inductive: a worker writes a task from what it   *)
(* read before.  Knows says what a worker still knows at each step, fresh or *)
(* not, and Bindings what the records of a task and of its attempts say      *)
(* about each other and about KeeperAuthority.                               *)
(***************************************************************************)
EXTENDS ExecutiveRuntime, FiniteSetTheorems, TLAPS

-----------------------------------------------------------------------------
(* The inductive invariant                                                  *)

\* Where a worker drives an author's attempt, and a reviewer's.
AuthorPC == {"reserve", "start", "recheck", "run", "cross", "execute", "await",
             "raised", "reconcile"}
ReviewPC == {"reviewReserve", "reviewStart", "reviewRecheck", "reviewExecute",
             "reviewAwait", "reviewRaised", "reviewReconcile"}

\* A worker that was not stopped between the claim of its attempt and the end of it.
Launching(w) == work[w].pc \in AuthorPC \ {"reconcile"} /\ ~work[w].recovering

Knows(w) ==
    /\ work[w].pc \notin {"idle", "plan", "pause"} => Task(w) \in Tasks
    /\ work[w].pc = "plan" => work[w].plan \in Plans
    /\ work[w].pc \in {"candidate", "claim", "reserve"} => ~work[w].recovering
    /\ work[w].pc = "reconcile" => work[w].recovering
    /\ work[w].pc \in AuthorPC \cup ReviewPC =>
          Att(w) \in 1 .. drawn /\ owner[Att(w)] = Task(w)
    /\ work[w].pc \in AuthorPC /\ work[w].fresh =>
          status[Task(w)] \in InFlight /\ author[Task(w)] = Att(w)
    /\ work[w].pc = "reserve" =>
          authority[Att(w)] = "NONE" /\ author[Task(w)] = Att(w)
    /\ work[w].pc = "reviewReserve" =>
          authority[Att(w)] = "NONE" /\ reviewer[Task(w)] = Att(w)
    /\ work[w].pc = "execute" => hold[Att(w)] \in {"NONE", "CROSSED"}
    /\ work[w].pc \in ReviewPC => hold[Att(w)] = "NONE"

Working == \A w \in Workers : Knows(w)

\* Nobody else launches the attempt a worker claimed, or reserves it.
Alone ==
    \A v, w \in Workers :
        /\ Att(v) = Att(w)
        /\ \/ Launching(v) /\ Launching(w)
           \/ At(v, "reviewReserve") /\ At(w, "reviewReserve")
        => v = w

\* What is known of an attempt that is not in use yet.
Undrawn ==
    \A a \in Attempts :
        a > drawn => /\ owner[a] = NoTask /\ hold[a] = "NONE" /\ authority[a] = "NONE"
                     /\ a \notin ran

\* What the record of a task says of its attempts.
Agrees(k) ==
    /\ author[k] # 0 => author[k] <= drawn /\ owner[author[k]] = k
    /\ reviewer[k] # 0 =>
          /\ reviewer[k] <= drawn /\ owner[reviewer[k]] = k /\ hold[reviewer[k]] = "NONE"
          /\ author[k] # 0 /\ author[k] < reviewer[k]
          /\ authority[author[k]] = "COMPLETED"
    /\ status[k] \in InFlight \cup {"REVIEW_REQUIRED", "COMPLETED"} => author[k] # 0
    /\ status[k] \in {"REVIEW_REQUIRED", "COMPLETED"} => authority[author[k]] = "COMPLETED"
    /\ status[k] = "COMPLETED" /\ k[2] \in independent =>
          reviewer[k] # 0 /\ authority[reviewer[k]] = "COMPLETED"

Bindings == \A k \in Tasks : Agrees(k)

\* KeeperAuthority has run every attempt it knows the end of, and what it would
\* still run is an attempt its task is bound to.
Answers ==
    \A a \in Attempts :
        /\ authority[a] \in {"STARTED", "COMPLETED", "FAILED"} => a \in ran
        /\ authority[a] \in Open =>
              owner[a] \in Tasks /\ a \in {author[owner[a]], reviewer[owner[a]]}

WorkerRecord ==
    [pc : PC, task : Tasks \cup {NoTask}, att : 0 .. MaxAttempts, fresh : BOOLEAN,
     same : BOOLEAN, target : Targets, recovering : BOOLEAN, plan : Plans \cup {0}]

WorkTyped == work \in [Workers -> WorkerRecord]

Inv ==
    /\ TypeOK /\ Working /\ Alone /\ Undrawn /\ Bindings /\ Answers
    /\ SpendingIsAccounted /\ CanceledIsStill

-----------------------------------------------------------------------------
(* What a write of a task leaves of the workers                             *)

\* Worker v goes on as it was; what it read of a task in K is no longer fresh.
Keeps(v, K) ==
    /\ work'[v].pc = work[v].pc /\ work'[v].task = work[v].task
    /\ work'[v].att = work[v].att /\ work'[v].plan = work[v].plan
    /\ work'[v].recovering = work[v].recovering
    /\ work'[v].fresh => work[v].fresh /\ Task(v) \notin K

Others(w, K) == \A v \in Workers \ {w} : Keeps(v, K)

\* Worker w goes on at pc with its task and its attempt.
Continues(w, pc) ==
    /\ work'[w].pc = pc
    /\ work'[w].task = Task(w) /\ work'[w].att = Att(w)
    /\ work'[w].recovering = work[w].recovering

\* NoTask is no task of a workflow.
LEMMA NoTaskIsNone == NoTask \notin Tasks
  BY DEF NoTask, Tasks, Stages

\* A worker that returns has an empty record.
LEMMA IdleTyped == Idle \in WorkerRecord
  BY ExecutiveConstants DEF Idle, WorkerRecord, PC, Targets

\* A worker that leaves for _pause takes a state of the project with it.
LEMMA PausingTyped ==
  ASSUME WorkTyped, NEW w \in Workers, NEW target \in Targets, NEW reread \in BOOLEAN
  PROVE  /\ Pausing(w, target, reread) \in WorkerRecord
         /\ Pausing(w, target, reread).pc = "pause"
  <1> DEFINE same == work[w].same \/ reread
  <1>1. same \in BOOLEAN
    BY DEF WorkTyped, WorkerRecord
  <1>2. Pausing(w, target, reread) = [Idle EXCEPT !.pc = "pause", !.target = target,
                                                   !.same = same]
    BY DEF Pausing
  <1> HIDE DEF same
  <1>3. "pause" \in PC
    BY DEF PC
  <1>4. [Idle EXCEPT !.pc = "pause", !.target = target, !.same = same] \in WorkerRecord
    BY <1>1, <1>3, IdleTyped DEF WorkerRecord
  <1>5. [Idle EXCEPT !.pc = "pause", !.target = target, !.same = same].pc = "pause"
    BY DEF Idle
  <1>q. QED
    BY <1>2, <1>4, <1>5

\* A worker that only writes its own record.
LEMMA SelfEffect ==
  ASSUME WorkTyped, NEW w \in Workers, NEW r \in WorkerRecord,
         work' = [work EXCEPT ![w] = r]
  PROVE  WorkTyped' /\ Others(w, {}) /\ work'[w] = r
  BY DEF WorkTyped, WorkerRecord, Others, Keeps, Task

\* A worker that goes on at pc, and nothing else.
LEMMA GotoEffect ==
  ASSUME WorkTyped, NEW w \in Workers, NEW pc \in PC, Goto(w, pc)
  PROVE  /\ WorkTyped' /\ Others(w, {}) /\ Continues(w, pc)
         /\ work'[w].fresh = work[w].fresh
  BY DEF Goto, WorkTyped, WorkerRecord, Others, Keeps, Continues, Task, Att

\* A worker that returns.
LEMMA ReturnEffect ==
  ASSUME WorkTyped, NEW w \in Workers, Return(w)
  PROVE  WorkTyped' /\ Others(w, {}) /\ work'[w] = Idle
  BY SelfEffect, IdleTyped DEF Return

\* A worker that writes task k.
LEMMA TaskWriteEffect ==
  ASSUME WorkTyped, NEW w \in Workers, NEW k, NEW r \in WorkerRecord,
         work' = [v \in Workers |->
                    IF v = w THEN r
                    ELSE [work[v] EXCEPT !.fresh = @ /\ work[v].task # k]]
  PROVE  WorkTyped' /\ Others(w, {k}) /\ work'[w] = r
  <1>1. ASSUME NEW v \in Workers \ {w}
        PROVE  work'[v] \in WorkerRecord /\ Keeps(v, {k})
    <2> DEFINE fresh == work[v].fresh /\ work[v].task # k
    <2>1. fresh \in BOOLEAN
      OBVIOUS
    <2>2. work'[v] = [work[v] EXCEPT !.fresh = fresh]
      BY <1>1
    <2>3. work[v] \in WorkerRecord
      BY <1>1 DEF WorkTyped
    <2>4. fresh => work[v].fresh /\ Task(v) \notin {k}
      BY DEF Task
    <2> HIDE DEF fresh
    <2>q. QED
      BY <2>1, <2>2, <2>3, <2>4 DEF WorkerRecord, Keeps
  <1>2. work'[w] = r
    OBVIOUS
  <1>q. QED
    BY <1>1, <1>2 DEF WorkTyped, Others

\* A worker that writes task k and goes on with it.
LEMMA WroteEffect ==
  ASSUME WorkTyped, NEW w \in Workers, NEW k, NEW pc \in PC, Wrote(w, k, pc)
  PROVE  WorkTyped' /\ Others(w, {k}) /\ Continues(w, pc)
  <1> DEFINE r == [work[w] EXCEPT !.pc = pc, !.fresh = TRUE]
  <1>1. r \in WorkerRecord
    BY DEF WorkTyped, WorkerRecord
  <1>2. work' = [v \in Workers |->
                   IF v = w THEN r
                   ELSE [work[v] EXCEPT !.fresh = @ /\ work[v].task # k]]
    BY DEF Wrote
  <1> HIDE DEF r
  <1>3. WorkTyped' /\ Others(w, {k}) /\ work'[w] = r
    BY <1>1, <1>2, TaskWriteEffect
  <1>q. QED
    BY <1>3 DEF r, WorkTyped, WorkerRecord, Continues, Task, Att

\* A worker that writes task k and leaves for _pause.
LEMMA WroteAndPausesEffect ==
  ASSUME WorkTyped, NEW w \in Workers, NEW k, NEW target \in Targets,
         NEW reread \in BOOLEAN, WroteAndPauses(w, k, target, reread)
  PROVE  /\ WorkTyped' /\ Others(w, {k})
         /\ work'[w].pc = "pause"
  <1>1. Pausing(w, target, reread) \in WorkerRecord
    BY PausingTyped
  <1>2. work' = [v \in Workers |->
                   IF v = w THEN Pausing(w, target, reread)
                   ELSE [work[v] EXCEPT !.fresh = @ /\ work[v].task # k]]
    BY DEF WroteAndPauses
  <1>3. WorkTyped' /\ Others(w, {k}) /\ work'[w] = Pausing(w, target, reread)
    BY <1>1, <1>2, TaskWriteEffect
  <1>q. QED
    BY <1>3, PausingTyped

\* A worker that writes the project.
LEMMA WroteProjectEffect ==
  ASSUME WorkTyped, NEW w \in Workers, NEW r \in WorkerRecord, WroteProject(w, r)
  PROVE  WorkTyped' /\ Others(w, {}) /\ work'[w] = r
  BY DEF WroteProject, WorkTyped, WorkerRecord, Others, Keeps, Task

\* The founder writes the project and the tasks in K.
LEMMA ChangedEffect ==
  ASSUME WorkTyped, NEW K, Changed(K)
  PROVE  WorkTyped' /\ \A v \in Workers : Keeps(v, K)
  <1>1. ASSUME NEW v \in Workers
        PROVE  work'[v] \in WorkerRecord /\ Keeps(v, K)
    <2> DEFINE fresh == work[v].fresh /\ work[v].task \notin K
    <2>1. fresh \in BOOLEAN
      OBVIOUS
    <2>2. work'[v] = [work[v] EXCEPT !.same = FALSE, !.fresh = fresh]
      BY DEF Changed
    <2>3. work[v] \in WorkerRecord
      BY DEF WorkTyped
    <2>4. fresh => work[v].fresh /\ Task(v) \notin K
      BY DEF Task
    <2> HIDE DEF fresh
    <2>q. QED
      BY <2>1, <2>2, <2>3, <2>4 DEF WorkerRecord, Keeps
  <1>q. QED
    BY <1>1 DEF WorkTyped, Changed

-----------------------------------------------------------------------------
(* What a worker knows stays true                                           *)

\* What Knows and Alone depend on, apart from the workers.
Data == <<status, author, reviewer, drawn, owner, hold, authority>>

\* No attempt in use changes its task, and a reservation that is not to be crossed
\* stays as it is.
Growing ==
    /\ drawn' \in {drawn, drawn + 1}
    /\ \A a \in 1 .. drawn :
          /\ owner'[a] = owner[a]
          /\ hold[a] \in {"NONE", "CROSSED"} => hold'[a] = hold[a]

\* Tasks outside K stay bound to their author's attempt, and in flight.
Flying(K) ==
    \A k \in Tasks \ K :
        /\ status[k] \in InFlight => status'[k] \in InFlight
        /\ author'[k] = author[k]

\* An attempt that v is about to reserve is still unknown to KeeperAuthority.
Unasked(v) ==
    /\ work[v].pc = "reserve" =>
          authority'[Att(v)] = "NONE" /\ author'[Task(v)] = author[Task(v)]
    /\ work[v].pc = "reviewReserve" =>
          authority'[Att(v)] = "NONE" /\ reviewer'[Task(v)] = reviewer[Task(v)]

\* What another worker knows is not disturbed.
LEMMA KnowsKept ==
  ASSUME NEW v \in Workers, NEW K, drawn \in Nat, Knows(v), Keeps(v, K), Growing,
         Flying(K), Unasked(v)
  PROVE  Knows(v)'
  BY DEF Knows, Keeps, Growing, Flying, Unasked, Task, Att, AuthorPC, ReviewPC

\* The worker launches or reserves only what it did before, or a fresh attempt.
OwnAttempt(w) ==
    /\ Launching(w)' => (Launching(w) /\ Att(w)' = Att(w)) \/ Att(w)' = drawn + 1
    /\ At(w, "reviewReserve")' =>
          (At(w, "reviewReserve") /\ Att(w)' = Att(w)) \/ Att(w)' = drawn + 1

\* Nobody else launches or reserves the attempt of another.
LEMMA AloneKept ==
  ASSUME drawn \in Nat, Working, Alone,
         NEW w \in Workers, NEW K, Others(w, K), OwnAttempt(w)
  PROVE  Alone'
  <1>1. \A v \in Workers \ {w} :
           /\ Launching(v)' => Launching(v)
           /\ At(v, "reviewReserve")' => At(v, "reviewReserve")
           /\ Att(v)' = Att(v)
    BY DEF Others, Keeps, Launching, At, Att
  <1>2. \A v \in Workers : Launching(v) \/ At(v, "reviewReserve") => Att(v) # drawn + 1
    BY DEF Working, Knows, Launching, At, AuthorPC, ReviewPC
  <1>q. QED
    BY <1>1, <1>2 DEF Alone, OwnAttempt

\* Nor when no worker does anything.
LEMMA AloneStays ==
  ASSUME Alone, NEW K, \A v \in Workers : Keeps(v, K)
  PROVE  Alone'
  BY DEF Alone, Keeps, Launching, At, Att

\* A worker takes a step that disturbs nobody else.
LEMMA Undisturbed ==
  ASSUME drawn \in Nat, Working, Alone, NEW w \in Workers, NEW K, Others(w, K),
         Growing, Flying(K), \A v \in Workers \ {w} : Unasked(v),
         Knows(w)', OwnAttempt(w)
  PROVE  Working' /\ Alone'
  <1>1. \A v \in Workers \ {w} : Knows(v)'
    BY KnowsKept DEF Others, Working
  <1>q. QED
    BY <1>1, AloneKept DEF Working

\* A worker takes a step that writes only its own record, a review or the project.
LEMMA Quiet ==
  ASSUME drawn \in Nat, Working, Alone, NEW w \in Workers, Others(w, {}), UNCHANGED Data,
         Knows(w)', OwnAttempt(w)
  PROVE  Working' /\ Alone'
  <1>1. Growing /\ Flying({})
    BY DEF Data, Growing, Flying
  <1>2. \A v \in Workers : Unasked(v)
    BY DEF Working, Knows, Data, Unasked
  <1>q. QED
    BY <1>1, <1>2, Undisturbed

\* What Knows and Alone depend on, apart from the workers and the state of tasks.
Fixed == <<author, reviewer, drawn, owner, hold, authority>>

\* A worker takes a step that writes the state of its task.
LEMMA StatusWrite ==
  ASSUME drawn \in Nat, status \in [Tasks -> TaskStatus], Working, Alone,
         NEW w \in Workers, Others(w, {Task(w)}), NEW to, Status(w, to), UNCHANGED Fixed,
         Knows(w)', OwnAttempt(w)
  PROVE  Working' /\ Alone'
  <1>1. Growing /\ Flying({Task(w)})
    BY DEF Fixed, Growing, Flying, Status
  <1>2. \A v \in Workers : Unasked(v)
    BY DEF Working, Knows, Fixed, Unasked
  <1>q. QED
    BY <1>1, <1>2, Undisturbed

\* A worker that returns or leaves for _pause needs to know nothing.
LEMMA Resting ==
  ASSUME NEW w \in Workers, work'[w].pc \in {"idle", "pause"}
  PROVE  Knows(w)' /\ OwnAttempt(w)
  BY DEF Knows, OwnAttempt, Launching, At, AuthorPC, ReviewPC

-----------------------------------------------------------------------------
(* Steps of a worker that write no task                                     *)

\* The steps of a worker that write its own record, a review or the project.
QuietStep(w) ==
    \/ StartPlanning(w) \/ SaveWorkflow(w) \/ FinishPlanning(w) \/ ChooseTask(w)
    \/ CompleteProject(w) \/ NothingToDo(w) \/ Pause(w)
    \/ RefuseCandidate(w) \/ RefuseClaim(w) \/ RecheckLaunch(w) \/ AuthorUnqualified(w)
    \/ AwaitRaises(w) \/ ResumeReserved(w) \/ RefuseReview(w)
    \/ StartReview(w) \/ RecheckReview(w) \/ ReviewAwaitRaises(w) \/ ReviewRaised(w)
    \/ ResumeReview(w) \/ AwaitReview(w) \/ Crash(w)

\* They leave the data alone.
LEMMA QuietData ==
  ASSUME NEW w \in Workers, QuietStep(w)
  PROVE  UNCHANGED Data
  BY DEF QuietStep, Data, taskVars, attemptVars, authorityVars, ReviewVarsOnly,
     StartPlanning, SaveWorkflow, FinishPlanning, ChooseTask, CompleteProject, NothingToDo,
     Pause, RefuseCandidate, RefuseClaim, RecheckLaunch, AuthorUnqualified, AwaitRaises,
     ResumeReserved, RefuseReview, StartReview, RecheckReview, ReviewAwaitRaises,
     ReviewRaised, ResumeReview, AwaitReview, Crash

\* The steps after which the worker is back or on its way to _pause.
LEMMA StepResting ==
  ASSUME WorkTyped, NEW w \in Workers,
         \/ FinishPlanning(w) \/ CompleteProject(w) \/ NothingToDo(w) \/ Pause(w)
         \/ RefuseCandidate(w) \/ RefuseClaim(w) \/ AuthorUnqualified(w) \/ RefuseReview(w)
         \/ ReviewRaised(w) \/ AwaitReview(w) \/ Crash(w)
  PROVE  WorkTyped' /\ Others(w, {}) /\ work'[w].pc \in {"idle", "pause"}
  <1>1. Idle \in WorkerRecord /\ Idle.pc = "idle"
    BY IdleTyped DEF Idle
  <1>2. \A target \in Targets : \A reread \in BOOLEAN :
          /\ Pausing(w, target, reread) \in WorkerRecord
          /\ Pausing(w, target, reread).pc = "pause"
    BY PausingTyped
  <1>3. {"WAITING_FOR_PROVIDER", "BLOCKED", "WAITING_FOR_FOUNDER"} \subseteq Targets
    BY DEF Targets
  <1>4. (~work[w].recovering) \in BOOLEAN
    OBVIOUS
  <1>5. CASE Return(w)
    BY <1>1, <1>5, ReturnEffect
  <1>6. CASE WroteProject(w, Idle)
    BY <1>1, <1>6, WroteProjectEffect
  <1>7. ASSUME NEW target \in Targets, NEW reread \in BOOLEAN,
               work' = [work EXCEPT ![w] = Pausing(w, target, reread)]
        PROVE  WorkTyped' /\ Others(w, {}) /\ work'[w].pc \in {"idle", "pause"}
    BY <1>2, <1>7, SelfEffect
  <1>8. CASE FinishPlanning(w) \/ CompleteProject(w) \/ NothingToDo(w) \/ Pause(w)
             \/ RefuseClaim(w) \/ Crash(w)
    BY <1>5, <1>6, <1>8
    DEF FinishPlanning, CompleteProject, NothingToDo, Pause, RefuseClaim, Crash
  <1>9. CASE RefuseCandidate(w)
    BY <1>3, <1>7, <1>9 DEF RefuseCandidate
  <1>10. CASE AuthorUnqualified(w) \/ RefuseReview(w) \/ AwaitReview(w)
    BY <1>3, <1>7, <1>10 DEF AuthorUnqualified, RefuseReview, AwaitReview
  <1>11. CASE ReviewRaised(w)
    BY <1>3, <1>4, <1>7, <1>11 DEF ReviewRaised
  <1>q. QED
    BY <1>8, <1>9, <1>10, <1>11

\* A worker that goes on as it was, or whose launch fails.
LEMMA Moved ==
  ASSUME WorkTyped, NEW w \in Workers, Knows(w), NEW pc \in PC, Goto(w, pc),
         \/ work[w].pc \in AuthorPC /\ pc \in AuthorPC \ {"reserve", "execute", "reconcile"}
         \/ work[w].pc \in ReviewPC /\ pc \in ReviewPC \ {"reviewReserve"},
         UNCHANGED <<status, author, drawn, owner, hold>>
  PROVE  WorkTyped' /\ Others(w, {}) /\ Knows(w)' /\ OwnAttempt(w)
  <1>1. /\ WorkTyped' /\ Others(w, {}) /\ Continues(w, pc)
        /\ work'[w].fresh = work[w].fresh
    BY GotoEffect
  <1>q. QED
    BY <1>1
    DEF Continues, Knows, OwnAttempt, Launching, At, AuthorPC, ReviewPC, Task, Att

\* The quiet steps of a launch, a reconciliation and a review.
LEMMA StepMoved ==
  ASSUME WorkTyped, NEW w \in Workers, Knows(w),
         \/ RecheckLaunch(w) \/ AwaitRaises(w) \/ ResumeReserved(w) \/ StartReview(w)
         \/ RecheckReview(w) \/ ReviewAwaitRaises(w) \/ ResumeReview(w)
  PROVE  WorkTyped' /\ Others(w, {}) /\ Knows(w)' /\ OwnAttempt(w)
  <1>1. UNCHANGED Data
    BY QuietData DEF QuietStep
  <1>2. ASSUME NEW pc \in AuthorPC \ {"reserve", "execute", "reconcile"},
               work[w].pc \in AuthorPC, Goto(w, pc)
        PROVE  WorkTyped' /\ Others(w, {}) /\ Knows(w)' /\ OwnAttempt(w)
    BY <1>1, <1>2, Moved DEF AuthorPC, PC, Data
  <1>3. ASSUME NEW pc \in ReviewPC \ {"reviewReserve"}, work[w].pc \in ReviewPC, Goto(w, pc)
        PROVE  WorkTyped' /\ Others(w, {}) /\ Knows(w)' /\ OwnAttempt(w)
    BY <1>1, <1>3, Moved DEF ReviewPC, PC, Data
  <1>4. CASE Return(w)
    BY <1>4, ReturnEffect, Resting DEF Idle
  <1>5. CASE RecheckLaunch(w) \/ AwaitRaises(w)
    BY <1>2, <1>4, <1>5 DEF RecheckLaunch, AwaitRaises, At, AuthorPC
  <1>6. CASE ResumeReserved(w)
    BY <1>2, <1>6 DEF ResumeReserved, Goto, At, AuthorPC
  <1>7. CASE StartReview(w) \/ RecheckReview(w) \/ ReviewAwaitRaises(w) \/ ResumeReview(w)
    BY <1>3, <1>7 DEF StartReview, RecheckReview, ReviewAwaitRaises, ResumeReview, At,
       ReviewPC
  <1>q. QED
    BY <1>5, <1>6, <1>7

\* A worker that begins to plan knows the workflow it is about to save.
LEMMA StepStartPlanning ==
  ASSUME WorkTyped, NEW w \in Workers, StartPlanning(w)
  PROVE  WorkTyped' /\ Others(w, {}) /\ Knows(w)' /\ OwnAttempt(w)
  <1>1. PICK p \in Plans :
          LET next == [Idle EXCEPT !.pc = "plan", !.same = TRUE, !.plan = p]
          IN WroteProject(w, next) \/ work' = [work EXCEPT ![w] = next]
    BY DEF StartPlanning
  <1> DEFINE next == [Idle EXCEPT !.pc = "plan", !.same = TRUE, !.plan = p]
  <1>2. next \in WorkerRecord /\ next.pc = "plan" /\ next.plan = p
    BY IdleTyped DEF WorkerRecord, PC, Idle
  <1>3. WroteProject(w, next) \/ work' = [work EXCEPT ![w] = next]
    BY <1>1
  <1> HIDE DEF next
  <1>4. WorkTyped' /\ Others(w, {}) /\ work'[w] = next
    BY <1>2, <1>3, WroteProjectEffect, SelfEffect
  <1>q. QED
    BY <1>2, <1>4 DEF Knows, OwnAttempt, Launching, At, AuthorPC, ReviewPC

\* A worker takes a task with the attempt the task is bound to.
LEMMA StepChooseTask ==
  ASSUME TypeOK, Bindings, NEW w \in Workers, ChooseTask(w)
  PROVE  WorkTyped' /\ Others(w, {}) /\ Knows(w)' /\ OwnAttempt(w)
  <1> USE DEF TypeOK
  <1>0. WorkTyped
    BY DEF WorkTyped, WorkerRecord
  <1>1. UNCHANGED Data
    BY QuietData DEF QuietStep
  <1>2. ASSUME NEW k \in Tasks, NEW a \in 0 .. MaxAttempts, NEW pc \in PC, Take(w, k, a, pc)
        PROVE  /\ WorkTyped' /\ Others(w, {})
               /\ work'[w].pc = pc /\ work'[w].task = k /\ work'[w].att = a
               /\ work'[w].recovering = (pc # "candidate")
    <2> DEFINE t == IF pc # "candidate" \/ Executable THEN "EXECUTING" ELSE "BLOCKED"
               rec == pc # "candidate"
               r == [Idle EXCEPT !.pc = pc, !.task = k, !.att = a, !.fresh = TRUE,
                                 !.same = TRUE, !.recovering = rec, !.target = t]
    <2>1. t \in Targets /\ rec \in BOOLEAN
      BY DEF Targets
    <2>2. work' = [work EXCEPT ![w] = r]
      BY <1>2 DEF Take
    <2> HIDE DEF t, rec
    <2>3. /\ r \in WorkerRecord
          /\ r.pc = pc /\ r.task = k /\ r.att = a /\ r.recovering = rec
      BY <2>1, IdleTyped DEF WorkerRecord, Idle
    <2> HIDE DEF r
    <2>4. WorkTyped' /\ Others(w, {}) /\ work'[w] = r
      BY <1>0, <2>2, <2>3, SelfEffect
    <2>q. QED
      BY <2>3, <2>4 DEF rec
  <1>3. CASE \E k \in Known : status[k] \in InFlight /\ Take(w, k, author[k], "reconcile")
    <2>1. PICK k \in Known : status[k] \in InFlight /\ Take(w, k, author[k], "reconcile")
      BY <1>3
    <2>2. k \in Tasks /\ author[k] \in 1 .. drawn /\ owner[author[k]] = k
      BY <2>1 DEF Known, Bindings, Agrees
    <2>3. author[k] \in 0 .. MaxAttempts /\ reviewer[k] \in 0 .. MaxAttempts /\ "reconcile" \in PC
      BY <2>2 DEF PC
    <2>4. /\ WorkTyped' /\ Others(w, {})
          /\ work'[w].pc = "reconcile" /\ work'[w].task = k /\ work'[w].att = author[k]
          /\ work'[w].recovering
      <3>1. Take(w, k, author[k], "reconcile")
        BY <2>1
      <3>2. /\ WorkTyped' /\ Others(w, {})
            /\ work'[w].pc = "reconcile" /\ work'[w].task = k /\ work'[w].att = author[k]
            /\ work'[w].recovering = ("reconcile" # "candidate")
        BY <1>2, <2>2, <2>3, <3>1
      <3>q. QED
        BY <3>2
    <2>5. UNCHANGED <<status, author, owner, hold, drawn>>
      BY <1>1 DEF Data
    <2>6. Knows(w)'
      BY <2>1, <2>2, <2>4, <2>5 DEF Knows, AuthorPC, ReviewPC, Task, Att
    <2>7. OwnAttempt(w)
      BY <2>4 DEF OwnAttempt, Launching, At, AuthorPC
    <2>q. QED
      BY <2>4, <2>6, <2>7
  <1>4. CASE \E k \in Reviewing(TRUE) : Take(w, k, reviewer[k], "reviewReconcile")
    <2>1. PICK k \in Reviewing(TRUE) : Take(w, k, reviewer[k], "reviewReconcile")
      BY <1>4
    <2>2. /\ k \in Tasks /\ reviewer[k] \in 1 .. drawn /\ owner[reviewer[k]] = k
          /\ hold[reviewer[k]] = "NONE"
      BY <2>1 DEF Known, Reviewing, Bindings, Agrees
    <2>3. author[k] \in 0 .. MaxAttempts /\ reviewer[k] \in 0 .. MaxAttempts /\ "reviewReconcile" \in PC
      BY <2>2 DEF PC
    <2>4. /\ WorkTyped' /\ Others(w, {})
          /\ work'[w].pc = "reviewReconcile" /\ work'[w].task = k /\ work'[w].att = reviewer[k]
          /\ work'[w].recovering
      <3>1. Take(w, k, reviewer[k], "reviewReconcile")
        BY <2>1
      <3>2. /\ WorkTyped' /\ Others(w, {})
            /\ work'[w].pc = "reviewReconcile" /\ work'[w].task = k /\ work'[w].att = reviewer[k]
            /\ work'[w].recovering = ("reviewReconcile" # "candidate")
        BY <1>2, <2>2, <2>3, <3>1
      <3>q. QED
        BY <3>2
    <2>5. UNCHANGED <<status, author, owner, hold, drawn>>
      BY <1>1 DEF Data
    <2>6. Knows(w)'
      BY <2>2, <2>4, <2>5 DEF Knows, AuthorPC, ReviewPC, Task, Att
    <2>7. OwnAttempt(w)
      BY <2>4 DEF OwnAttempt, Launching, At, AuthorPC
    <2>q. QED
      BY <2>4, <2>6, <2>7
  <1>5. CASE \/ \E k \in Reviewing(FALSE) : Take(w, k, author[k], "review")
             \/ \E k \in Candidates : Take(w, k, 0, "candidate")
    <2>1. PICK k \in Known : Take(w, k, author[k], "review") \/ Take(w, k, 0, "candidate")
      BY <1>5 DEF Reviewing, Candidates
    <2>2. k \in Tasks /\ author[k] \in 0 .. MaxAttempts /\ 0 \in 0 .. MaxAttempts
      BY ExecutiveConstants DEF Known
    <2>3. PICK pc \in {"review", "candidate"} :
            /\ WorkTyped' /\ Others(w, {})
            /\ work'[w].pc = pc /\ work'[w].task = k
            /\ work'[w].recovering = (pc # "candidate")
      BY <1>2, <2>1, <2>2 DEF PC
    <2>q. QED
      BY <2>2, <2>3 DEF Knows, OwnAttempt, Launching, At, AuthorPC, ReviewPC, Task
  <1>q. QED
    BY <1>3, <1>4, <1>5 DEF ChooseTask

\* No quiet step disturbs what any worker knows.
LEMMA StepQuiet ==
  ASSUME TypeOK, Working, Alone, Bindings, NEW w \in Workers, QuietStep(w)
  PROVE  WorkTyped' /\ Working' /\ Alone'
  <1>1. WorkTyped /\ drawn \in Nat /\ UNCHANGED Data /\ Knows(w)
    BY QuietData DEF TypeOK, WorkTyped, WorkerRecord, Working
  <1>2. CASE WorkTyped' /\ Others(w, {}) /\ Knows(w)' /\ OwnAttempt(w)
    BY <1>1, <1>2, Quiet
  <1>3. CASE SaveWorkflow(w)
    BY <1>1, <1>3 DEF SaveWorkflow, WorkTyped, Working, Knows, Alone, Launching, At, Data,
       Task, Att
  <1>q. QED
    BY <1>1, <1>2, <1>3, StepResting, Resting, StepMoved, StepStartPlanning, StepChooseTask
    DEF QuietStep

-----------------------------------------------------------------------------
(* Steps of a worker that write the state of its task                       *)

\* A worker that drives an author's attempt goes on with it.
LEMMA Driving ==
  ASSUME NEW w \in Workers, Knows(w), work[w].pc \in AuthorPC,
         NEW pc \in AuthorPC \ {"reserve", "execute", "reconcile"}, Continues(w, pc),
         work'[w].fresh => status'[Task(w)] \in InFlight /\ author'[Task(w)] = Att(w),
         UNCHANGED <<drawn, owner>>
  PROVE  Knows(w)' /\ OwnAttempt(w)
  BY DEF Continues, Knows, OwnAttempt, Launching, At, AuthorPC, ReviewPC, Task, Att

\* A worker that reviews its task next needs to know the task.
LEMMA ReviewNext ==
  ASSUME NEW w \in Workers, work'[w].pc = "review", work'[w].task \in Tasks
  PROVE  Knows(w)' /\ OwnAttempt(w)
  BY DEF Knows, OwnAttempt, Launching, At, AuthorPC, ReviewPC, Task

\* mark_ready
LEMMA StepMarkReady ==
  ASSUME TypeOK, Working, Alone, NEW w \in Workers, MarkReady(w)
  PROVE  WorkTyped' /\ Working' /\ Alone'
  <1>1. /\ WorkTyped /\ drawn \in Nat /\ status \in [Tasks -> TaskStatus] /\ Knows(w)
        /\ work[w] \in WorkerRecord /\ work[w].pc = "candidate" /\ "claim" \in PC
        /\ Task(w) \in Tasks /\ ~work[w].recovering
    BY DEF TypeOK, WorkTyped, WorkerRecord, Working, Knows, MarkReady, At, PC
  <1>2. UNCHANGED Fixed
    BY DEF MarkReady, Fixed, attemptVars, authorityVars
  <1>3. ASSUME Continues(w, "claim")
        PROVE  Knows(w)' /\ OwnAttempt(w)
    BY <1>1, <1>3 DEF Continues, Knows, OwnAttempt, Launching, At, AuthorPC, ReviewPC, Task
  <1>4. CASE UNCHANGED status /\ Goto(w, "claim")
    <2>1. WorkTyped' /\ Others(w, {}) /\ Continues(w, "claim")
      BY <1>1, <1>4, GotoEffect
    <2>q. QED
      BY <1>1, <1>2, <1>3, <1>4, <2>1, Quiet DEF Data, Fixed
  <1>5. CASE UNCHANGED status /\ Return(w)
    BY <1>1, <1>2, <1>5, ReturnEffect, Resting, Quiet DEF Data, Fixed, Idle
  <1>6. CASE Status(w, "READY") /\ Wrote(w, Task(w), "claim")
    <2>1. WorkTyped' /\ Others(w, {Task(w)}) /\ Continues(w, "claim")
      BY <1>1, <1>6, WroteEffect
    <2>q. QED
      BY <1>1, <1>2, <1>3, <1>6, <2>1, StatusWrite
  <1>q. QED
    BY <1>4, <1>5, <1>6 DEF MarkReady

\* transition_execution
LEMMA StepMove ==
  ASSUME TypeOK, Working, Alone, NEW w \in Workers, StartExecution(w) \/ RunExecution(w)
  PROVE  WorkTyped' /\ Working' /\ Alone'
  <1>1. PICK here \in {"start", "run"}, to \in {"EXECUTION_STARTED", "RUNNING"},
             next \in {"recheck", "cross"} :
          \E from \in SUBSET InFlight : Move(w, here, from, to, next)
    BY DEF StartExecution, RunExecution, InFlight
  <1>2. /\ WorkTyped /\ drawn \in Nat /\ status \in [Tasks -> TaskStatus] /\ Knows(w)
        /\ work[w] \in WorkerRecord /\ work[w].pc \in AuthorPC
        /\ {"recheck", "cross", "raised"} \subseteq PC
        /\ Task(w) \in Tasks /\ to \in InFlight
    BY <1>1 DEF TypeOK, WorkTyped, WorkerRecord, Working, Knows, Move, At, PC, AuthorPC,
       InFlight
  <1>3. UNCHANGED Fixed
    BY <1>1 DEF Move, Fixed, attemptVars, authorityVars
  <1>4. CASE work[w].fresh /\ Status(w, to) /\ Wrote(w, Task(w), next)
    <2>1. WorkTyped' /\ Others(w, {Task(w)}) /\ Continues(w, next)
      BY <1>2, <1>4, WroteEffect
    <2>2. status'[Task(w)] = to /\ author'[Task(w)] = Att(w)
      BY <1>2, <1>3, <1>4 DEF Status, Knows, Fixed
    <2>3. Knows(w)' /\ OwnAttempt(w)
      BY <1>2, <1>3, <2>1, <2>2, Driving DEF Fixed, AuthorPC
    <2>q. QED
      BY <1>2, <1>3, <1>4, <2>1, <2>3, StatusWrite
  <1>5. CASE UNCHANGED status /\ Return(w)
    BY <1>2, <1>3, <1>5, ReturnEffect, Resting, Quiet DEF Data, Fixed, Idle
  <1>6. CASE UNCHANGED status /\ Goto(w, "raised")
    <2>1. UNCHANGED Data
      BY <1>3, <1>6 DEF Data, Fixed
    <2>2. WorkTyped' /\ Others(w, {}) /\ Knows(w)' /\ OwnAttempt(w)
      BY <1>2, <1>6, <2>1, Moved DEF Data, AuthorPC
    <2>q. QED
      BY <1>2, <2>1, <2>2, Quiet
  <1>q. QED
    BY <1>1, <1>4, <1>5, <1>6 DEF Move

\* How a worker leaves the attempt of its task: it returns, leaves for _pause, or goes
\* on to the review, with the state of the task written or not.
Leaves(w) ==
    /\ WorkTyped'
    /\ \/ work'[w].pc \in {"idle", "pause"}
       \/ work'[w].pc = "review" /\ work'[w].task \in Tasks
    /\ \/ Others(w, {}) /\ UNCHANGED status
       \/ Others(w, {Task(w)}) /\ \E to \in TaskStatus : Status(w, to)

\* The steps that leave.
LeavingStep(w) ==
    AcceptAuthor(w) \/ MarkWaiting(w) \/ MarkUncertain(w) \/ AwaitReconciliation(w)
    \/ CompleteAutomated(w)

\* They leave in one of these ways.
LEMMA StepLeaves ==
  ASSUME WorkTyped, NEW w \in Workers, Knows(w), LeavingStep(w)
  PROVE  Leaves(w)
  <1> DEFINE k == Task(w)
             b == ~work[w].recovering
  <1>0. /\ b \in BOOLEAN /\ FALSE \in BOOLEAN /\ TRUE \in BOOLEAN
        /\ {"BLOCKED", "WAITING_FOR_USAGE_RESET"} \subseteq Targets
        /\ {"idle", "review"} \subseteq PC
        /\ {"REVIEW_REQUIRED", "FAILED", "CANCELED", "WAITING", "UNCERTAIN", "COMPLETED"}
              \subseteq TaskStatus
        /\ k \in Tasks
    BY DEF Targets, PC, TaskStatus, InFlight, Closed, LeavingStep, AcceptAuthor,
       MarkWaiting, MarkUncertain, AwaitReconciliation, CompleteAutomated, At, Knows
  <1> HIDE DEF b
  <1>1. CASE UNCHANGED status /\ Return(w)
    BY <1>1, ReturnEffect DEF Leaves, Idle
  <1>2. ASSUME UNCHANGED status, NEW target \in Targets, NEW reread \in BOOLEAN,
               work' = [work EXCEPT ![w] = Pausing(w, target, reread)]
        PROVE  Leaves(w)
    <2> DEFINE r == Pausing(w, target, reread)
    <2>1. r \in WorkerRecord /\ r.pc = "pause"
      BY <1>2, PausingTyped
    <2>2. work' = [work EXCEPT ![w] = r]
      BY <1>2
    <2> HIDE DEF r
    <2>3. WorkTyped' /\ Others(w, {}) /\ work'[w] = r
      BY <2>1, <2>2, SelfEffect
    <2>q. QED
      BY <1>2, <2>1, <2>3 DEF Leaves
  <1>3. CASE UNCHANGED status /\ work' = [work EXCEPT ![w].pc = "review", ![w].fresh = TRUE]
    <2> DEFINE r == [work[w] EXCEPT !.pc = "review", !.fresh = TRUE]
    <2>1. r \in WorkerRecord /\ r.pc = "review" /\ r.task = k
      <3>1. work[w] \in WorkerRecord
        BY DEF WorkTyped
      <3>2. r \in WorkerRecord
        BY <1>0, <3>1 DEF WorkerRecord
      <3>3. r.pc = "review" /\ r.task = work[w].task
        BY <3>1 DEF WorkerRecord
      <3>q. QED
        BY <3>2, <3>3 DEF Task
    <2>2. work' = [work EXCEPT ![w] = r]
      BY <1>3 DEF WorkTyped
    <2> HIDE DEF r
    <2>3. WorkTyped' /\ Others(w, {}) /\ work'[w] = r
      BY <2>1, <2>2, SelfEffect
    <2>q. QED
      BY <1>0, <1>3, <2>1, <2>3 DEF Leaves
  <1>4. ASSUME NEW pc \in {"idle", "review"}, Wrote(w, k, pc),
               UNCHANGED status \/ \E to \in TaskStatus : Status(w, to)
        PROVE  Leaves(w)
    <2>1. WorkTyped' /\ Others(w, {k}) /\ Continues(w, pc)
      BY <1>0, <1>4, WroteEffect
    <2>2. Others(w, {})
      BY <2>1 DEF Others, Keeps
    <2>q. QED
      BY <1>0, <1>4, <2>1, <2>2 DEF Leaves, Continues
  <1>5. ASSUME NEW target \in Targets, NEW reread \in BOOLEAN,
               WroteAndPauses(w, k, target, reread), NEW to \in TaskStatus, Status(w, to)
        PROVE  Leaves(w)
    <2>1. WorkTyped' /\ Others(w, {k}) /\ work'[w].pc = "pause"
      BY <1>5, WroteAndPausesEffect
    <2>q. QED
      BY <1>5, <2>1 DEF Leaves
  <1> HIDE DEF k
  <1>6. CASE AcceptAuthor(w)
    BY <1>0, <1>1, <1>2, <1>3, <1>4, <1>5, <1>6 DEF AcceptAuthor, k, b
  <1>7. CASE MarkWaiting(w)
    BY <1>0, <1>2, <1>5, <1>7 DEF MarkWaiting, k, b
  <1>8. CASE MarkUncertain(w)
    BY <1>0, <1>1, <1>5, <1>8 DEF MarkUncertain, k, b
  <1>9. CASE AwaitReconciliation(w)
    BY <1>0, <1>2, <1>5, <1>9 DEF AwaitReconciliation, k, b
  <1>10. CASE CompleteAutomated(w)
    BY <1>0, <1>1, <1>4, <1>10 DEF CompleteAutomated, k, b
  <1>q. QED
    BY <1>6, <1>7, <1>8, <1>9, <1>10 DEF LeavingStep

\* What the others know stays true then.
LEMMA StepLeaving ==
  ASSUME TypeOK, Working, Alone, NEW w \in Workers, LeavingStep(w)
  PROVE  WorkTyped' /\ Working' /\ Alone'
  <1>1. /\ WorkTyped /\ drawn \in Nat /\ status \in [Tasks -> TaskStatus] /\ Knows(w)
    BY DEF TypeOK, WorkTyped, WorkerRecord, Working
  <1>2. UNCHANGED Fixed
    BY DEF LeavingStep, AcceptAuthor, MarkWaiting, MarkUncertain, AwaitReconciliation,
       CompleteAutomated, Fixed, attemptVars, authorityVars
  <1>3. Leaves(w)
    BY <1>1, StepLeaves
  <1>4. Knows(w)' /\ OwnAttempt(w)
    BY <1>3, Resting, ReviewNext DEF Leaves
  <1>5. CASE Others(w, {}) /\ UNCHANGED status
    BY <1>1, <1>2, <1>3, <1>4, <1>5, Quiet DEF Data, Fixed, Leaves
  <1>6. CASE Others(w, {Task(w)}) /\ \E to \in TaskStatus : Status(w, to)
    BY <1>1, <1>2, <1>3, <1>4, <1>6, StatusWrite DEF Leaves
  <1>q. QED
    BY <1>3, <1>5, <1>6 DEF Leaves

-----------------------------------------------------------------------------
(* Steps of a worker that write attempts, reservations or KeeperAuthority    *)

\* The attempts in use are attempts.
LEMMA DrawnAttempts ==
  ASSUME TypeOK
  PROVE  drawn \in Nat /\ MaxAttempts \in Nat /\ 1 .. drawn \subseteq Attempts
  <1>1. MaxAttempts \in Nat /\ drawn \in 0 .. MaxAttempts
    BY ExecutiveConstants DEF TypeOK
  <1>q. QED
    BY <1>1 DEF Attempts

\* save_task of a planner: the task was not there.
LEMMA StepSaveTask ==
  ASSUME TypeOK, Working, Alone, NEW w \in Workers, SaveTask(w)
  PROVE  WorkTyped' /\ Working' /\ Alone'
  <1>1. WorkTyped /\ drawn \in Nat /\ UNCHANGED <<work, Fixed>>
    BY DEF TypeOK, WorkTyped, WorkerRecord, SaveTask, Fixed, attemptVars, authorityVars
  <1>2. \A k \in Tasks : status[k] # "ABSENT" => status'[k] = status[k]
    BY DEF SaveTask, TypeOK
  <1>3. Growing /\ Flying({})
    BY <1>1, <1>2 DEF Fixed, Growing, Flying, InFlight
  <1>4. \A v \in Workers : Unasked(v) /\ Keeps(v, {})
    BY <1>1 DEF Working, Knows, Fixed, Unasked, Keeps
  <1>5. \A v \in Workers : Knows(v)'
    BY <1>1, <1>3, <1>4, KnowsKept DEF Working
  <1>q. QED
    BY <1>1, <1>4, <1>5, AloneStays DEF WorkTyped, Working

\* claim_execution: the attempt is nobody's yet.
LEMMA StepClaimExecution ==
  ASSUME TypeOK, Working, Alone, Undrawn, Bindings, NEW w \in Workers, ClaimExecution(w)
  PROVE  WorkTyped' /\ Working' /\ Alone'
  <1>1. /\ WorkTyped /\ drawn \in Nat /\ drawn + 1 \in Attempts /\ drawn + 1 > drawn
        /\ status \in [Tasks -> TaskStatus] /\ Knows(w) /\ Task(w) \in Tasks
        /\ author \in [Tasks -> 0 .. MaxAttempts]
        /\ owner \in [Attempts -> Tasks \cup {NoTask}]
        /\ hold \in [Attempts -> {"NONE", "RESERVED", "CROSSED", "RELEASED"}]
        /\ ~work[w].recovering /\ author[Task(w)] = 0
        /\ 1 .. drawn \subseteq Attempts
    <2>1. /\ work[w].pc = "claim" /\ author[Task(w)] = 0 /\ drawn < MaxAttempts
      BY DEF ClaimExecution, Claimable, At
    <2>2. drawn \in Nat /\ MaxAttempts \in Nat /\ WorkTyped /\ Knows(w)
      BY ExecutiveConstants DEF TypeOK, WorkTyped, WorkerRecord, Working
    <2>3. drawn + 1 \in Attempts /\ drawn + 1 > drawn /\ 1 .. drawn \subseteq Attempts
      BY <2>1, <2>2 DEF Attempts
    <2>4. Task(w) \in Tasks /\ ~work[w].recovering
      BY <2>1, <2>2 DEF Knows
    <2>q. QED
      BY <2>1, <2>2, <2>3, <2>4 DEF TypeOK
  <1>2. /\ drawn' = drawn + 1
        /\ owner' = [owner EXCEPT ![drawn + 1] = Task(w)]
        /\ author' = [author EXCEPT ![Task(w)] = drawn + 1]
        /\ status' = [status EXCEPT ![Task(w)] = "LAUNCH_CLAIMED"]
        /\ hold' = hold \/ hold' = [hold EXCEPT ![drawn + 1] = "RESERVED"]
        /\ UNCHANGED <<reviewer, authority>>
    BY DEF ClaimExecution, Status, authorityVars
  <1>3. WorkTyped' /\ Others(w, {Task(w)}) /\ work'[w].pc = "reserve"
        /\ work'[w].task = Task(w) /\ work'[w].att = drawn + 1
        /\ ~work'[w].recovering
    <2> DEFINE r == [work[w] EXCEPT !.pc = "reserve", !.att = drawn + 1]
    <2>1. /\ r \in WorkerRecord /\ r.pc = "reserve" /\ r.task = Task(w)
          /\ r.att = drawn + 1 /\ ~r.recovering
      <3>1. work[w] \in WorkerRecord /\ "reserve" \in PC /\ drawn + 1 \in 0 .. MaxAttempts
        BY <1>1 DEF WorkTyped, PC, Attempts
      <3>q. QED
        BY <1>1, <3>1 DEF WorkerRecord, Task
    <2>2. work' = [v \in Workers |->
                     IF v = w THEN r
                     ELSE [work[v] EXCEPT !.fresh = @ /\ work[v].task # Task(w)]]
      BY DEF ClaimExecution
    <2> HIDE DEF r
    <2>3. WorkTyped' /\ Others(w, {Task(w)}) /\ work'[w] = r
      BY <1>1, <2>1, <2>2, TaskWriteEffect
    <2>q. QED
      BY <2>1, <2>3
  <1>4. Growing /\ Flying({Task(w)})
    <2>1. \A a \in 1 .. drawn :
            /\ owner'[a] = owner[a] /\ hold'[a] = hold[a]
      BY <1>1, <1>2
    <2>2. \A k \in Tasks \ {Task(w)} :
            status'[k] = status[k] /\ author'[k] = author[k]
      BY <1>1, <1>2
    <2>q. QED
      BY <1>2, <2>1, <2>2 DEF Growing, Flying
  <1>5. \A v \in Workers : Unasked(v)
    <2>1. ASSUME NEW v \in Workers, work[v].pc \in {"reserve", "reviewReserve"}
          PROVE  authority[Att(v)] = "NONE" /\ Att(v) # 0
      BY <2>1, <1>1 DEF Working, Knows, AuthorPC, ReviewPC
    <2>2. ASSUME NEW v \in Workers, work[v].pc = "reserve"
          PROVE  Task(v) \in Tasks /\ author[Task(v)] # 0
      BY <2>1, <2>2 DEF Working, Knows
    <2>q. QED
      BY <1>1, <1>2, <2>1, <2>2 DEF Unasked
  <1>6. Knows(w)'
    <2>1. /\ authority'[drawn + 1] = "NONE" /\ owner'[drawn + 1] = Task(w)
          /\ author'[Task(w)] = drawn + 1 /\ status'[Task(w)] \in InFlight
      BY <1>1, <1>2 DEF Undrawn, InFlight
    <2>q. QED
      BY <1>1, <1>2, <1>3, <2>1 DEF Knows, Task, Att, AuthorPC, ReviewPC
  <1>7. OwnAttempt(w)
    BY <1>3 DEF OwnAttempt, At, Att
  <1>q. QED
    BY <1>1, <1>3, <1>4, <1>5, <1>6, <1>7, Undisturbed

\* claim_review
LEMMA StepClaimReview ==
  ASSUME TypeOK, Working, Alone, Undrawn, Bindings, NEW w \in Workers, ClaimReview(w)
  PROVE  WorkTyped' /\ Working' /\ Alone'
  <1>1. CASE Return(w) /\ UNCHANGED Data
    BY <1>1, ReturnEffect, Resting, Quiet DEF Idle, TypeOK, WorkTyped, WorkerRecord
  <1>2. CASE ~(Return(w) /\ UNCHANGED Data)
    <2>1. /\ WorkTyped /\ drawn \in Nat /\ drawn + 1 \in Attempts /\ drawn + 1 > drawn
          /\ Knows(w) /\ Task(w) \in Tasks /\ reviewer[Task(w)] = 0
          /\ reviewer \in [Tasks -> 0 .. MaxAttempts]
          /\ owner \in [Attempts -> Tasks \cup {NoTask}]
          /\ 1 .. drawn \subseteq Attempts
      <3>1. /\ work[w].pc = "review" /\ reviewer[Task(w)] = 0 /\ drawn < MaxAttempts
        BY <1>2 DEF ClaimReview, At, Data, authorityVars
      <3>2. drawn \in Nat /\ MaxAttempts \in Nat /\ WorkTyped /\ Knows(w)
        BY ExecutiveConstants DEF TypeOK, WorkTyped, WorkerRecord, Working
      <3>3. /\ drawn + 1 \in Attempts /\ drawn + 1 > drawn
            /\ 1 .. drawn \subseteq Attempts
        BY <3>1, <3>2 DEF Attempts
      <3>4. Task(w) \in Tasks
        BY <3>1, <3>2 DEF Knows
      <3>q. QED
        BY <3>1, <3>2, <3>3, <3>4 DEF TypeOK
    <2>2. /\ drawn' = drawn + 1
          /\ owner' = [owner EXCEPT ![drawn + 1] = Task(w)]
          /\ reviewer' = [reviewer EXCEPT ![Task(w)] = drawn + 1]
          /\ UNCHANGED <<status, author, hold, authority>>
      BY <1>2 DEF ClaimReview, Data, authorityVars
    <2>3. WorkTyped' /\ Others(w, {Task(w)}) /\ work'[w].pc = "reviewReserve"
          /\ work'[w].task = Task(w) /\ work'[w].att = drawn + 1
      <3> DEFINE r == [work[w] EXCEPT !.pc = "reviewReserve", !.att = drawn + 1,
                                      !.recovering = FALSE]
      <3>1. /\ r \in WorkerRecord /\ r.pc = "reviewReserve" /\ r.task = Task(w)
            /\ r.att = drawn + 1
        <4>1. /\ work[w] \in WorkerRecord /\ "reviewReserve" \in PC
              /\ drawn + 1 \in 0 .. MaxAttempts
          BY <2>1 DEF WorkTyped, PC, Attempts
        <4>2. r \in WorkerRecord
          BY <4>1 DEF WorkerRecord
        <4>3. r.pc = "reviewReserve" /\ r.task = work[w].task /\ r.att = drawn + 1
          BY <4>1 DEF WorkerRecord
        <4>q. QED
          BY <4>2, <4>3 DEF Task
      <3> DEFINE k == Task(w)
      <3>2. work' = [v \in Workers |->
                       IF v = w THEN r
                       ELSE [work[v] EXCEPT !.fresh = @ /\ work[v].task # k]]
        BY <1>2 DEF ClaimReview, Data, authorityVars
      <3>3. WorkTyped
        BY <2>1
      <3> HIDE DEF r, k
      <3>4. WorkTyped' /\ Others(w, {k}) /\ work'[w] = r
        BY <3>1, <3>2, <3>3, TaskWriteEffect
      <3>q. QED
        BY <3>1, <3>4 DEF k
    <2>4. Growing /\ Flying({Task(w)})
      BY <2>1, <2>2 DEF Growing, Flying
    <2>5. \A v \in Workers : Unasked(v)
      <3>1. ASSUME NEW v \in Workers, work[v].pc = "reviewReserve"
            PROVE  /\ Task(v) \in Tasks /\ reviewer[Task(v)] # 0
                   /\ authority[Att(v)] = "NONE"
        BY <3>1, <2>1 DEF Working, Knows, ReviewPC
      <3>2. ASSUME NEW v \in Workers, work[v].pc = "reserve"
            PROVE  authority[Att(v)] = "NONE"
        BY <3>2 DEF Working, Knows
      <3>q. QED
        BY <2>1, <2>2, <3>1, <3>2 DEF Unasked
    <2>6. Knows(w)'
      <3>1. /\ authority'[drawn + 1] = "NONE" /\ owner'[drawn + 1] = Task(w)
            /\ reviewer'[Task(w)] = drawn + 1 /\ hold'[drawn + 1] = "NONE"
        BY <2>1, <2>2 DEF Undrawn
      <3>q. QED
        BY <2>1, <2>2, <2>3, <3>1 DEF Knows, Task, Att, AuthorPC, ReviewPC
    <2>7. OwnAttempt(w)
      BY <2>3 DEF OwnAttempt, Launching, At, Att, AuthorPC
    <2>q. QED
      BY <2>1, <2>3, <2>4, <2>5, <2>6, <2>7, Undisturbed
  <1>q. QED
    BY <1>1, <1>2

\* gateway.reserve: no other worker is about to reserve the same attempt.
LEMMA StepReserve ==
  ASSUME TypeOK, Working, Alone, Bindings, NEW w \in Workers,
         ReserveAuthor(w) \/ ReserveReviewer(w)
  PROVE  WorkTyped' /\ Working' /\ Alone'
  <1>1. WorkTyped /\ drawn \in Nat /\ Knows(w)
    BY DEF TypeOK, WorkTyped, WorkerRecord, Working
  <1>2. UNCHANGED <<status, author, reviewer, drawn, owner, hold>>
    BY DEF ReserveAuthor, ReserveReviewer, Reserve, taskVars, attemptVars
  <1>3. /\ \A a \in Attempts : a # Att(w) => authority'[a] = authority[a]
        /\ \/ work[w].pc = "reserve" /\ \E pc \in {"start", "raised"} : Goto(w, pc)
           \/ /\ work[w].pc = "reviewReserve"
              /\ \E pc \in {"reviewStart", "reviewRaised"} : Goto(w, pc)
    BY DEF ReserveAuthor, ReserveReviewer, Reserve, At, TypeOK
  <1>4. WorkTyped' /\ Others(w, {}) /\ Knows(w)' /\ OwnAttempt(w)
    BY <1>1, <1>2, <1>3, Moved DEF AuthorPC, ReviewPC, PC
  <1>5. Growing /\ Flying({})
    BY <1>2 DEF Growing, Flying
  <1>6. ASSUME NEW v \in Workers \ {w}
        PROVE  Unasked(v)
    <2>1. Knows(v) /\ 1 .. drawn \subseteq Attempts
      BY DrawnAttempts DEF Working
    <2>2. ASSUME work[v].pc \in {"reserve", "reviewReserve"}
          PROVE  Att(v) \in Attempts /\ authority[Att(v)] = "NONE" /\ Att(v) # Att(w)
      <3>1. CASE work[v].pc = work[w].pc
        BY <1>1, <1>3, <2>1, <2>2, <3>1 DEF Alone, Knows, Launching, At, AuthorPC, ReviewPC
      <3>2. CASE work[v].pc # work[w].pc
        <4>1. \A k \in Tasks : author[k] = reviewer[k] => author[k] = 0
          BY DEF Bindings, Agrees, TypeOK
        <4>2. /\ owner[Att(v)] = Task(v) /\ owner[Att(w)] = Task(w)
              /\ Task(v) \in Tasks /\ Task(w) \in Tasks
              /\ Att(v) \in 1 .. drawn /\ authority[Att(v)] = "NONE"
          BY <1>1, <1>3, <2>1, <2>2 DEF Knows, AuthorPC, ReviewPC
        <4>3. Att(v) = Att(w) => author[Task(w)] = reviewer[Task(w)] /\ author[Task(w)] # 0
          BY <1>1, <1>3, <2>1, <2>2, <3>2, <4>2 DEF Knows
        <4>q. QED
          BY <2>1, <4>1, <4>2, <4>3
      <3>q. QED
        BY <3>1, <3>2
    <2>q. QED
      BY <1>2, <1>3, <2>2 DEF Unasked
  <1>q. QED
    BY <1>1, <1>4, <1>5, <1>6, Undisturbed

\* _cross_budget_boundary
LEMMA StepCrossBudget ==
  ASSUME TypeOK, Working, Alone, NEW w \in Workers, CrossBudget(w)
  PROVE  WorkTyped' /\ Working' /\ Alone'
  <1>1. /\ WorkTyped /\ drawn \in Nat /\ Knows(w) /\ work[w].pc = "cross"
        /\ Att(w) \in 1 .. drawn /\ Att(w) \in Attempts
        /\ hold \in [Attempts -> {"NONE", "RESERVED", "CROSSED", "RELEASED"}]
    <2>1. work[w].pc = "cross" /\ Knows(w)
      BY DEF CrossBudget, At, Working
    <2>2. Att(w) \in 1 .. drawn
      BY <2>1 DEF Knows, AuthorPC
    <2>3. 1 .. drawn \subseteq Attempts /\ drawn \in Nat
      BY DrawnAttempts
    <2>q. QED
      BY <2>1, <2>2, <2>3 DEF TypeOK, WorkTyped, WorkerRecord
  <1>2. UNCHANGED <<status, author, reviewer, drawn, owner, authority>>
    BY DEF CrossBudget, taskVars, authorityVars
  <1>3. /\ \A a \in Attempts : hold[a] \in {"NONE", "CROSSED"} => hold'[a] = hold[a]
        /\ \/ hold'[Att(w)] \in {"NONE", "CROSSED"} /\ Goto(w, "execute")
           \/ Goto(w, "raised") /\ UNCHANGED hold
           \/ Return(w)
    BY <1>1 DEF CrossBudget
  <1>4. Growing /\ Flying({})
    BY <1>2, <1>3, DrawnAttempts DEF Growing, Flying
  <1>5. \A v \in Workers : Unasked(v)
    BY <1>2 DEF Working, Knows, Unasked
  <1>6. WorkTyped' /\ Others(w, {}) /\ Knows(w)' /\ OwnAttempt(w)
    <2>1. CASE Return(w)
      BY <1>1, <2>1, ReturnEffect, Resting DEF Idle
    <2>2. CASE Goto(w, "raised") /\ UNCHANGED hold
      BY <1>1, <1>2, <2>2, Moved DEF AuthorPC, PC
    <2>3. CASE hold'[Att(w)] \in {"NONE", "CROSSED"} /\ Goto(w, "execute")
      <3>1. /\ WorkTyped' /\ Others(w, {}) /\ Continues(w, "execute")
            /\ work'[w].fresh = work[w].fresh
        BY <1>1, <2>3, GotoEffect DEF PC
      <3>q. QED
        BY <1>1, <1>2, <2>3, <3>1
        DEF Continues, Knows, OwnAttempt, Launching, At, AuthorPC, ReviewPC, Task, Att
    <2>q. QED
      BY <1>3, <2>1, <2>2, <2>3
  <1>q. QED
    BY <1>1, <1>4, <1>5, <1>6, Undisturbed

\* gateway.execute
LEMMA StepExecute ==
  ASSUME TypeOK, Working, Alone, NEW w \in Workers, ExecuteAuthor(w) \/ ExecuteReviewer(w)
  PROVE  WorkTyped' /\ Working' /\ Alone'
  <1>1. WorkTyped /\ drawn \in Nat /\ Knows(w)
    BY DEF TypeOK, WorkTyped, WorkerRecord, Working
  <1>2. UNCHANGED <<status, author, reviewer, drawn, owner, hold>>
    BY DEF ExecuteAuthor, ExecuteReviewer, Execute, taskVars, attemptVars
  <1>3. /\ \A a \in Attempts : authority[a] = "NONE" => authority'[a] = "NONE"
        /\ \/ work[w].pc = "execute" /\ \E pc \in {"await", "raised"} : Goto(w, pc)
           \/ /\ work[w].pc = "reviewExecute"
              /\ \E pc \in {"reviewAwait", "reviewRaised"} : Goto(w, pc)
    BY DEF ExecuteAuthor, ExecuteReviewer, Execute, At, TypeOK
  <1>4. WorkTyped' /\ Others(w, {}) /\ Knows(w)' /\ OwnAttempt(w)
    BY <1>1, <1>2, <1>3, Moved DEF AuthorPC, ReviewPC, PC
  <1>5. Growing /\ Flying({})
    BY <1>2 DEF Growing, Flying
  <1>6. ASSUME NEW v \in Workers
        PROVE  Unasked(v)
    <2>1. Knows(v) /\ 1 .. drawn \subseteq Attempts
      BY DrawnAttempts DEF Working
    <2>2. ASSUME work[v].pc \in {"reserve", "reviewReserve"}
          PROVE  Att(v) \in 1 .. drawn /\ authority[Att(v)] = "NONE"
      BY <2>1, <2>2 DEF Knows, AuthorPC, ReviewPC
    <2>q. QED
      BY <1>2, <1>3, <2>1, <2>2 DEF Unasked
  <1>q. QED
    BY <1>1, <1>4, <1>5, <1>6, Undisturbed

\* release_prelaunch_execution_claim: the worker that claimed the attempt is the one
\* that could still have reserved it.
LEMMA StepReleaseClaim ==
  ASSUME TypeOK, Working, Alone, NEW w \in Workers, ReleaseClaim(w)
  PROVE  WorkTyped' /\ Working' /\ Alone'
  <1>1. /\ WorkTyped /\ drawn \in Nat /\ Knows(w)
        /\ work[w].pc = "raised" /\ ~work[w].recovering /\ work[w].fresh
        /\ author[Task(w)] = Att(w) /\ Task(w) \in Tasks
    BY DEF TypeOK, WorkTyped, WorkerRecord, Working, Knows, ReleaseClaim, Releasable, At,
       AuthorPC
  <1>2. /\ author' = [author EXCEPT ![Task(w)] = 0]
        /\ status' = [status EXCEPT ![Task(w)] = "READY"]
        /\ \A a \in Attempts : hold[a] # "RESERVED" => hold'[a] = hold[a]
        /\ UNCHANGED <<reviewer, drawn, owner, authority>>
    BY DEF ReleaseClaim, Status, authorityVars, TypeOK
  <1>3. WorkTyped' /\ Others(w, {Task(w)}) /\ work'[w].pc = "pause"
    <2>1. WroteAndPauses(w, Task(w), "WAITING_FOR_PROVIDER", TRUE)
      BY DEF ReleaseClaim
    <2>q. QED
      BY <1>1, <2>1, WroteAndPausesEffect DEF Targets
  <1>4. Growing /\ Flying({Task(w)})
    <2>1. \A k \in Tasks \ {Task(w)} : status'[k] = status[k] /\ author'[k] = author[k]
      BY <1>2 DEF TypeOK
    <2>2. 1 .. drawn \subseteq Attempts
      BY DrawnAttempts
    <2>q. QED
      BY <1>2, <2>1, <2>2 DEF Growing, Flying
  <1>5. ASSUME NEW v \in Workers \ {w}
        PROVE  Unasked(v)
    <2>1. Knows(v) /\ author \in [Tasks -> 0 .. MaxAttempts]
      BY DEF Working, TypeOK
    <2>2. ASSUME work[v].pc = "reserve"
          PROVE  Task(v) # Task(w)
      BY <1>1, <2>1, <2>2 DEF Knows, Alone, Launching, AuthorPC
    <2>q. QED
      BY <1>2, <2>1, <2>2 DEF Unasked, Knows
  <1>6. Knows(w)' /\ OwnAttempt(w)
    BY <1>3, Resting
  <1>q. QED
    BY <1>1, <1>3, <1>4, <1>5, <1>6, Undisturbed

-----------------------------------------------------------------------------
(* The end of a review                                                      *)

\* The task of w is under the review w has an end of.
Judged(w) == status[Task(w)] = "REVIEW_REQUIRED" /\ reviewer[Task(w)] = Att(w)

\* It is completed, or fails with its attempts.
Decided(w) ==
    /\ Judged(w)
    /\ \E to \in {"COMPLETED", "FAILED"} :
          Status(w, to) /\ (to = "COMPLETED" => authority[Att(w)] = "COMPLETED")
    /\ \E to \in ReviewState : SetReview(w, to)
    /\ UNCHANGED <<author, reviewer, retries>>

\* It is sent back without them.
SentBack(w) ==
    /\ Judged(w)
    /\ \E to \in {"FAILED", "REPAIR_REQUIRED"} :
          SendBack(w, to, 1) /\ (to = "REPAIR_REQUIRED" => retries[Task(w)] < MaxRetries)
    /\ SetReview(w, "NONE")

\* accept_review_completion does one of these, or leaves the task as it is.
LEMMA ReviewWrites ==
  ASSUME TypeOK, Working, NEW w \in Workers, AcceptReview(w)
  PROVE  UNCHANGED taskVars \/ Decided(w) \/ SentBack(w)
  <1>1. /\ work[w].pc \in {"reviewAwait", "reviewReconcile"} /\ Knows(w)
    BY DEF AcceptReview, At, Working
  <1>2. MaxRetries \in Nat /\ retries[Task(w)] \in Nat
    BY <1>1, ExecutiveConstants DEF Knows, TypeOK
  <1>3. ~LastRetry(w) => retries[Task(w)] < MaxRetries
    BY <1>2 DEF LastRetry
  <1>4. {"NONE", "COMPLETED"} \subseteq ReviewState
    BY DEF ReviewState
  <1>q. QED
    BY <1>3, <1>4 DEF AcceptReview, Accepts, Decided, SentBack, Judged, Reopen

\* The worker is done with the task then.
LEMMA ReviewRests ==
  ASSUME WorkTyped, NEW w \in Workers, AcceptReview(w)
  PROVE  /\ WorkTyped' /\ work'[w].pc \in {"idle", "pause"}
         /\ Others(w, {Task(w)}) \/ (Others(w, {}) /\ UNCHANGED taskVars)
  <1>0. "BLOCKED" \in Targets /\ FALSE \in BOOLEAN /\ "idle" \in PC
    BY DEF Targets, PC
  <1>1. CASE WroteAndPauses(w, Task(w), "BLOCKED", FALSE)
    BY <1>0, <1>1, WroteAndPausesEffect
  <1>2. CASE Wrote(w, Task(w), "idle")
    <2>1. WorkTyped' /\ Others(w, {Task(w)}) /\ Continues(w, "idle")
      BY <1>0, <1>2, WroteEffect
    <2>q. QED
      BY <2>1 DEF Continues
  <1>3. CASE Return(w) /\ UNCHANGED taskVars
    BY <1>3, ReturnEffect DEF Idle
  <1>q. QED
    BY <1>1, <1>2, <1>3 DEF AcceptReview

\* Nobody is about to reserve an attempt of a task whose review has ended.
LEMMA StepAcceptReview ==
  ASSUME TypeOK, Working, Alone, Bindings, NEW w \in Workers, AcceptReview(w)
  PROVE  WorkTyped' /\ Working' /\ Alone'
  <1>1. /\ WorkTyped /\ drawn \in Nat /\ Knows(w) /\ Task(w) \in Tasks
        /\ Att(w) \in 1 .. drawn /\ authority[Att(w)] # "NONE"
    <2>1. /\ work[w].pc \in {"reviewAwait", "reviewReconcile"} /\ Knows(w)
          /\ authority[Att(w)] # "NONE"
      BY DEF AcceptReview, At, Working, AnsweredOnly
    <2>q. QED
      BY <2>1 DEF Knows, ReviewPC, TypeOK, WorkTyped, WorkerRecord
  <1>2. UNCHANGED <<drawn, owner, hold, authority>>
    BY DEF AcceptReview, attemptVars, authorityVars
  <1>3. /\ WorkTyped' /\ Knows(w)' /\ OwnAttempt(w)
        /\ Others(w, {Task(w)}) \/ (Others(w, {}) /\ UNCHANGED taskVars)
    BY <1>1, ReviewRests, Resting
  <1>4. CASE Others(w, {}) /\ UNCHANGED taskVars
    BY <1>1, <1>2, <1>3, <1>4, Quiet DEF Data, taskVars
  <1>6. CASE Others(w, {Task(w)}) /\ (Decided(w) \/ SentBack(w))
    <2>1. /\ reviewer[Task(w)] = Att(w)
          /\ \A k \in Tasks \ {Task(w)} :
                /\ status'[k] = status[k] /\ author'[k] = author[k]
                /\ reviewer'[k] = reviewer[k]
      BY <1>6 DEF Decided, SentBack, Judged, SendBack, Status, TypeOK
    <2>2. Growing /\ Flying({Task(w)})
      BY <1>2, <2>1 DEF Growing, Flying
    <2>3. ASSUME NEW v \in Workers
          PROVE  Unasked(v)
      <3>1. Knows(v)
        BY DEF Working
      <3>2. authority[author[Task(w)]] = "COMPLETED"
        BY <1>1, <2>1 DEF Bindings, Agrees
      <3>3. work[v].pc \in {"reserve", "reviewReserve"} =>
               Task(v) # Task(w) /\ Task(v) \in Tasks
        BY <1>1, <2>1, <3>1, <3>2 DEF Knows
      <3>q. QED
        BY <1>2, <2>1, <3>1, <3>3 DEF Unasked, Knows
    <2>q. QED
      BY <1>1, <1>3, <1>6, <2>2, <2>3, Undisturbed
  <1>7. CASE UNCHANGED taskVars /\ Others(w, {Task(w)})
    <2>1. Others(w, {})
      BY <1>7 DEF Others, Keeps
    <2>q. QED
      BY <1>4, <1>7, <2>1
  <1>q. QED
    BY <1>3, <1>4, <1>6, <1>7, ReviewWrites

-----------------------------------------------------------------------------
(* What the founder, KeeperAuthority and failures leave of the workers       *)

\* The steps that are no worker's.
OtherStep ==
    \/ PauseProject \/ ResumeProject \/ CancelProject \/ RevokeProject
    \/ GatewayRevoke \/ FounderReturns \/ FounderCrash
    \/ \E a \in Attempts : GatewayCancel(a) \/ ProviderEnds(a)

\* They leave every worker where it is, and mark the tasks in flight that they write.
LEMMA StepOther ==
  ASSUME TypeOK, Working, Alone, OtherStep
  PROVE  WorkTyped' /\ Working' /\ Alone'
  <1>1. /\ WorkTyped /\ drawn \in Nat /\ 1 .. drawn \subseteq Attempts
    BY DrawnAttempts DEF TypeOK, WorkTyped, WorkerRecord
  <1>2. UNCHANGED <<author, reviewer, drawn, owner, hold>>
    BY DEF OtherStep, PauseProject, ResumeProject, CancelProject, RevokeProject,
       GatewayRevoke, FounderReturns, FounderCrash, GatewayCancel, ProviderEnds, taskVars,
       attemptVars
  <1>3. \A a \in Attempts : authority[a] = "NONE" => authority'[a] = "NONE"
    BY DEF OtherStep, PauseProject, ResumeProject, CancelProject, RevokeProject,
       GatewayRevoke, FounderReturns, FounderCrash, GatewayCancel, ProviderEnds,
       authorityVars, Open, TypeOK
  <1>4. \E K : /\ WorkTyped' /\ \A v \in Workers : Keeps(v, K)
               /\ \A k \in Tasks \ K : status'[k] = status[k]
    <2>1. CASE UNCHANGED <<work, status>>
      <3>1. WorkTyped' /\ \A v \in Workers : Keeps(v, {})
        BY <1>1, <2>1 DEF WorkTyped, Keeps
      <3>q. QED
        BY <2>1, <3>1
    <2>2. ASSUME NEW K, Changed(K), \A k \in Tasks \ K : status'[k] = status[k]
          PROVE  \E L : /\ WorkTyped' /\ \A v \in Workers : Keeps(v, L)
                        /\ \A k \in Tasks \ L : status'[k] = status[k]
      BY <1>1, <2>2, ChangedEffect
    <2>3. CASE PauseProject \/ ResumeProject
      BY <2>2, <2>3 DEF PauseProject, ResumeProject, taskVars
    <2>4. CASE CancelProject
      BY <2>2, <2>4 DEF CancelProject
    <2>5. CASE RevokeProject
      BY <2>2, <2>5 DEF RevokeProject
    <2>6. CASE FounderReturns
      BY <2>1, <2>2, <2>6 DEF FounderReturns, taskVars
    <2>q. QED
      BY <2>1, <2>3, <2>4, <2>5, <2>6
      DEF OtherStep, GatewayRevoke, FounderCrash, GatewayCancel, ProviderEnds, taskVars
  <1>5. PICK K : /\ WorkTyped' /\ \A v \in Workers : Keeps(v, K)
                 /\ \A k \in Tasks \ K : status'[k] = status[k]
    BY <1>4
  <1>6. Growing /\ Flying(K)
    BY <1>2, <1>5 DEF Growing, Flying
  <1>7. ASSUME NEW v \in Workers
        PROVE  Knows(v)'
    <2>1. Knows(v)
      BY DEF Working
    <2>2. work[v].pc \in {"reserve", "reviewReserve"} =>
             Att(v) \in Attempts /\ authority[Att(v)] = "NONE"
      BY <1>1, <2>1 DEF Knows, AuthorPC, ReviewPC
    <2>3. Unasked(v)
      BY <1>2, <1>3, <2>2 DEF Unasked
    <2>q. QED
      BY <1>1, <1>5, <1>6, <2>1, <2>3, KnowsKept
  <1>q. QED
    BY <1>5, <1>7, AloneStays DEF Working

\* What the workers know, and that they are alone with their attempts, is inductive.
LEMMA StepWorking ==
  ASSUME Inv, [Next]_vars
  PROVE  WorkTyped' /\ Working' /\ Alone'
  <1>1. TypeOK /\ Working /\ Alone /\ Undrawn /\ Bindings
    BY DEF Inv
  <1>2. ASSUME NEW w \in Workers, WorkerStep(w)
        PROVE  WorkTyped' /\ Working' /\ Alone'
    BY <1>1, <1>2, StepQuiet, StepMarkReady, StepMove, StepLeaving, StepSaveTask,
       StepClaimExecution, StepClaimReview, StepReserve, StepCrossBudget, StepExecute,
       StepReleaseClaim, StepAcceptReview
    DEF WorkerStep, QuietStep, LeavingStep
  <1>3. CASE UNCHANGED vars
    BY <1>1, <1>3 DEF vars, taskVars, attemptVars, authorityVars, TypeOK, WorkTyped,
       WorkerRecord, Working, Alone, Knows, Launching, At, Task, Att
  <1>q. QED
    BY <1>1, <1>2, <1>3, StepOther DEF Next, OtherStep

-----------------------------------------------------------------------------
(* What a step may do to a task                                             *)

\* The state of task k may become "to" while it keeps its attempts.
Lawful(k, to) ==
    \/ to = "PROPOSED" /\ status[k] = "ABSENT"
    \/ to = "READY" /\ status[k] \in {"PROPOSED", "WAITING"}
    \/ to \in InFlight \cup {"FAILED", "WAITING"} /\ status[k] \in InFlight
    \/ /\ to = "REVIEW_REQUIRED" /\ status[k] \in InFlight
       /\ project # "CANCELED" /\ authority[author[k]] = "COMPLETED"
    \/ to = "FAILED" /\ status[k] = "REVIEW_REQUIRED"
    \/ /\ to = "COMPLETED" /\ status[k] = "REVIEW_REQUIRED"
       /\ k[2] \in independent => reviewer[k] # 0 /\ authority[reviewer[k]] = "COMPLETED"
    \/ to = "CANCELED" /\ status[k] \notin Closed

SameBindings(k) ==
    author'[k] = author[k] /\ reviewer'[k] = reviewer[k] /\ retries'[k] = retries[k]

Same(k) == status'[k] = status[k] /\ SameBindings(k)
Changes(k) == Lawful(k, status'[k]) /\ SameBindings(k)

\* The task is bound to attempt drawn + 1, which is new.
Draws(k) == drawn' = drawn + 1 /\ owner'[drawn + 1] = k /\ UNCHANGED authority

Claimed(k) ==
    /\ project = "EXECUTING" /\ status'[k] = "LAUNCH_CLAIMED"
    /\ status[k] \in {"READY", "REPAIR_REQUIRED"} /\ author[k] = 0
    /\ Draws(k) /\ author'[k] = drawn + 1
    /\ reviewer'[k] = reviewer[k] /\ retries'[k] = retries[k]

Reviewed(k) ==
    /\ status[k] = "REVIEW_REQUIRED" /\ status'[k] = status[k] /\ reviewer[k] = 0
    /\ Draws(k) /\ reviewer'[k] = drawn + 1 /\ hold'[drawn + 1] = "NONE"
    /\ author'[k] = author[k] /\ retries'[k] = retries[k]

\* The task lets go of attempts KeeperAuthority will not run.
Released(k) ==
    /\ status[k] \in InFlight /\ status'[k] = "READY"
    /\ author[k] # 0 /\ authority[author[k]] = "NONE" /\ UNCHANGED authority
    /\ author'[k] = 0 /\ reviewer'[k] = reviewer[k] /\ retries'[k] = retries[k]

Reopened(k) ==
    /\ status[k] = "REVIEW_REQUIRED" /\ status'[k] \in {"FAILED", "REPAIR_REQUIRED"}
    /\ reviewer[k] # 0 /\ authority[reviewer[k]] \notin Open /\ UNCHANGED authority
    /\ author'[k] = 0 /\ reviewer'[k] = 0 /\ retries'[k] = retries[k] + 1
    /\ status'[k] = "REPAIR_REQUIRED" => retries[k] < MaxRetries

Turns(k) ==
    Same(k) \/ Changes(k) \/ Claimed(k) \/ Reviewed(k) \/ Released(k) \/ Reopened(k)

\* The types of the variables that describe a task.
TasksTyped ==
    /\ status \in [Tasks -> TaskStatus]
    /\ author \in [Tasks -> 0 .. MaxAttempts]
    /\ reviewer \in [Tasks -> 0 .. MaxAttempts]
    /\ retries \in [Tasks -> 0 .. MaxRetries + 1]

\* A step that writes no task.
LEMMA TasksSame ==
  ASSUME TasksTyped, UNCHANGED <<status, author, reviewer, retries>>
  PROVE  TasksTyped' /\ \A k \in Tasks : Turns(k)
  BY DEF TasksTyped, Turns, Same, SameBindings

\* A step that writes the state of one task.
LEMMA TaskChanges ==
  ASSUME TasksTyped, NEW k \in Tasks, NEW to \in TaskStatus, Lawful(k, to),
         status' = [status EXCEPT ![k] = to], UNCHANGED <<author, reviewer, retries>>
  PROVE  TasksTyped' /\ \A j \in Tasks : Turns(j)
  <1>1. TasksTyped'
    BY DEF TasksTyped
  <1>2. ASSUME NEW j \in Tasks
        PROVE  Same(j) \/ Changes(j)
    BY DEF TasksTyped, Same, Changes, SameBindings
  <1>q. QED
    BY <1>1, <1>2 DEF Turns

\* A worker that writes the state of its own task.
LEMMA StatusChanges ==
  ASSUME TasksTyped, NEW w \in Workers, Task(w) \in Tasks, NEW to \in TaskStatus,
         Status(w, to), Lawful(Task(w), to), UNCHANGED <<author, reviewer, retries>>
  PROVE  TasksTyped' /\ \A j \in Tasks : Turns(j)
  BY TaskChanges DEF Status

\* save_task, mark_ready and transition_execution.
LEMMA TurnsEarly ==
  ASSUME TasksTyped, Working, NEW w \in Workers,
         SaveTask(w) \/ MarkReady(w) \/ StartExecution(w) \/ RunExecution(w)
  PROVE  TasksTyped' /\ \A j \in Tasks : Turns(j)
  <1>1. Knows(w) /\ UNCHANGED <<author, reviewer, retries>>
    BY DEF Working, SaveTask, MarkReady, StartExecution, RunExecution, Move
  <1>2. CASE UNCHANGED status
    BY <1>1, <1>2, TasksSame
  <1>3. CASE SaveTask(w)
    <2>1. PICK n \in Stages :
            /\ status[<<work[w].plan, n>>] = "ABSENT"
            /\ status' = [status EXCEPT ![<<work[w].plan, n>>] = "PROPOSED"]
      BY <1>3 DEF SaveTask
    <2>2. <<work[w].plan, n>> \in Tasks
      BY <1>1, <1>3, <2>1 DEF SaveTask, At, Knows, Tasks
    <2>q. QED
      BY <1>1, <2>1, <2>2, TaskChanges DEF Lawful, TaskStatus
  <1>4. CASE MarkReady(w) /\ ~UNCHANGED status
    <2>1. /\ Task(w) \in Tasks /\ Status(w, "READY")
          /\ status[Task(w)] \in {"PROPOSED", "WAITING"}
      BY <1>1, <1>4 DEF MarkReady, At, Knows
    <2>q. QED
      BY <1>1, <2>1, StatusChanges DEF Lawful, TaskStatus
  <1>5. CASE (StartExecution(w) \/ RunExecution(w)) /\ ~UNCHANGED status
    <2>1. /\ Task(w) \in Tasks /\ status[Task(w)] \in InFlight
          /\ \E to \in {"EXECUTION_STARTED", "RUNNING"} : Status(w, to)
      BY <1>1, <1>5 DEF StartExecution, RunExecution, Move, At, Knows, InFlight
    <2>q. QED
      BY <1>1, <2>1, StatusChanges DEF Lawful, TaskStatus, InFlight
  <1>q. QED
    BY <1>2, <1>3, <1>4, <1>5

\* accept_author_completion writes a task in flight only, bound to the attempt it is
\* told the end of.
LEMMA AuthorWrites ==
  ASSUME NEW w \in Workers, AcceptAuthor(w), ~UNCHANGED status
  PROVE  /\ status[Task(w)] \in InFlight /\ author[Task(w)] = Att(w)
         /\ \/ \E to \in {"FAILED", "CANCELED", "WAITING"} : Status(w, to)
            \/ /\ Status(w, "REVIEW_REQUIRED") /\ project # "CANCELED"
               /\ authority[Att(w)] = "COMPLETED"
  BY DEF AcceptAuthor, Late

\* The ends of a launch.
LEMMA TurnsLeaving ==
  ASSUME TasksTyped, Working, NEW w \in Workers, LeavingStep(w)
  PROVE  TasksTyped' /\ \A j \in Tasks : Turns(j)
  <1>1. Knows(w) /\ UNCHANGED <<author, reviewer, retries>> /\ Task(w) \in Tasks
    <2>1. Knows(w) /\ work[w].pc \notin {"idle", "plan", "pause"}
      BY DEF Working, LeavingStep, AcceptAuthor, MarkWaiting, MarkUncertain,
         AwaitReconciliation, CompleteAutomated, At
    <2>q. QED
      BY <2>1 DEF LeavingStep, AcceptAuthor, MarkWaiting, MarkUncertain,
         AwaitReconciliation, CompleteAutomated, Knows
  <1>2. CASE UNCHANGED status
    BY <1>1, <1>2, TasksSame
  <1>3. CASE AcceptAuthor(w) /\ ~UNCHANGED status
    <2>1. /\ status[Task(w)] \in InFlight /\ author[Task(w)] = Att(w)
          /\ \/ \E to \in {"FAILED", "CANCELED", "WAITING"} : Status(w, to)
             \/ /\ Status(w, "REVIEW_REQUIRED") /\ project # "CANCELED"
                /\ authority[Att(w)] = "COMPLETED"
      BY <1>3, AuthorWrites
    <2>2. PICK to \in {"FAILED", "CANCELED", "WAITING", "REVIEW_REQUIRED"} :
            Status(w, to) /\ Lawful(Task(w), to)
      BY <2>1 DEF Lawful, InFlight, Closed
    <2>q. QED
      BY <1>1, <2>2, StatusChanges DEF TaskStatus, Closed
  <1>4. CASE /\ MarkWaiting(w) \/ MarkUncertain(w) \/ AwaitReconciliation(w)
             /\ ~UNCHANGED status
    <2>1. /\ \E to \in {"WAITING", "UNCERTAIN"} : Status(w, to)
          /\ work[w].fresh /\ work[w].pc \in AuthorPC
      BY <1>4 DEF MarkWaiting, MarkUncertain, AwaitReconciliation, UsageWait, At, AuthorPC
    <2>2. status[Task(w)] \in InFlight
      BY <1>1, <2>1 DEF Knows
    <2>q. QED
      BY <1>1, <2>1, <2>2, StatusChanges DEF Lawful, TaskStatus, InFlight
  <1>5. CASE CompleteAutomated(w) /\ ~UNCHANGED status
    BY <1>1, <1>5, StatusChanges DEF CompleteAutomated, Lawful, TaskStatus, Closed
  <1>q. QED
    BY <1>2, <1>3, <1>4, <1>5 DEF LeavingStep

\* claim_execution binds the task to a new attempt.
LEMMA TurnsClaim ==
  ASSUME TypeOK, Working, NEW w \in Workers, ClaimExecution(w)
  PROVE  TasksTyped' /\ \A j \in Tasks : Turns(j)
  <1>1. /\ Task(w) \in Tasks /\ drawn + 1 \in Attempts /\ drawn + 1 \in 0 .. MaxAttempts
    <2>1. work[w].pc = "claim" /\ Knows(w) /\ drawn < MaxAttempts
      BY DEF ClaimExecution, At, Working
    <2>2. drawn \in Nat /\ MaxAttempts \in Nat
      BY DrawnAttempts
    <2>q. QED
      BY <2>1, <2>2 DEF Knows, Attempts
  <1>2. /\ TasksTyped /\ owner \in [Attempts -> Tasks \cup {NoTask}]
    BY DEF TypeOK, TasksTyped
  <1>3. /\ drawn' = drawn + 1 /\ owner' = [owner EXCEPT ![drawn + 1] = Task(w)]
        /\ author' = [author EXCEPT ![Task(w)] = drawn + 1]
        /\ status' = [status EXCEPT ![Task(w)] = "LAUNCH_CLAIMED"]
        /\ UNCHANGED <<reviewer, retries, authority>>
        /\ project = "EXECUTING" /\ author[Task(w)] = 0
        /\ status[Task(w)] \in {"READY", "REPAIR_REQUIRED"}
    BY DEF ClaimExecution, Claimable, Status, authorityVars
  <1>4. TasksTyped'
    BY <1>1, <1>2, <1>3 DEF TasksTyped, TaskStatus, InFlight
  <1>5. Claimed(Task(w))
    BY <1>1, <1>2, <1>3 DEF Claimed, Draws, TasksTyped
  <1>6. ASSUME NEW j \in Tasks, j # Task(w)
        PROVE  Same(j)
    BY <1>1, <1>2, <1>3, <1>6 DEF Same, SameBindings, TasksTyped
  <1>q. QED
    BY <1>4, <1>5, <1>6 DEF Turns

\* claim_review too.
LEMMA TurnsClaimReview ==
  ASSUME TypeOK, Working, Undrawn, NEW w \in Workers, ClaimReview(w)
  PROVE  TasksTyped' /\ \A j \in Tasks : Turns(j)
  <1>1. TasksTyped /\ owner \in [Attempts -> Tasks \cup {NoTask}]
    BY DEF TypeOK, TasksTyped
  <1>2. CASE UNCHANGED reviewer
    BY <1>1, <1>2, TasksSame DEF ClaimReview
  <1>3. CASE ~UNCHANGED reviewer
    <2>1. /\ drawn < MaxAttempts /\ drawn' = drawn + 1
          /\ owner' = [owner EXCEPT ![drawn + 1] = Task(w)]
          /\ reviewer' = [reviewer EXCEPT ![Task(w)] = drawn + 1]
          /\ status[Task(w)] = "REVIEW_REQUIRED" /\ reviewer[Task(w)] = 0
          /\ UNCHANGED <<status, author, retries, hold, authority>>
      BY <1>3 DEF ClaimReview, authorityVars
    <2>2. /\ Task(w) \in Tasks /\ drawn + 1 \in Attempts
          /\ drawn + 1 \in 0 .. MaxAttempts /\ drawn + 1 > drawn
      <3>1. work[w].pc = "review" /\ Knows(w)
        BY DEF ClaimReview, At, Working
      <3>2. drawn \in Nat /\ MaxAttempts \in Nat
        BY DrawnAttempts
      <3>q. QED
        BY <2>1, <3>1, <3>2 DEF Knows, Attempts
    <2>3. TasksTyped'
      BY <1>1, <2>1, <2>2 DEF TasksTyped
    <2>4. Reviewed(Task(w))
      BY <1>1, <2>1, <2>2 DEF Reviewed, Draws, TasksTyped, Undrawn
    <2>5. ASSUME NEW j \in Tasks, j # Task(w)
          PROVE  Same(j)
      BY <1>1, <2>1, <2>2, <2>5 DEF Same, SameBindings, TasksTyped
    <2>q. QED
      BY <2>3, <2>4, <2>5 DEF Turns
  <1>q. QED
    BY <1>2, <1>3

\* release_prelaunch_execution_claim lets go of an attempt that was never reserved.
LEMMA TurnsRelease ==
  ASSUME TypeOK, Working, NEW w \in Workers, ReleaseClaim(w)
  PROVE  TasksTyped' /\ \A j \in Tasks : Turns(j)
  <1>1. TasksTyped /\ 0 \in 0 .. MaxAttempts
    BY ExecutiveConstants DEF TypeOK, TasksTyped
  <1>2. /\ Task(w) \in Tasks /\ author[Task(w)] = Att(w) /\ Att(w) # 0
    <2>1. work[w].pc = "raised" /\ Knows(w) /\ work[w].fresh
      BY DEF ReleaseClaim, Releasable, At, Working
    <2>2. drawn \in Nat
      BY DrawnAttempts
    <2>q. QED
      BY <2>1, <2>2 DEF Knows, AuthorPC
  <1>3. /\ author' = [author EXCEPT ![Task(w)] = 0]
        /\ status' = [status EXCEPT ![Task(w)] = "READY"]
        /\ UNCHANGED <<reviewer, retries, authority>>
        /\ status[Task(w)] = "LAUNCH_CLAIMED" /\ authority[Att(w)] = "NONE"
    BY DEF ReleaseClaim, Releasable, Status, authorityVars
  <1>4. TasksTyped'
    BY <1>1, <1>2, <1>3 DEF TasksTyped, TaskStatus
  <1>5. Released(Task(w))
    BY <1>1, <1>2, <1>3 DEF Released, TasksTyped, InFlight
  <1>6. ASSUME NEW j \in Tasks, j # Task(w)
        PROVE  Same(j)
    BY <1>1, <1>2, <1>3, <1>6 DEF Same, SameBindings, TasksTyped
  <1>q. QED
    BY <1>4, <1>5, <1>6 DEF Turns

\* accept_review_completion.
LEMMA TurnsReview ==
  ASSUME TypeOK, Working, NEW w \in Workers, AcceptReview(w)
  PROVE  TasksTyped' /\ \A j \in Tasks : Turns(j)
  <1>1. TasksTyped /\ 0 \in 0 .. MaxAttempts
    BY ExecutiveConstants DEF TypeOK, TasksTyped
  <1>2. Task(w) \in Tasks /\ Att(w) # 0 /\ authority[Att(w)] \notin Open
    <2>1. /\ work[w].pc \in {"reviewAwait", "reviewReconcile"} /\ Knows(w)
          /\ authority[Att(w)] \notin Open
      BY DEF AcceptReview, At, Working, Open, AnsweredOnly
    <2>2. drawn \in Nat
      BY DrawnAttempts
    <2>q. QED
      BY <2>1, <2>2 DEF Knows, ReviewPC
  <1>3. CASE UNCHANGED taskVars
    BY <1>1, <1>3, TasksSame DEF taskVars
  <1>4. CASE Decided(w)
    <2>1. PICK to \in {"COMPLETED", "FAILED"} : Status(w, to) /\ Lawful(Task(w), to)
      BY <1>2, <1>4 DEF Decided, Judged, Lawful
    <2>q. QED
      BY <1>1, <1>2, <1>4, <2>1, StatusChanges DEF Decided, TaskStatus, Closed
  <1>5. CASE SentBack(w)
    <2>1. PICK to \in {"FAILED", "REPAIR_REQUIRED"} :
            /\ status' = [status EXCEPT ![Task(w)] = to]
            /\ author' = [author EXCEPT ![Task(w)] = 0]
            /\ reviewer' = [reviewer EXCEPT ![Task(w)] = 0]
            /\ retries' = [retries EXCEPT ![Task(w)] = retries[Task(w)] + 1]
            /\ to = "REPAIR_REQUIRED" => retries[Task(w)] < MaxRetries
      BY <1>1, <1>2, <1>5 DEF SentBack, SendBack, Status, TasksTyped
    <2>2. /\ status[Task(w)] = "REVIEW_REQUIRED" /\ reviewer[Task(w)] = Att(w)
          /\ UNCHANGED authority
      BY <1>5 DEF SentBack, Judged, AcceptReview, authorityVars
    <2>3. retries[Task(w)] + 1 \in 0 .. MaxRetries + 1
      <3>1. /\ retries[Task(w)] \in 0 .. MaxRetries + 1 /\ retries[Task(w)] <= MaxRetries
            /\ MaxRetries \in Nat
        BY <1>2, <2>2, ExecutiveConstants DEF TypeOK
      <3>q. QED
        BY <3>1
    <2>4. TasksTyped'
      BY <1>1, <1>2, <2>1, <2>3 DEF TasksTyped, TaskStatus, Closed
    <2>5. Reopened(Task(w))
      BY <1>1, <1>2, <2>1, <2>2 DEF Reopened, TasksTyped
    <2>6. ASSUME NEW j \in Tasks, j # Task(w)
          PROVE  Same(j)
      BY <1>1, <1>2, <2>1, <2>6 DEF Same, SameBindings, TasksTyped
    <2>q. QED
      BY <2>4, <2>5, <2>6 DEF Turns
  <1>q. QED
    BY <1>3, <1>4, <1>5, ReviewWrites

\* The founder cancels what is not closed.
LEMMA TurnsOther ==
  ASSUME TasksTyped, OtherStep
  PROVE  TasksTyped' /\ \A j \in Tasks : Turns(j)
  <1>1. ASSUME NEW K \in SUBSET Tasks, \A k \in K : status[k] \notin Closed,
               status' = [k \in Tasks |-> IF k \in K THEN "CANCELED" ELSE status[k]],
               UNCHANGED <<author, reviewer, retries>>
        PROVE  TasksTyped' /\ \A j \in Tasks : Turns(j)
    BY <1>1 DEF TasksTyped, Turns, Same, SameBindings, Changes, Lawful, TaskStatus, Closed
  <1>2. CASE CancelProject
    BY <1>1, <1>2 DEF CancelProject, ToCancel, Known
  <1>3. CASE RevokeProject
    BY <1>1, <1>3 DEF RevokeProject, Known, InFlight, Closed
  <1>q. QED
    BY <1>2, <1>3, TasksSame
    DEF OtherStep, PauseProject, ResumeProject, GatewayRevoke, FounderReturns, FounderCrash,
        GatewayCancel, ProviderEnds, taskVars

\* The steps of a worker that write an attempt only.
AttemptStep(w) ==
    ReserveAuthor(w) \/ ReserveReviewer(w) \/ CrossBudget(w) \/ ExecuteAuthor(w)
    \/ ExecuteReviewer(w)

\* The quiet steps and these write no task.
LEMMA TasksKept ==
  ASSUME NEW w \in Workers, QuietStep(w) \/ AttemptStep(w)
  PROVE  UNCHANGED <<status, author, reviewer, retries>>
  BY DEF AttemptStep, ReserveAuthor, ReserveReviewer, Reserve, CrossBudget, ExecuteAuthor,
     ExecuteReviewer, Execute,
     QuietStep, taskVars, ReviewVarsOnly, StartPlanning, SaveWorkflow, FinishPlanning,
     ChooseTask, CompleteProject, NothingToDo, Pause, RefuseCandidate, RefuseClaim,
     RecheckLaunch, AuthorUnqualified, AwaitRaises, ResumeReserved, RefuseReview,
     StartReview, RecheckReview, ReviewAwaitRaises, ReviewRaised, ResumeReview,
     AwaitReview, Crash

\* Every step turns every task in one of these ways.
LEMMA TasksTurn ==
  ASSUME Inv, [Next]_vars
  PROVE  TasksTyped' /\ \A j \in Tasks : Turns(j)
  <1>1. TypeOK /\ TasksTyped /\ Working /\ Undrawn
    BY DEF Inv, TypeOK, TasksTyped
  <1>2. ASSUME NEW w \in Workers, WorkerStep(w)
        PROVE  TasksTyped' /\ \A j \in Tasks : Turns(j)
    BY <1>1, <1>2, TasksKept, TasksSame, TurnsEarly, TurnsLeaving, TurnsClaim,
       TurnsClaimReview, TurnsRelease, TurnsReview
    DEF WorkerStep, QuietStep, AttemptStep, LeavingStep
  <1>3. CASE UNCHANGED vars
    BY <1>1, <1>3, TasksSame DEF vars, taskVars
  <1>q. QED
    BY <1>1, <1>2, <1>3, TurnsOther DEF Next, OtherStep

-----------------------------------------------------------------------------
(* What a step may do to an attempt                                         *)

\* What KeeperAuthority answers about attempt a: it reserves an attempt a task is
\* bound to, starts one it has reserved, and ends one.
Answered(a) ==
    \/ authority'[a] = authority[a]
    \/ /\ authority[a] = "NONE" /\ authority'[a] = "RESERVED" /\ a <= drawn
       /\ owner'[a] \in Tasks /\ a \in {author'[owner'[a]], reviewer'[owner'[a]]}
    \/ authority[a] = "RESERVED" /\ authority'[a] = "STARTED" /\ a \in ran'
    \/ authority[a] \in Open /\ authority'[a] \in {"CANCELLED", "WAITING_FOR_USAGE_RESET"}
    \/ authority[a] = "STARTED" /\ authority'[a] \in {"COMPLETED", "FAILED", "STOPPED"}

\* Its provider runs with its reservation crossed, if it has one.
Ran(a) ==
    /\ a \in ran => a \in ran'
    /\ a \in ran' => a \in ran \/ (a <= drawn /\ hold'[a] \in {"NONE", "CROSSED"})

\* Only a new attempt is given a reservation, and only if the budget allows it and its
\* task has had none.
Held(a) ==
    \/ hold'[a] = hold[a]
    \/ /\ a = drawn + 1 /\ drawn' = drawn + 1 /\ hold'[a] = "RESERVED"
       /\ Affordable /\ Unreserved(owner'[a])
    \/ hold[a] = "RESERVED" /\ hold'[a] \in {"CROSSED", "RELEASED"}

\* It is for one task.
Owned(a) == a <= drawn \/ a > drawn' => owner'[a] = owner[a]

Advances(a) == Answered(a) /\ Ran(a) /\ Held(a) /\ Owned(a)

AttemptsTyped ==
    /\ drawn \in 0 .. MaxAttempts
    /\ owner \in [Attempts -> Tasks \cup {NoTask}]
    /\ hold \in [Attempts -> {"NONE", "RESERVED", "CROSSED", "RELEASED"}]
    /\ authority \in [Attempts -> AuthorityState]
    /\ ran \subseteq Attempts

\* What a step does to the attempts.
AttemptsAdvance ==
    /\ AttemptsTyped' /\ drawn' \in {drawn, drawn + 1}
    /\ \A a \in Attempts : Advances(a)

\* A step that writes no attempt.
LEMMA AttemptsSame ==
  ASSUME AttemptsTyped, UNCHANGED <<attemptVars, authority, ran>>
  PROVE  AttemptsAdvance
  BY DEF AttemptsAdvance, AttemptsTyped, attemptVars, Advances, Answered, Ran, Held, Owned

\* What KeeperAuthority does alone.
LEMMA AttemptsAnswered ==
  ASSUME AttemptsTyped, UNCHANGED attemptVars, authority' \in [Attempts -> AuthorityState],
         ran \subseteq ran', ran' \subseteq Attempts,
         \A a \in ran' \ ran : a <= drawn /\ hold[a] \in {"NONE", "CROSSED"},
         \A a \in Attempts : Answered(a)
  PROVE  AttemptsAdvance
  BY DEF AttemptsAdvance, AttemptsTyped, attemptVars, Advances, Ran, Held, Owned

\* A worker of an attempt knows that it is in use.
LEMMA KnownAttempt ==
  ASSUME TypeOK, Working, NEW w \in Workers, work[w].pc \in AuthorPC \cup ReviewPC
  PROVE  /\ Att(w) \in Attempts /\ Att(w) <= drawn /\ Att(w) # 0
         /\ owner[Att(w)] = Task(w) /\ Task(w) \in Tasks
  <1>1. Att(w) \in 1 .. drawn /\ owner[Att(w)] = Task(w) /\ Task(w) \in Tasks
    BY DEF Working, Knows, AuthorPC, ReviewPC
  <1>2. drawn \in Nat /\ 1 .. drawn \subseteq Attempts
    BY DrawnAttempts
  <1>q. QED
    BY <1>1, <1>2

\* gateway.reserve
LEMMA AdvancesReserve ==
  ASSUME TypeOK, Working, NEW w \in Workers, ReserveAuthor(w) \/ ReserveReviewer(w)
  PROVE  AttemptsAdvance
  <1>1. AttemptsTyped
    BY DEF TypeOK, AttemptsTyped
  <1>2. /\ work[w].pc \in {"reserve", "reviewReserve"}
        /\ UNCHANGED <<taskVars, attemptVars, ran>>
        /\ \/ UNCHANGED authority
           \/ /\ authority[Att(w)] = "NONE"
              /\ authority' = [authority EXCEPT ![Att(w)] = "RESERVED"]
    BY DEF ReserveAuthor, ReserveReviewer, Reserve, At
  <1>3. CASE UNCHANGED authority
    BY <1>1, <1>2, <1>3, AttemptsSame
  <1>4. CASE /\ authority[Att(w)] = "NONE"
             /\ authority' = [authority EXCEPT ![Att(w)] = "RESERVED"]
    <2>1. /\ Att(w) \in Attempts /\ Att(w) <= drawn /\ owner[Att(w)] = Task(w)
          /\ Task(w) \in Tasks /\ Att(w) \in {author[Task(w)], reviewer[Task(w)]}
      BY <1>2, KnownAttempt DEF AuthorPC, ReviewPC, Working, Knows
    <2>2. authority' \in [Attempts -> AuthorityState]
      BY <1>1, <1>4 DEF AttemptsTyped, AuthorityState
    <2>3. \A a \in Attempts : Answered(a)
      BY <1>1, <1>2, <1>4, <2>1 DEF AttemptsTyped, Answered, taskVars, attemptVars
    <2>q. QED
      BY <1>1, <1>2, <2>2, <2>3, AttemptsAnswered DEF AttemptsTyped
  <1>q. QED
    BY <1>2, <1>3, <1>4

\* gateway.execute
LEMMA AdvancesExecute ==
  ASSUME TypeOK, Working, NEW w \in Workers, ExecuteAuthor(w) \/ ExecuteReviewer(w)
  PROVE  AttemptsAdvance
  <1>1. AttemptsTyped
    BY DEF TypeOK, AttemptsTyped
  <1>2. /\ work[w].pc \in {"execute", "reviewExecute"} /\ UNCHANGED attemptVars
        /\ \/ UNCHANGED <<authority, ran>>
           \/ /\ authority[Att(w)] = "RESERVED"
              /\ \/ /\ authority' = [authority EXCEPT ![Att(w)] = "STARTED"]
                    /\ ran' = ran \cup {Att(w)}
                 \/ /\ \E end \in {"WAITING_FOR_USAGE_RESET", "CANCELLED"} :
                          authority' = [authority EXCEPT ![Att(w)] = end]
                    /\ UNCHANGED ran
    BY DEF ExecuteAuthor, ExecuteReviewer, Execute, At
  <1>3. /\ Att(w) \in Attempts /\ Att(w) <= drawn
        /\ hold[Att(w)] \in {"NONE", "CROSSED"}
    BY <1>2, KnownAttempt DEF AuthorPC, ReviewPC, Working, Knows
  <1>4. CASE UNCHANGED <<authority, ran>>
    BY <1>1, <1>2, <1>4, AttemptsSame
  <1>5. CASE /\ authority[Att(w)] = "RESERVED"
             /\ authority' = [authority EXCEPT ![Att(w)] = "STARTED"]
             /\ ran' = ran \cup {Att(w)}
    <2>1. authority' \in [Attempts -> AuthorityState]
      BY <1>1, <1>5 DEF AttemptsTyped, AuthorityState
    <2>2. \A a \in Attempts : Answered(a)
      BY <1>1, <1>3, <1>5 DEF AttemptsTyped, Answered
    <2>q. QED
      BY <1>1, <1>2, <1>3, <1>5, <2>1, <2>2, AttemptsAnswered DEF AttemptsTyped
  <1>6. ASSUME NEW end \in {"WAITING_FOR_USAGE_RESET", "CANCELLED"},
               authority[Att(w)] = "RESERVED",
               authority' = [authority EXCEPT ![Att(w)] = end], UNCHANGED ran
        PROVE  AttemptsAdvance
    <2>1. authority' \in [Attempts -> AuthorityState]
      BY <1>1, <1>6 DEF AttemptsTyped, AuthorityState
    <2>2. \A a \in Attempts : Answered(a)
      BY <1>1, <1>3, <1>6 DEF AttemptsTyped, Answered, Open
    <2>q. QED
      BY <1>1, <1>2, <1>6, <2>1, <2>2, AttemptsAnswered DEF AttemptsTyped
  <1>q. QED
    BY <1>2, <1>4, <1>5, <1>6

\* claim_execution and claim_review
LEMMA AdvancesClaim ==
  ASSUME TypeOK, NEW w \in Workers, Task(w) \in Tasks, ClaimExecution(w) \/ ClaimReview(w)
  PROVE  AttemptsAdvance
  <1>1. /\ AttemptsTyped /\ drawn \in Nat /\ MaxAttempts \in Nat
    BY DrawnAttempts DEF TypeOK, AttemptsTyped
  <1>2. CASE UNCHANGED drawn
    <2>1. UNCHANGED <<attemptVars, authority, ran>>
      BY <1>1, <1>2 DEF ClaimExecution, ClaimReview, attemptVars, authorityVars
    <2>q. QED
      BY <1>1, <2>1, AttemptsSame
  <1>3. CASE ~UNCHANGED drawn
    <2>1. /\ drawn < MaxAttempts /\ drawn' = drawn + 1
          /\ owner' = [owner EXCEPT ![drawn + 1] = Task(w)]
          /\ \/ UNCHANGED hold
             \/ /\ Affordable /\ Unreserved(Task(w))
                /\ hold' = [hold EXCEPT ![drawn + 1] = "RESERVED"]
          /\ UNCHANGED <<authority, ran>>
      BY <1>3 DEF ClaimExecution, ClaimReview, Payable, authorityVars
    <2>2. /\ drawn + 1 \in Attempts /\ drawn + 1 \in 0 .. MaxAttempts
          /\ \A a \in Attempts : a <= drawn \/ a > drawn + 1 => a # drawn + 1
      BY <1>1, <2>1 DEF Attempts
    <2>3. AttemptsTyped'
      BY <1>1, <2>1, <2>2 DEF AttemptsTyped
    <2>4. \A a \in Attempts : Owned(a) /\ Held(a)
      BY <1>1, <2>1, <2>2 DEF AttemptsTyped, Owned, Held
    <2>5. \A a \in Attempts : Answered(a) /\ Ran(a)
      BY <2>1 DEF Answered, Ran
    <2>q. QED
      BY <2>1, <2>3, <2>4, <2>5 DEF AttemptsAdvance, Advances
  <1>q. QED
    BY <1>2, <1>3

\* A reservation is crossed or given back.
LEMMA AdvancesHold ==
  ASSUME TypeOK, NEW w \in Workers, Att(w) \in Attempts, CrossBudget(w) \/ ReleaseClaim(w)
  PROVE  AttemptsAdvance
  <1>1. AttemptsTyped
    BY DEF TypeOK, AttemptsTyped
  <1>2. /\ UNCHANGED <<drawn, owner, authority, ran>>
        /\ \/ UNCHANGED hold
           \/ /\ hold[Att(w)] = "RESERVED"
              /\ \E to \in {"CROSSED", "RELEASED"} : hold' = [hold EXCEPT ![Att(w)] = to]
    BY <1>1 DEF CrossBudget, ReleaseClaim, authorityVars, AttemptsTyped
  <1>3. AttemptsTyped' /\ \A a \in Attempts : Held(a)
    BY <1>1, <1>2 DEF AttemptsTyped, Held
  <1>4. \A a \in Attempts : Answered(a) /\ Ran(a) /\ Owned(a)
    BY <1>2 DEF Answered, Ran, Owned
  <1>q. QED
    BY <1>2, <1>3, <1>4 DEF AttemptsAdvance, Advances

\* What is no worker's step.
LEMMA AdvancesOther ==
  ASSUME TypeOK, OtherStep
  PROVE  AttemptsAdvance
  <1>1. AttemptsTyped /\ UNCHANGED <<attemptVars, ran>>
    BY DEF TypeOK, AttemptsTyped, OtherStep, PauseProject, ResumeProject, CancelProject,
       RevokeProject, GatewayRevoke, FounderReturns, FounderCrash, GatewayCancel,
       ProviderEnds, authorityVars
  <1>2. CASE UNCHANGED authority
    BY <1>1, <1>2, AttemptsSame
  <1>3. CASE ~UNCHANGED authority
    <2>1. authority' \in [Attempts -> AuthorityState] /\ \A a \in Attempts : Answered(a)
      BY <1>1, <1>3
      DEF AttemptsTyped, AuthorityState, Answered, Open, OtherStep, PauseProject,
          ResumeProject, CancelProject, RevokeProject, GatewayRevoke, FounderReturns,
          FounderCrash, GatewayCancel, ProviderEnds, AnsweredOnly, authorityVars
    <2>q. QED
      BY <1>1, <2>1, AttemptsAnswered DEF AttemptsTyped
  <1>q. QED
    BY <1>2, <1>3

\* Every step advances every attempt in one of these ways.
LEMMA AttemptsTurn ==
  ASSUME Inv, [Next]_vars
  PROVE  AttemptsAdvance
  <1>1. TypeOK /\ AttemptsTyped /\ Working
    BY DEF Inv, TypeOK, AttemptsTyped
  <1>2. ASSUME NEW w \in Workers, QuietStep(w)
        PROVE  UNCHANGED <<attemptVars, authority, ran>>
    BY <1>2
    DEF QuietStep, authorityVars, ReviewVarsOnly, StartPlanning, SaveWorkflow,
        FinishPlanning, ChooseTask, CompleteProject, NothingToDo, Pause, RefuseCandidate,
        RefuseClaim, RecheckLaunch, AuthorUnqualified, AwaitRaises, ResumeReserved,
        RefuseReview, StartReview, RecheckReview, ReviewAwaitRaises, ReviewRaised,
        ResumeReview, AwaitReview, Crash
  <1>3. ASSUME NEW w \in Workers,
               \/ SaveTask(w) \/ MarkReady(w) \/ StartExecution(w) \/ RunExecution(w)
               \/ LeavingStep(w) \/ AcceptReview(w)
        PROVE  UNCHANGED <<attemptVars, authority, ran>>
    BY <1>3 DEF SaveTask, MarkReady, StartExecution, RunExecution, Move, LeavingStep,
       AcceptAuthor, MarkWaiting, MarkUncertain, AwaitReconciliation, CompleteAutomated,
       AcceptReview, authorityVars
  <1>4. ASSUME NEW w \in Workers, ClaimExecution(w) \/ ClaimReview(w)
        PROVE  Task(w) \in Tasks
    BY <1>1, <1>4 DEF ClaimExecution, ClaimReview, At, Working, Knows
  <1>5. ASSUME NEW w \in Workers, CrossBudget(w) \/ ReleaseClaim(w)
        PROVE  Att(w) \in Attempts
    <2>1. work[w].pc \in AuthorPC
      BY <1>5 DEF CrossBudget, ReleaseClaim, At, AuthorPC
    <2>q. QED
      BY <1>1, <2>1, KnownAttempt
  <1>6. CASE UNCHANGED vars
    BY <1>1, <1>6, AttemptsSame DEF vars, authorityVars
  <1>7. ASSUME NEW w \in Workers, WorkerStep(w)
        PROVE  AttemptsAdvance
    BY <1>1, <1>2, <1>3, <1>4, <1>5, <1>7, AttemptsSame, AdvancesReserve, AdvancesExecute,
       AdvancesClaim, AdvancesHold
    DEF WorkerStep, QuietStep, LeavingStep
  <1>q. QED
    BY <1>1, <1>6, <1>7, AdvancesOther DEF Next, OtherStep

-----------------------------------------------------------------------------
(* The project, the reviews and the founder                                 *)

\* The types of the other variables.
OthersTyped ==
    /\ project \in ProjectState /\ approved \in BOOLEAN /\ planned \subseteq Plans
    /\ independent \subseteq Stages /\ review \in [Tasks -> ReviewState]
    /\ authorized \in BOOLEAN
    /\ founder \in {"idle", "cancel", "revoke", "failed"} /\ pending \subseteq Attempts

\* Only the founder cancels a project; the policy of its stages stays.
ProjectKept ==
    /\ UNCHANGED independent
    /\ project' = "CANCELED" => project = "CANCELED" \/ CancelProject

\* A worker moves the project to where progress or _pause sends it.
LEMMA ProjectMoved ==
  ASSUME TypeOK, NEW w \in Workers, WorkerStep(w)
  PROVE  /\ project' \in {project, "PLANNING", "EXECUTING", "BLOCKED", "COMPLETED"}
               \cup Targets
         /\ UNCHANGED <<approved, independent, authorized, founder, pending>>
  <1>1. CASE Pause(w)
    <2>1. work[w].target \in Targets
      BY DEF TypeOK
    <2>q. QED
      BY <1>1, <2>1 DEF Pause, charterVars, authorityVars, founderVars
  <1>2. CASE StartPlanning(w) \/ FinishPlanning(w) \/ CompleteProject(w) \/ NothingToDo(w)
    BY <1>2 DEF StartPlanning, FinishPlanning, CompleteProject, NothingToDo, charterVars,
       authorityVars, founderVars
  <1>3. CASE /\ ~Pause(w) /\ ~StartPlanning(w) /\ ~FinishPlanning(w)
             /\ ~CompleteProject(w) /\ ~NothingToDo(w)
    BY <1>3
    DEF WorkerStep, projectVars, charterVars, authorityVars, founderVars, ReviewVarsOnly,
        SaveWorkflow, SaveTask, ChooseTask, RefuseCandidate, MarkReady, ClaimExecution,
        RefuseClaim, ReserveAuthor, ReserveReviewer, Reserve, StartExecution, RunExecution,
        Move, RecheckLaunch, AuthorUnqualified, CrossBudget, ExecuteAuthor,
        ExecuteReviewer, Execute, AcceptAuthor, AwaitRaises, MarkWaiting, ReleaseClaim,
        MarkUncertain, ResumeReserved, AwaitReconciliation, CompleteAutomated,
        RefuseReview, ClaimReview, StartReview, RecheckReview, AcceptReview,
        ReviewAwaitRaises, ReviewRaised, ResumeReview, AwaitReview, Crash
  <1>q. QED
    BY <1>1, <1>2, <1>3

\* A worker saves the workflow it plans.
LEMMA PlannedKept ==
  ASSUME TypeOK, Working, NEW w \in Workers, WorkerStep(w)
  PROVE  planned' \subseteq Plans
  <1>1. CASE SaveWorkflow(w)
    <2>1. work[w].plan \in Plans
      BY <1>1 DEF SaveWorkflow, At, Working, Knows
    <2>q. QED
      BY <1>1, <2>1 DEF SaveWorkflow, TypeOK
  <1>2. CASE ~SaveWorkflow(w)
    <2>1. UNCHANGED planned
      BY <1>2
      DEF WorkerStep, projectVars, charterVars, ReviewVarsOnly,
          StartPlanning, FinishPlanning, CompleteProject, NothingToDo, Pause,
          SaveTask, ChooseTask, RefuseCandidate, MarkReady, ClaimExecution,
          RefuseClaim, ReserveAuthor, ReserveReviewer, Reserve, StartExecution,
          RunExecution, Move, RecheckLaunch, AuthorUnqualified, CrossBudget, ExecuteAuthor,
          ExecuteReviewer, Execute, AcceptAuthor, AwaitRaises, MarkWaiting, ReleaseClaim,
          MarkUncertain, ResumeReserved, AwaitReconciliation, CompleteAutomated,
          RefuseReview, ClaimReview, StartReview, RecheckReview, AcceptReview,
          ReviewAwaitRaises, ReviewRaised, ResumeReview, AwaitReview, Crash
    <2>q. QED
      BY <2>1 DEF TypeOK
  <1>q. QED
    BY <1>1, <1>2

\* The steps that may write a review set it to one of its states.
LEMMA ReviewsTyped ==
  ASSUME TypeOK, Working, NEW w \in Workers, WorkerStep(w)
  PROVE  review' \in [Tasks -> ReviewState]
  <1>1. review \in [Tasks -> ReviewState]
    BY DEF TypeOK
  <1>2. ASSUME NEW to \in ReviewState, SetReview(w, to)
        PROVE  review' \in [Tasks -> ReviewState]
    BY <1>1, <1>2 DEF SetReview
  <1>3. CASE StartReview(w) \/ ReviewRaised(w) \/ ResumeReview(w) \/ AwaitReview(w)
    BY <1>1, <1>2, <1>3
    DEF StartReview, ReviewRaised, ResumeReview, AwaitReview, ReviewState
  <1>4. CASE ClaimReview(w)
    BY <1>1, <1>4 DEF ClaimReview, ReviewState
  <1>5. CASE AcceptReview(w)
    <2>1. "NONE" \in ReviewState
      BY DEF ReviewState
    <2>q. QED
      BY <1>1, <1>2, <1>5, <2>1, ReviewWrites DEF Decided, SentBack, taskVars
  <1>6. CASE /\ ~StartReview(w) /\ ~ReviewRaised(w) /\ ~ResumeReview(w)
             /\ ~AwaitReview(w) /\ ~ClaimReview(w) /\ ~AcceptReview(w)
    <2>1. UNCHANGED review
      BY <1>6
      DEF WorkerStep, taskVars, StartPlanning, FinishPlanning, CompleteProject,
          NothingToDo, Pause, SaveWorkflow, SaveTask, ChooseTask, RefuseCandidate,
          MarkReady, ClaimExecution, RefuseClaim, ReserveAuthor, ReserveReviewer, Reserve,
          StartExecution, RunExecution, Move, RecheckLaunch, AuthorUnqualified,
          CrossBudget, ExecuteAuthor, ExecuteReviewer, Execute, AcceptAuthor, AwaitRaises,
          MarkWaiting, ReleaseClaim, MarkUncertain, ResumeReserved, AwaitReconciliation,
          CompleteAutomated, RefuseReview, RecheckReview, ReviewAwaitRaises, Crash
    <2>q. QED
      BY <1>1, <2>1
  <1>q. QED
    BY <1>3, <1>4, <1>5, <1>6

\* The founder cancels attempts tasks are bound to.
LEMMA OthersKept ==
  ASSUME TypeOK, Bindings, OtherStep
  PROVE  OthersTyped' /\ ProjectKept
  <1>1. OthersTyped
    BY DEF TypeOK, OthersTyped
  <1>2. \A n \in 0 .. MaxAttempts : n # 0 => n \in Attempts
    BY ExecutiveConstants DEF Attempts
  <1>3. CASE CancelProject
    <2>1. Bound(ToCancel) \subseteq Attempts
      BY <1>2 DEF Bound, ToCancel, Known, TypeOK
    <2>q. QED
      BY <1>1, <1>3, <2>1
      DEF CancelProject, OthersTyped, ProjectKept, charterVars, authorityVars, ProjectState
  <1>4. CASE RevokeProject
    <2>1. /\ \A k \in Known : status[k] \in InFlight => author[k] \in Attempts
          /\ \A k \in Known : reviewer[k] # 0 => reviewer[k] \in Attempts
      BY <1>2 DEF Known, TypeOK, Bindings, Agrees
    <2>2. pending' \subseteq Attempts
      BY <1>4, <2>1 DEF RevokeProject
    <2>q. QED
      BY <1>1, <1>4, <2>2
      DEF RevokeProject, OthersTyped, ProjectKept, authorityVars, ProjectState
  <1>5. CASE PauseProject \/ ResumeProject
    BY <1>1, <1>5 DEF PauseProject, ResumeProject, OthersTyped, ProjectKept, charterVars,
       taskVars, authorityVars, founderVars, ProjectState
  <1>6. CASE GatewayRevoke \/ FounderReturns \/ FounderCrash
             \/ \E a \in Attempts : GatewayCancel(a) \/ ProviderEnds(a)
    BY <1>1, <1>6 DEF GatewayRevoke, FounderReturns, FounderCrash, GatewayCancel,
       ProviderEnds, OthersTyped, ProjectKept, projectVars, charterVars, taskVars,
       authorityVars, founderVars
  <1>q. QED
    BY <1>3, <1>4, <1>5, <1>6 DEF OtherStep

\* No step leaves the types of these variables.
LEMMA OthersStep ==
  ASSUME Inv, [Next]_vars
  PROVE  OthersTyped' /\ ProjectKept
  <1>1. TypeOK /\ Working /\ Bindings /\ OthersTyped
    BY DEF Inv, TypeOK, OthersTyped
  <1>2. ASSUME NEW w \in Workers, WorkerStep(w)
        PROVE  OthersTyped' /\ ProjectKept
    <2>1. /\ project' \in {project, "PLANNING", "EXECUTING", "BLOCKED", "COMPLETED"}
                \cup Targets
          /\ UNCHANGED <<approved, independent, authorized, founder, pending>>
          /\ planned' \subseteq Plans /\ review' \in [Tasks -> ReviewState]
      BY <1>1, <1>2, ProjectMoved, PlannedKept, ReviewsTyped
    <2>q. QED
      BY <1>1, <2>1 DEF OthersTyped, ProjectKept, ProjectState, Targets
  <1>3. CASE UNCHANGED vars
    BY <1>1, <1>3 DEF vars, projectVars, charterVars, taskVars, authorityVars, founderVars,
       OthersTyped, ProjectKept
  <1>q. QED
    BY <1>1, <1>2, <1>3, OthersKept DEF Next, OtherStep

-----------------------------------------------------------------------------
(* The invariant is inductive                                               *)

\* An attempt in use stays its task's, unpaid or complete if it was.
LEMMA Steady ==
  ASSUME AttemptsTyped, AttemptsAdvance, NEW a \in Attempts, a <= drawn
  PROVE  /\ a <= drawn' /\ owner'[a] = owner[a]
         /\ hold[a] = "NONE" => hold'[a] = "NONE"
         /\ authority[a] = "COMPLETED" => authority'[a] = "COMPLETED"
  <1>1. /\ drawn \in Nat /\ a \in Nat /\ drawn' \in {drawn, drawn + 1}
    BY ExecutiveConstants DEF AttemptsTyped, AttemptsAdvance, Attempts
  <1>2. Advances(a)
    BY DEF AttemptsAdvance
  <1>3. a <= drawn' /\ a # drawn + 1
    BY <1>1
  <1>q. QED
    BY <1>2, <1>3 DEF Advances, Owned, Held, Answered, Open

\* Types.
LEMMA StepTypeOK ==
  ASSUME Inv, [Next]_vars
  PROVE  TypeOK'
  <1>1. /\ TypeOK /\ TasksTyped' /\ AttemptsTyped' /\ OthersTyped' /\ WorkTyped'
        /\ \A k \in Tasks : Turns(k)
    BY TasksTurn, AttemptsTurn, OthersStep, StepWorking DEF Inv, AttemptsAdvance
  <1>2. ASSUME NEW k \in Tasks
        PROVE  retries'[k] <= MaxRetries \/ status'[k] = "FAILED"
    <2>1. /\ retries[k] <= MaxRetries \/ status[k] = "FAILED"
          /\ retries[k] \in Nat /\ MaxRetries \in Nat
      BY ExecutiveConstants DEF Inv, TypeOK
    <2>2. CASE Same(k)
      BY <2>1, <2>2 DEF Same, SameBindings
    <2>3. CASE ~Same(k)
      <3>1. status[k] # "FAILED"
        BY <1>1, <2>3 DEF Turns, Changes, Lawful, InFlight, Closed, Claimed, Reviewed,
           Released, Reopened
      <3>2. \/ retries'[k] = retries[k]
            \/ retries'[k] = retries[k] + 1 /\ retries[k] < MaxRetries
            \/ status'[k] = "FAILED"
        BY <1>1, <2>3 DEF Turns, Changes, SameBindings, Claimed, Reviewed, Released,
           Reopened
      <3>q. QED
        BY <2>1, <3>1, <3>2
    <2>q. QED
      BY <2>2, <2>3
  <1>q. QED
    BY <1>1, <1>2
    DEF TypeOK, TasksTyped, AttemptsTyped, OthersTyped, WorkTyped, WorkerRecord

\* An attempt not in use is left alone.
LEMMA StepUndrawn ==
  ASSUME Inv, [Next]_vars
  PROVE  Undrawn'
  <1>1. /\ AttemptsAdvance /\ AttemptsTyped /\ Undrawn /\ drawn \in Nat
    BY AttemptsTurn, DrawnAttempts DEF Inv, TypeOK, AttemptsTyped
  <1>2. ASSUME NEW a \in Attempts, a > drawn'
        PROVE  /\ owner'[a] = NoTask /\ hold'[a] = "NONE" /\ authority'[a] = "NONE"
               /\ a \notin ran'
    <2>1. a \in Nat /\ drawn' \in {drawn, drawn + 1}
      BY <1>1, ExecutiveConstants DEF Attempts, AttemptsAdvance
    <2>2. a > drawn /\ ~(a <= drawn) /\ ~(a = drawn + 1 /\ drawn' = drawn + 1)
      BY <1>1, <1>2, <2>1
    <2>3. /\ owner[a] = NoTask /\ hold[a] = "NONE" /\ authority[a] = "NONE"
          /\ a \notin ran
      BY <1>1, <2>2 DEF Undrawn
    <2>4. Advances(a)
      BY <1>1 DEF AttemptsAdvance
    <2>q. QED
      BY <1>2, <2>2, <2>3, <2>4 DEF Advances, Owned, Held, Answered, Ran, Open
  <1>q. QED
    BY <1>2 DEF Undrawn

\* The record of a task and those of its attempts agree.
LEMMA StepBindings ==
  ASSUME Inv, [Next]_vars
  PROVE  Bindings'
  <1>1. /\ AttemptsAdvance /\ AttemptsTyped /\ TasksTyped /\ Undrawn /\ drawn \in Nat
        /\ UNCHANGED independent
    BY AttemptsTurn, DrawnAttempts, OthersStep
    DEF Inv, TypeOK, AttemptsTyped, TasksTyped, ProjectKept
  <1>2. ASSUME NEW k \in Tasks
        PROVE  Agrees(k)'
    <2>1. Turns(k) /\ Agrees(k)
      BY TasksTurn DEF Inv, Bindings
    <2>2. /\ author[k] # 0 => author[k] \in Attempts /\ author[k] <= drawn
          /\ reviewer[k] # 0 => reviewer[k] \in Attempts /\ reviewer[k] <= drawn
      <3>1. /\ author[k] \in 0 .. MaxAttempts /\ reviewer[k] \in 0 .. MaxAttempts
            /\ MaxAttempts \in Nat
        BY <1>1, ExecutiveConstants DEF TasksTyped
      <3>q. QED
        BY <2>1, <3>1 DEF Agrees, Attempts
    <2>3. /\ author[k] # 0 =>
                /\ author[k] <= drawn' /\ owner'[author[k]] = k
                /\ authority[author[k]] = "COMPLETED" =>
                      authority'[author[k]] = "COMPLETED"
          /\ reviewer[k] # 0 =>
                /\ reviewer[k] <= drawn' /\ owner'[reviewer[k]] = k
                /\ hold'[reviewer[k]] = "NONE"
                /\ authority[reviewer[k]] = "COMPLETED" =>
                      authority'[reviewer[k]] = "COMPLETED"
      BY <1>1, <2>1, <2>2, Steady DEF Agrees
    <2>4. CASE Same(k)
      BY <1>1, <2>1, <2>3, <2>4 DEF Same, SameBindings, Agrees
    <2>5. CASE Changes(k)
      BY <1>1, <2>1, <2>3, <2>5
      DEF Changes, SameBindings, Lawful, Agrees, InFlight
    <2>6. CASE Claimed(k)
      <3>1. reviewer[k] = 0 /\ drawn + 1 <= drawn'
        BY <1>1, <2>1, <2>6 DEF Claimed, Draws, Agrees
      <3>q. QED
        BY <1>1, <2>6, <3>1 DEF Claimed, Draws, Agrees
    <2>7. CASE Reviewed(k)
      <3>1. drawn + 1 <= drawn' /\ drawn + 1 # 0 /\ author[k] < drawn + 1 /\ author[k] # 0
        BY <1>1, <2>1, <2>2, <2>7, ExecutiveConstants DEF Reviewed, Draws, Agrees, Attempts
      <3>q. QED
        BY <1>1, <2>1, <2>3, <2>7, <3>1 DEF Reviewed, Draws, Agrees, InFlight
    <2>8. CASE Released(k)
      BY <2>1, <2>8 DEF Released, Agrees, InFlight
    <2>9. CASE Reopened(k)
      BY <2>9 DEF Reopened, Agrees, InFlight
    <2>q. QED
      BY <2>1, <2>4, <2>5, <2>6, <2>7, <2>8, <2>9 DEF Turns
  <1>q. QED
    BY <1>2 DEF Bindings

\* What KeeperAuthority would still run is bound to its task.
LEMMA StepAnswers ==
  ASSUME Inv, [Next]_vars
  PROVE  Answers'
  <1>1. /\ AttemptsAdvance /\ AttemptsTyped /\ Answers /\ Undrawn /\ Bindings
        /\ drawn \in Nat /\ \A k \in Tasks : Turns(k)
    BY AttemptsTurn, DrawnAttempts, TasksTurn DEF Inv, TypeOK, AttemptsTyped
  <1>2. ASSUME NEW a \in Attempts
        PROVE  /\ authority'[a] \in {"STARTED", "COMPLETED", "FAILED"} => a \in ran'
               /\ authority'[a] \in Open =>
                     /\ owner'[a] \in Tasks
                     /\ a \in {author'[owner'[a]], reviewer'[owner'[a]]}
    <2>1. Answered(a) /\ Ran(a)
      BY <1>1 DEF AttemptsAdvance, Advances
    <2>2. authority'[a] \in {"STARTED", "COMPLETED", "FAILED"} => a \in ran'
      BY <1>1, <2>1 DEF Answered, Ran, Answers
    <2>3. ASSUME authority[a] \in Open, authority'[a] \in Open
          PROVE  owner'[a] \in Tasks /\ a \in {author'[owner'[a]], reviewer'[owner'[a]]}
      <3>1. a <= drawn /\ a # 0
        BY <1>1, <2>3, ExecutiveConstants DEF Undrawn, Open, Attempts
      <3>2. owner'[a] = owner[a]
        BY <1>1, <3>1, Steady
      <3>3. PICK k \in Tasks : k = owner[a] /\ a \in {author[k], reviewer[k]}
        BY <1>1, <2>3 DEF Answers
      <3>4. Turns(k) /\ Agrees(k)
        BY <1>1 DEF Bindings
      <3>5. a \in {author'[k], reviewer'[k]}
        BY <2>3, <3>1, <3>3, <3>4
        DEF Turns, Same, Changes, SameBindings, Claimed, Reviewed, Released, Reopened,
            Agrees, Open
      <3>q. QED
        BY <3>2, <3>3, <3>5
    <2>4. ASSUME authority[a] \notin Open, authority'[a] \in Open
          PROVE  owner'[a] \in Tasks /\ a \in {author'[owner'[a]], reviewer'[owner'[a]]}
      BY <2>1, <2>4 DEF Answered, Open
    <2>q. QED
      BY <2>2, <2>3, <2>4
  <1>q. QED
    BY <1>2 DEF Answers

\* The reservations that count stay within the budget.
LEMMA StepSpending ==
  ASSUME Inv, [Next]_vars
  PROVE  SpendingIsAccounted'
  <1>1. /\ AttemptsAdvance /\ AttemptsTyped /\ Undrawn /\ SpendingIsAccounted
        /\ drawn \in Nat /\ MaxAttempts \in Nat /\ Limit \in Nat
    BY AttemptsTurn, DrawnAttempts, ExecutiveConstants DEF Inv, TypeOK, AttemptsTyped
  <1>2. IsFiniteSet(Holding) /\ Cardinality(Holding) \in Nat
    <2>1. IsFiniteSet(Attempts) /\ Holding \subseteq Attempts
      BY <1>1, FS_Interval DEF Attempts, Holding
    <2>q. QED
      BY <2>1, FS_Subset, FS_CardinalityType
  <1>3. Cardinality(Holding') <= Limit
    <2>1. CASE Holding' \subseteq Holding
      <3>1. Cardinality(Holding') <= Cardinality(Holding) /\ Cardinality(Holding') \in Nat
        BY <1>2, <2>1, FS_Subset, FS_CardinalityType
      <3>q. QED
        BY <1>1, <1>2, <3>1 DEF SpendingIsAccounted
    <2>2. CASE ~(Holding' \subseteq Holding)
      <3>1. PICK a \in Attempts : a \in Holding' /\ a \notin Holding
        BY <2>2 DEF Holding
      <3>2. a = drawn + 1 /\ Affordable
        BY <1>1, <3>1 DEF AttemptsAdvance, Advances, Held, Holding
      <3>3. Holding' \subseteq Holding \cup {a}
        BY <1>1, <3>2 DEF AttemptsAdvance, Advances, Held, Holding
      <3>4. /\ IsFiniteSet(Holding \cup {a})
            /\ Cardinality(Holding \cup {a}) = Cardinality(Holding) + 1
        BY <1>2, <3>1, FS_AddElement
      <3>5. Cardinality(Holding') <= Cardinality(Holding) + 1 /\ Cardinality(Holding') \in Nat
        BY <3>3, <3>4, FS_Subset, FS_CardinalityType
      <3>q. QED
        BY <1>1, <1>2, <3>2, <3>5 DEF Affordable
    <2>q. QED
      BY <2>1, <2>2
  <1>4. ASSUME NEW a \in ran'
        PROVE  hold'[a] \notin {"RESERVED", "RELEASED"}
    <2>1. a \in Attempts
      BY <1>1 DEF AttemptsAdvance, AttemptsTyped
    <2>2. Ran(a) /\ Held(a)
      BY <1>1, <2>1 DEF AttemptsAdvance, Advances
    <2>3. CASE a \in ran
      <3>1. hold[a] \notin {"RESERVED", "RELEASED"} /\ a # drawn + 1
        <4>1. hold[a] \notin {"RESERVED", "RELEASED"} /\ ~(a > drawn)
          BY <1>1, <2>1, <2>3 DEF SpendingIsAccounted, Undrawn
        <4>q. QED
          BY <1>1, <4>1
      <3>q. QED
        BY <2>2, <3>1 DEF Held
    <2>4. CASE a \notin ran
      BY <2>2, <2>4 DEF Ran
    <2>q. QED
      BY <2>3, <2>4
  <1>5. ASSUME NEW a \in Attempts, hold'[a] # "NONE"
        PROVE  \/ a <= drawn /\ hold[a] # "NONE" /\ owner'[a] = owner[a]
               \/ a = drawn + 1 /\ Unreserved(owner'[a])
    <2>1. Held(a) /\ Owned(a) /\ a \in Nat
      BY <1>1 DEF AttemptsAdvance, Advances, Attempts
    <2>2. CASE hold[a] # "NONE"
      <3>1. a <= drawn
        BY <1>1, <2>1, <2>2 DEF Undrawn
      <3>q. QED
        BY <2>1, <2>2, <3>1 DEF Owned
    <2>3. CASE hold[a] = "NONE"
      BY <1>5, <2>1, <2>3 DEF Held
    <2>q. QED
      BY <2>2, <2>3
  <1>6. ASSUME NEW a \in Attempts, NEW b \in Attempts, owner'[a] = owner'[b],
               hold'[a] # "NONE", hold'[b] # "NONE"
        PROVE  a = b
    BY <1>1, <1>5, <1>6 DEF SpendingIsAccounted, Unreserved
  <1>q. QED
    BY <1>3, <1>4, <1>6 DEF SpendingIsAccounted

\* In a cancelled project nothing is claimed or sent to review again.
LEMMA StepCanceled ==
  ASSUME Inv, [Next]_vars
  PROVE  CanceledIsStill'
  <1>1. ASSUME project' = "CANCELED", NEW k \in Tasks
        PROVE  status'[k] \notin InFlight \cup {"REVIEW_REQUIRED"}
    <2>1. /\ CanceledIsStill /\ Turns(k)
          /\ project = "CANCELED" \/ CancelProject
      BY <1>1, TasksTurn, OthersStep DEF Inv, ProjectKept
    <2>2. CASE project = "CANCELED"
      BY <2>1, <2>2 DEF CanceledIsStill, Turns, Same, Changes, Lawful, Claimed, Reviewed,
         Released, Reopened, InFlight
    <2>3. CASE CancelProject
      BY <2>3 DEF CancelProject, ToCancel, Known, Closed, InFlight
    <2>q. QED
      BY <2>1, <2>2, <2>3
  <1>q. QED
    BY <1>1 DEF CanceledIsStill

\* Nothing has happened yet.
LEMMA InitInv == Init => Inv
  <1> SUFFICES ASSUME Init PROVE Inv
    OBVIOUS
  <1>1. TypeOK
    <2>1. Idle \in WorkerRecord
      BY IdleTyped
    <2>q. QED
      BY <2>1, ExecutiveConstants DEF Init, TypeOK, WorkerRecord, ProjectState, TaskStatus,
         ReviewState, AuthorityState
  <1>2. Working /\ Alone
    BY DEF Init, Idle, Working, Knows, Alone, Launching, At, AuthorPC, ReviewPC
  <1>3. Undrawn /\ Bindings /\ Answers /\ CanceledIsStill
    BY DEF Init, Undrawn, Bindings, Agrees, Answers, Open, InFlight, CanceledIsStill
  <1>4. SpendingIsAccounted
    <2>1. Holding = {}
      BY DEF Init, Holding
    <2>q. QED
      BY <2>1, FS_EmptySet, ExecutiveConstants DEF SpendingIsAccounted, Init
  <1>q. QED
    BY <1>1, <1>2, <1>3, <1>4 DEF Inv

\* The inductive invariant of the executive layer.
THEOREM Invariance == Spec => []Inv
  <1>1. Init => Inv
    BY InitInv
  <1>2. Inv /\ [Next]_vars => Inv'
    BY StepTypeOK, StepWorking, StepUndrawn, StepBindings, StepAnswers, StepSpending,
       StepCanceled
    DEF Inv
  <1>q. QED
    BY <1>1, <1>2, PTL DEF Spec

-----------------------------------------------------------------------------
(* What it means                                                            *)

\* Every variable keeps its type: in particular a task that has used its retries up is
\* FAILED, whatever workers and the founder do at once.
THEOREM TypeCorrect == Spec => []TypeOK
  <1>1. Inv => TypeOK
    BY DEF Inv
  <1>q. QED
    BY <1>1, Invariance, PTL

\* A task never has two attempts KeeperAuthority would still run or is running, for any
\* number of workers that lose answers, crash, release claims and recover each other's
\* tasks.
THEOREM OneOpen == Spec => []OneOpenAttempt
  <1>1. Inv => OneOpenAttempt
    <2> SUFFICES ASSUME Inv, NEW a \in Attempts, NEW b \in Attempts,
                        owner[a] = owner[b], authority[a] \in Open, authority[b] \in Open
                 PROVE  a = b
      BY DEF OneOpenAttempt
    <2>1. PICK k \in Tasks : k = owner[a] /\ {a, b} \subseteq {author[k], reviewer[k]}
      BY DEF Inv, Answers
    <2>2. reviewer[k] # 0 => authority[author[k]] = "COMPLETED"
      BY DEF Inv, Bindings, Agrees
    <2>3. a # 0 /\ b # 0
      BY ExecutiveConstants DEF Attempts
    <2>q. QED
      BY <2>1, <2>2, <2>3 DEF Open
  <1>q. QED
    BY <1>1, Invariance, PTL

\* The approved budget bounds all launches together, and an attempt that has run was
\* paid for: no reservation is given back or left uncrossed once its provider ran.
THEOREM Spending == Spec => []SpendingIsAccounted
  <1>1. Inv => SpendingIsAccounted
    BY DEF Inv
  <1>q. QED
    BY <1>1, Invariance, PTL

\* A task is complete only on completions KeeperAuthority has given: the author's, and
\* for an independent stage that of a review that was claimed later.
THEOREM ReviewedBefore == Spec => []CompletedIsReviewed
  <1>1. Inv => CompletedIsReviewed
    <2> SUFFICES ASSUME Inv, NEW k \in Tasks, status[k] = "COMPLETED"
                 PROVE  /\ author[k] \in ran /\ authority[author[k]] = "COMPLETED"
                        /\ k[2] \in independent =>
                              /\ reviewer[k] \in ran /\ reviewer[k] > author[k]
                              /\ authority[reviewer[k]] = "COMPLETED"
      BY DEF CompletedIsReviewed
    <2>1. Agrees(k) /\ author[k] \in 0 .. MaxAttempts /\ reviewer[k] \in 0 .. MaxAttempts
      BY DEF Inv, Bindings, TypeOK
    <2>2. /\ author[k] # 0 /\ authority[author[k]] = "COMPLETED"
          /\ k[2] \in independent =>
                /\ reviewer[k] # 0 /\ authority[reviewer[k]] = "COMPLETED"
                /\ author[k] < reviewer[k]
      BY <2>1 DEF Agrees
    <2>3. /\ author[k] \in Attempts
          /\ k[2] \in independent => reviewer[k] \in Attempts /\ reviewer[k] > author[k]
      BY <2>1, <2>2, ExecutiveConstants DEF Attempts
    <2>q. QED
      BY <2>2, <2>3 DEF Inv, Answers
  <1>q. QED
    BY <1>1, Invariance, PTL

\* Once the founder has cancelled the project, nothing is in flight or under review,
\* whatever late completions and slow workers still bring.
THEOREM CanceledStays == Spec => []CanceledIsStill
  <1>1. Inv => CanceledIsStill
    BY DEF Inv
  <1>q. QED
    BY <1>1, Invariance, PTL

\* A closed task stays as it is, with its attempts: no late completion, reconciliation
\* or repair reopens it.
THEOREM ClosedStays ==
  Spec => [][\A k \in Tasks : status[k] \in Closed => Same(k)]_vars
  <1>1. Inv /\ [Next]_vars => [\A k \in Tasks : status[k] \in Closed => Same(k)]_vars
    BY TasksTurn DEF Turns, Changes, Lawful, Claimed, Reviewed, Released, Reopened, InFlight,
       Closed
  <1>q. QED
    BY <1>1, Invariance, PTL DEF Spec

\* An author's attempt is never replaced while KeeperAuthority may still run it: a task
\* lets go of one only if it was never reserved, or after it was completed.
THEOREM NoReplacement ==
  Spec => [][\A k \in Tasks : author[k] # 0 /\ author'[k] # author[k] =>
               author'[k] = 0 /\ authority[author[k]] \in {"NONE", "COMPLETED"}]_vars
  <1>1. Inv /\ [Next]_vars =>
           [\A k \in Tasks : author[k] # 0 /\ author'[k] # author[k] =>
               author'[k] = 0 /\ authority[author[k]] \in {"NONE", "COMPLETED"}]_vars
    <2> SUFFICES ASSUME Inv, [Next]_vars, NEW k \in Tasks, author[k] # 0,
                        author'[k] # author[k]
                 PROVE  author'[k] = 0 /\ authority[author[k]] \in {"NONE", "COMPLETED"}
      OBVIOUS
    <2>1. Turns(k) /\ Agrees(k)
      BY TasksTurn DEF Inv, Bindings
    <2>q. QED
      BY <2>1 DEF Turns, Same, Changes, SameBindings, Claimed, Reviewed, Released, Reopened,
         Agrees
  <1>q. QED
    BY <1>1, Invariance, PTL DEF Spec

\* A task that has waited for a usage reset, with the attempt that ended there.
Parked(k) == author[k] # 0 /\ status[k] \in {"WAITING", "READY"}

\* A task that has waited for usage is not launched again: mark_ready makes it READY, but
\* it keeps its attempt and claim_execution refuses every task that has one, so nothing
\* but a cancellation ever moves it.
THEOREM ParkedStays ==
  Spec => [][\A k \in Tasks : Parked(k) =>
               \/ Parked(k)' /\ SameBindings(k)
               \/ status'[k] = "CANCELED" /\ SameBindings(k)]_vars
  <1>1. Inv /\ [Next]_vars =>
           [\A k \in Tasks : Parked(k) =>
               \/ Parked(k)' /\ SameBindings(k)
               \/ status'[k] = "CANCELED" /\ SameBindings(k)]_vars
    <2> SUFFICES ASSUME Inv, [Next]_vars, NEW k \in Tasks, Parked(k)
                 PROVE  /\ status'[k] \in {"WAITING", "READY", "CANCELED"}
                        /\ SameBindings(k)
      BY DEF Parked, SameBindings
    <2>1. Turns(k)
      BY TasksTurn
    <2>2. ~(Claimed(k) \/ Reviewed(k) \/ Released(k) \/ Reopened(k))
      BY DEF Parked, Claimed, Reviewed, Released, Reopened, InFlight
    <2>q. QED
      BY <2>1, <2>2 DEF Turns, Same, Changes, Lawful, Parked, InFlight
  <1>q. QED
    BY <1>1, Invariance, PTL DEF Spec
=============================================================================
