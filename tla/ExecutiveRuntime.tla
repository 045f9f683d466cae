------------------------- MODULE ExecutiveRuntime -------------------------
(***************************************************************************)
(* The executive layer: ExecutiveRuntime.progress drives the tasks of one    *)
(* project through claim, provider launch, import of the completion and      *)
(* independent review, while other workers progress the same project, the    *)
(* founder pauses, cancels or revokes it, and processes die.  Every method of *)
(* ExecutiveRepository is one transaction.  KeeperAuthority appears as what it *)
(* answers: one state for each attempt.                                      *)
(*                                                                           *)
(* A record is written only over the exact record that was read.  A worker   *)
(* therefore carries two flags instead of revisions: "fresh" is TRUE while    *)
(* nobody else has written the task it read, "same" while nobody else has     *)
(* written the project.                                                      *)
(***************************************************************************)
EXTENDS Naturals, FiniteSets

CONSTANTS Workers,       \* callers of progress
          Plans,         \* workflows that may be generated
          LastStage,     \* stages of a workflow are 1 .. LastStage, each after the one before
          Limit,         \* the approved budget, in paid launches
          MaxRetries,    \* retries of a task after a review
          MaxAttempts    \* bound on attempt identifiers

Stages == 1 .. LastStage

ASSUME ExecutiveConstants ==
    /\ LastStage \in Nat \ {0}
    /\ Limit \in Nat /\ MaxRetries \in Nat /\ MaxAttempts \in Nat

VARIABLES project,     \* ExecutiveState of the project
          approved,    \* the charter approval is not revoked
          planned,     \* workflows that have been saved
          independent, \* stages reviewed by an independent provider
          status,      \* TaskStatus of a task
          author,      \* the task's authority_attempt_id, 0 if none
          reviewer,    \* the task's review_attempt_id, 0 if none
          review,      \* state of the current review record of a task
          retries,     \* retry_count of a task
          drawn,       \* attempt identifiers in use
          owner,       \* the task an attempt is for
          hold,        \* the budget reservation of an attempt
          authority,   \* what KeeperAuthority answers about an attempt
          authorized,  \* the project's launch authorization is active
          ran,         \* attempts whose provider has been run
          work,        \* the workers
          founder,     \* what the founder's call of cancel or revoke has reached
          pending      \* attempts that call has still to cancel

charterVars == <<approved, planned, independent>>
projectVars == <<project, charterVars>>
taskVars == <<status, author, reviewer, review, retries>>
attemptVars == <<drawn, owner, hold>>
authorityVars == <<authority, authorized, ran>>
founderVars == <<founder, pending>>
vars == <<projectVars, taskVars, attemptVars, authorityVars, work, founderVars>>

Tasks == Plans \X Stages
Attempts == 1 .. MaxAttempts
NoTask == <<0, 0>>

ProjectState == {"ACTIVE", "PLANNING", "EXECUTING", "BLOCKED", "PAUSED",
                 "WAITING_FOR_PROVIDER", "WAITING_FOR_USAGE_RESET",
                 "WAITING_FOR_FOUNDER", "COMPLETED", "CANCELED"}
\* Where _pause may send the project; no worker ever cancels it.
Targets == {"EXECUTING", "BLOCKED", "WAITING_FOR_PROVIDER", "WAITING_FOR_USAGE_RESET",
            "WAITING_FOR_FOUNDER"}
InFlight == {"LAUNCH_CLAIMED", "EXECUTION_STARTED", "RUNNING", "UNCERTAIN"}
Closed == {"COMPLETED", "FAILED", "CANCELED"}
TaskStatus == {"ABSENT", "PROPOSED", "READY", "WAITING", "REVIEW_REQUIRED",
               "REPAIR_REQUIRED"} \cup InFlight \cup Closed
ReviewState == {"NONE", "LAUNCH_CLAIMED", "EXECUTION_STARTED", "UNCERTAIN",
                "COMPLETED", "FAILED"}
\* CANCELLED stands for every state without a completion, STOPPED for the provider's
\* own end by a cancellation or a timeout: execute answers with that completion, and
\* reconcile takes it for none.
AuthorityState == {"NONE", "RESERVED", "STARTED", "COMPLETED", "FAILED", "STOPPED",
                   "CANCELLED", "WAITING_FOR_USAGE_RESET"}
AnsweredOnly == {"STOPPED", "WAITING_FOR_USAGE_RESET"}
Open == {"RESERVED", "STARTED"}

PC == {"idle", "plan", "candidate", "claim", "reserve", "start", "recheck", "run",
       "cross", "execute", "await", "raised", "reconcile", "pause", "review",
       "reviewReserve", "reviewStart", "reviewRecheck", "reviewExecute",
       "reviewAwait", "reviewRaised", "reviewReconcile"}
Idle == [pc |-> "idle", task |-> NoTask, att |-> 0, fresh |-> FALSE, same |-> FALSE,
         target |-> "EXECUTING", recovering |-> FALSE, plan |-> 0]

TypeOK ==
    /\ project \in ProjectState /\ approved \in BOOLEAN /\ planned \subseteq Plans
    /\ independent \subseteq Stages
    /\ status \in [Tasks -> TaskStatus]
    /\ author \in [Tasks -> 0 .. MaxAttempts]
    /\ reviewer \in [Tasks -> 0 .. MaxAttempts]
    /\ review \in [Tasks -> ReviewState]
    /\ retries \in [Tasks -> 0 .. MaxRetries + 1]
    /\ \A k \in Tasks : retries[k] <= MaxRetries \/ status[k] = "FAILED"
    /\ drawn \in 0 .. MaxAttempts
    /\ owner \in [Attempts -> Tasks \cup {NoTask}]
    /\ hold \in [Attempts -> {"NONE", "RESERVED", "CROSSED", "RELEASED"}]
    /\ authority \in [Attempts -> AuthorityState]
    /\ authorized \in BOOLEAN /\ ran \subseteq Attempts
    /\ work \in [Workers -> [pc : PC, task : Tasks \cup {NoTask},
                             att : 0 .. MaxAttempts, fresh : BOOLEAN, same : BOOLEAN,
                             target : Targets, recovering : BOOLEAN,
                             plan : Plans \cup {0}]]
    /\ founder \in {"idle", "cancel", "revoke", "failed"} /\ pending \subseteq Attempts

Init ==
    /\ project = "ACTIVE" /\ approved = TRUE /\ planned = {}
    /\ independent \in SUBSET Stages
    /\ status = [k \in Tasks |-> "ABSENT"]
    /\ author = [k \in Tasks |-> 0] /\ reviewer = [k \in Tasks |-> 0]
    /\ review = [k \in Tasks |-> "NONE"] /\ retries = [k \in Tasks |-> 0]
    /\ drawn = 0
    /\ owner = [a \in Attempts |-> NoTask] /\ hold = [a \in Attempts |-> "NONE"]
    /\ authority = [a \in Attempts |-> "NONE"] /\ authorized = TRUE /\ ran = {}
    /\ work = [w \in Workers |-> Idle]
    /\ founder = "idle" /\ pending = {}

-----------------------------------------------------------------------------
(* Transition tables and writes                                             *)

\* PROJECT_TRANSITIONS, for the targets save_project is called with.
ProjectMoves(from) ==
    CASE from = "ACTIVE" -> {"PLANNING", "PAUSED", "CANCELED"}
      [] from = "PLANNING" -> {"EXECUTING", "BLOCKED", "PAUSED",
                               "WAITING_FOR_PROVIDER", "CANCELED"}
      [] from = "EXECUTING" -> ProjectState \ {"ACTIVE", "PLANNING", "EXECUTING"}
      [] from = "BLOCKED" -> {"PLANNING", "EXECUTING", "PAUSED", "CANCELED"}
      [] from = "PAUSED" -> {"ACTIVE", "PLANNING", "EXECUTING", "CANCELED"}
      [] from \in {"WAITING_FOR_PROVIDER", "WAITING_FOR_USAGE_RESET",
                   "WAITING_FOR_FOUNDER"} -> {"EXECUTING", "PAUSED", "CANCELED"}
      [] OTHER -> {}

At(w, pc) == work[w].pc = pc
Task(w) == work[w].task
Att(w) == work[w].att

Goto(w, pc) == work' = [work EXCEPT ![w].pc = pc]
Return(w) == work' = [work EXCEPT ![w] = Idle]

\* Worker w has written task k and goes on at pc.
Wrote(w, k, pc) ==
    work' = [v \in Workers |->
               IF v = w THEN [work[w] EXCEPT !.pc = pc, !.fresh = TRUE]
               ELSE [work[v] EXCEPT !.fresh = @ /\ work[v].task # k]]

\* Worker w has written the project and returns.
WroteProject(w, next) ==
    work' = [v \in Workers |->
               IF v = w THEN next ELSE [work[v] EXCEPT !.same = FALSE]]

\* Leaves for _pause; the project is read again there iff reread.
Pausing(w, target, reread) ==
    [Idle EXCEPT !.pc = "pause", !.target = target, !.same = work[w].same \/ reread]

\* _pause: a state the project cannot move to, or a project that has changed,
\* is left alone.
Pause(w) ==
    /\ At(w, "pause")
    /\ IF /\ work[w].same
          /\ work[w].target \in ProjectMoves(project) \cup {project}
         THEN /\ project' = work[w].target
              /\ WroteProject(w, Idle)
         ELSE /\ UNCHANGED project
              /\ Return(w)
    /\ UNCHANGED <<charterVars, taskVars, attemptVars, authorityVars, founderVars>>

Holding == {a \in Attempts : hold[a] \in {"RESERVED", "CROSSED"}}

\* AuthorityEvaluator.evaluate, as far as it depends on the project; it asks for no
\* approval of the charter.
Executable == project \in {"ACTIVE", "PLANNING", "EXECUTING"}

-----------------------------------------------------------------------------
(* progress: what to do next                                                *)

Progressable == project \in {"ACTIVE", "PLANNING", "EXECUTING", "BLOCKED"}

Known == {k \in Tasks : status[k] # "ABSENT"}
Candidates ==
    {k \in Known : /\ status[k] \in {"PROPOSED", "READY", "REPAIR_REQUIRED", "WAITING"}
                   /\ k[2] > 1 => status[<<k[1], k[2] - 1>>] = "COMPLETED"}
Reviewing(claimed) ==
    {k \in Known : status[k] = "REVIEW_REQUIRED" /\ (reviewer[k] # 0) = claimed}

\* A task is recovered unless this call launches it.  Until it leaves for _pause,
\* "target" says whether the project it read is one to launch in.
Take(w, k, a, pc) ==
    work' = [work EXCEPT ![w] =
               [Idle EXCEPT !.pc = pc, !.task = k, !.att = a,
                            !.fresh = TRUE, !.same = TRUE,
                            !.recovering = (pc # "candidate"),
                            !.target = IF pc # "candidate" \/ Executable
                                         THEN "EXECUTING" ELSE "BLOCKED"]]

\* No workflow yet: the project is moved to PLANNING first.
StartPlanning(w) ==
    /\ At(w, "idle") /\ Progressable /\ planned = {}
    /\ \E p \in Plans :
          /\ \A v \in Workers : work[v].plan # p
          /\ LET next == [Idle EXCEPT !.pc = "plan", !.same = TRUE, !.plan = p]
             IN IF project = "ACTIVE"
                  THEN project' = "PLANNING" /\ WroteProject(w, next)
                  ELSE UNCHANGED project /\ work' = [work EXCEPT ![w] = next]
    /\ UNCHANGED <<charterVars, taskVars, attemptVars, authorityVars, founderVars>>

\* Chooses a task by the order of the cases in progress.
ChooseTask(w) ==
    /\ At(w, "idle") /\ Progressable /\ planned # {}
    /\ LET flying == {k \in Known : status[k] \in InFlight}
       IN IF flying # {}
            THEN \E k \in flying : Take(w, k, author[k], "reconcile")
          ELSE IF Reviewing(TRUE) # {}
            THEN \E k \in Reviewing(TRUE) : Take(w, k, reviewer[k], "reviewReconcile")
          ELSE IF Reviewing(FALSE) # {}
            THEN \E k \in Reviewing(FALSE) : Take(w, k, author[k], "review")
          ELSE \E k \in Candidates : Take(w, k, 0, "candidate")
    /\ UNCHANGED <<projectVars, taskVars, attemptVars, authorityVars, founderVars>>

AllDone == Known # {} /\ \A k \in Known : status[k] = "COMPLETED"

CompleteProject(w) ==
    /\ At(w, "idle") /\ Progressable /\ planned # {}
    /\ AllDone
    /\ project = "EXECUTING"
    /\ project' = "COMPLETED"
    /\ WroteProject(w, Idle)
    /\ UNCHANGED <<charterVars, taskVars, attemptVars, authorityVars, founderVars>>

\* "No task can progress from durable state."
NothingToDo(w) ==
    /\ At(w, "idle") /\ Progressable /\ planned # {}
    /\ ~AllDone /\ Candidates = {} /\ Reviewing(TRUE) \cup Reviewing(FALSE) = {}
    /\ \A k \in Known : status[k] \notin InFlight
    /\ project' = IF "BLOCKED" \in ProjectMoves(project) THEN "BLOCKED" ELSE project
    /\ WroteProject(w, Idle)
    /\ UNCHANGED <<charterVars, taskVars, attemptVars, authorityVars, founderVars>>

-----------------------------------------------------------------------------
(* Planning                                                                 *)

\* WorkflowPlanner.generate saves the workflow and then each task in a
\* transaction of its own; then the project is moved to EXECUTING.
SaveWorkflow(w) ==
    /\ At(w, "plan") /\ work[w].plan \notin planned
    /\ planned' = planned \cup {work[w].plan}
    /\ UNCHANGED <<project, approved, independent, taskVars, attemptVars, authorityVars, work,
                   founderVars>>

SaveTask(w) ==
    /\ At(w, "plan") /\ work[w].plan \in planned
    /\ \E n \in Stages :
          /\ status[<<work[w].plan, n>>] = "ABSENT"
          /\ n > 1 => status[<<work[w].plan, n - 1>>] # "ABSENT"
          /\ status' = [status EXCEPT ![<<work[w].plan, n>>] = "PROPOSED"]
    /\ UNCHANGED <<projectVars, author, reviewer, review, retries, attemptVars,
                   authorityVars, work, founderVars>>

FinishPlanning(w) ==
    /\ At(w, "plan")
    /\ \A n \in Stages : status[<<work[w].plan, n>>] # "ABSENT"
    /\ IF work[w].same /\ "EXECUTING" \in ProjectMoves(project) \cup {project}
         THEN project' = "EXECUTING" /\ WroteProject(w, Idle)
         ELSE UNCHANGED project /\ Return(w)
    /\ UNCHANGED <<charterVars, taskVars, attemptVars, authorityVars, founderVars>>

-----------------------------------------------------------------------------
(* The author's launch                                                      *)

Status(w, to) == status' = [status EXCEPT ![Task(w)] = to]

\* No qualified provider, or the readiness check or the evaluator refuses.
RefuseCandidate(w) ==
    /\ At(w, "candidate")
    /\ \E target \in {"WAITING_FOR_PROVIDER", "BLOCKED", "WAITING_FOR_FOUNDER"} :
          work' = [work EXCEPT ![w] = Pausing(w, target, FALSE)]
    /\ UNCHANGED <<projectVars, taskVars, attemptVars, authorityVars, founderVars>>

\* mark_ready and save_task; a task that is READY or REPAIR_REQUIRED already
\* is not written.
MarkReady(w) ==
    /\ At(w, "candidate") /\ work[w].target = "EXECUTING"
    /\ IF status[Task(w)] \notin {"PROPOSED", "WAITING"}
         THEN UNCHANGED status /\ Goto(w, "claim")
       ELSE IF work[w].fresh
         THEN Status(w, "READY") /\ Wrote(w, Task(w), "claim")
         ELSE UNCHANGED status /\ Return(w)
    /\ UNCHANGED <<projectVars, author, reviewer, review, retries, attemptVars,
                   authorityVars, founderVars>>

\* _reserve_budget_in_transaction
Affordable == Cardinality(Holding) < Limit

\* Mutation of Unreserved: the index leaves out the reservations given back.
UnreservedNow(k) == \A a \in Holding : owner[a] # k

\* The action of a spending launch is named after the task, and a reservation is
\* never deleted: the index on the action refuses the task a second one.
Unreserved(k) == \A a \in Attempts : owner[a] = k => hold[a] = "NONE"

Payable(w) == approved /\ Affordable /\ Unreserved(Task(w))

Claimable(w) ==
    /\ work[w].fresh
    /\ status[Task(w)] \in {"READY", "REPAIR_REQUIRED"} /\ author[Task(w)] = 0
    /\ project = "EXECUTING"

\* claim_execution: the attempt is durable before anything is launched.  Whether
\* it is paid for depends on the provider chosen.
ClaimExecution(w) ==
    /\ At(w, "claim") /\ Claimable(w)
    /\ drawn < MaxAttempts
    /\ drawn' = drawn + 1
    /\ owner' = [owner EXCEPT ![drawn + 1] = Task(w)]
    /\ \/ UNCHANGED hold
       \/ Payable(w) /\ hold' = [hold EXCEPT ![drawn + 1] = "RESERVED"]
    /\ author' = [author EXCEPT ![Task(w)] = drawn + 1]
    /\ Status(w, "LAUNCH_CLAIMED")
    /\ work' = [v \in Workers |->
                  IF v = w THEN [work[w] EXCEPT !.pc = "reserve", !.att = drawn + 1]
                  ELSE [work[v] EXCEPT !.fresh = @ /\ work[v].task # Task(w)]]
    /\ UNCHANGED <<projectVars, reviewer, review, retries, authorityVars, founderVars>>

RefuseClaim(w) ==
    /\ At(w, "claim") /\ ~(Claimable(w) /\ Payable(w))
    /\ Return(w)
    /\ UNCHANGED <<projectVars, taskVars, attemptVars, authorityVars, founderVars>>

\* gateway.reserve: done, done with the answer lost, or not done.
Reserve(w, from, done, failed) ==
    /\ At(w, from)
    /\ \/ /\ authorized /\ authority[Att(w)] = "NONE"
          /\ authority' = [authority EXCEPT ![Att(w)] = "RESERVED"]
          /\ \E pc \in {done, failed} : Goto(w, pc)
       \/ Goto(w, failed) /\ UNCHANGED authority
    /\ UNCHANGED <<projectVars, taskVars, attemptVars, authorized, ran, founderVars>>

ReserveAuthor(w) == Reserve(w, "reserve", "start", "raised")

\* transition_execution, from -> to; a stale task raises.
Move(w, here, from, to, next) ==
    /\ At(w, here)
    /\ IF work[w].fresh /\ status[Task(w)] \in from
         THEN Status(w, to) /\ Wrote(w, Task(w), next)
         ELSE UNCHANGED status
              /\ (IF work[w].recovering THEN Return(w) ELSE Goto(w, "raised"))
    /\ UNCHANGED <<projectVars, author, reviewer, review, retries, attemptVars,
                   authorityVars, founderVars>>

StartExecution(w) ==
    Move(w, "start", {"LAUNCH_CLAIMED", "UNCERTAIN"}, "EXECUTION_STARTED", "recheck")
RunExecution(w) ==
    Move(w, "run", {"EXECUTION_STARTED"}, "RUNNING", "cross")

\* _recheck_launch; a reconciliation may also run in a BLOCKED project.
RecheckLaunch(w) ==
    /\ At(w, "recheck")
    /\ IF work[w].fresh /\ approved
          /\ (Executable \/ (work[w].recovering /\ project = "BLOCKED"))
         THEN Goto(w, "run")
         ELSE IF work[w].recovering THEN Return(w) ELSE Goto(w, "raised")
    /\ UNCHANGED <<projectVars, taskVars, attemptVars, authorityVars, founderVars>>

\* The provider a reconciled task was claimed with is no longer qualified.
AuthorUnqualified(w) ==
    /\ At(w, "recheck") /\ work[w].recovering
    /\ work' = [work EXCEPT ![w] = Pausing(w, "BLOCKED", FALSE)]
    /\ UNCHANGED <<projectVars, taskVars, attemptVars, authorityVars, founderVars>>

\* _cross_budget_boundary: only a RESERVED reservation can be crossed.
CrossBudget(w) ==
    /\ At(w, "cross")
    /\ IF hold[Att(w)] = "NONE"
         THEN UNCHANGED hold /\ Goto(w, "execute")
       ELSE IF hold[Att(w)] = "RESERVED"
         THEN hold' = [hold EXCEPT ![Att(w)] = "CROSSED"] /\ Goto(w, "execute")
       ELSE UNCHANGED hold
            /\ (IF work[w].recovering THEN Return(w) ELSE Goto(w, "raised"))
    /\ UNCHANGED <<projectVars, taskVars, drawn, owner, authorityVars, founderVars>>

\* gateway.execute: KeeperAuthority claims the attempt, or refuses.
Execute(w, from, next, failed) ==
    /\ At(w, from)
    /\ \/ /\ authorized /\ authority[Att(w)] = "RESERVED"
          /\ authority' = [authority EXCEPT ![Att(w)] = "STARTED"]
          /\ ran' = ran \cup {Att(w)}
          /\ Goto(w, next)
       \/ /\ authorized /\ authority[Att(w)] = "RESERVED"
          /\ \E end \in {"WAITING_FOR_USAGE_RESET", "CANCELLED"} :
                authority' = [authority EXCEPT ![Att(w)] = end]
          /\ Goto(w, failed)
          /\ UNCHANGED ran
       \/ Goto(w, failed) /\ UNCHANGED <<authority, ran>>
    /\ UNCHANGED <<projectVars, taskVars, attemptVars, authorized, founderVars>>

ExecuteAuthor(w) == Execute(w, "execute", "await", "raised")

-----------------------------------------------------------------------------
(* The author's completion                                                  *)

Late(k) == project = "CANCELED" \/ status[k] = "CANCELED"
Imported(k) == status[k] \in {"REVIEW_REQUIRED", "COMPLETED", "FAILED"}

\* A task write of w, after which it leaves for _pause.
WroteAndPauses(w, k, target, reread) ==
    work' = [v \in Workers |->
               IF v = w THEN Pausing(w, target, reread)
               ELSE [work[v] EXCEPT !.fresh = @ /\ work[v].task # k]]

\* accept_author_completion, and what progress makes of its answer.  A second
\* import of the same completion is answered with the task as it is; one for a
\* cancelled task is kept as a late result.
AcceptAuthor(w) ==
    LET k == Task(w)
        end == authority[Att(w)]
        again == author[k] = Att(w) /\ end = "COMPLETED" /\ Imported(k)
        stale == ~work[w].fresh \/ status[k] \notin InFlight \ {"LAUNCH_CLAIMED"}
    IN /\ At(w, "await") \/ At(w, "reconcile")
       /\ \/ end \in {"COMPLETED", "FAILED"}
          \/ At(w, "await") /\ end \in AnsweredOnly
       /\ IF author[k] # Att(w)
            THEN UNCHANGED status /\ Return(w)
          ELSE IF again
            THEN /\ UNCHANGED status
                 /\ IF status[k] = "REVIEW_REQUIRED"
                      THEN work' = [work EXCEPT ![w].pc = "review", ![w].fresh = TRUE]
                      ELSE work' = [work EXCEPT ![w] =
                                      Pausing(w, "BLOCKED", ~work[w].recovering)]
          ELSE IF Late(k)
            THEN UNCHANGED status /\ Wrote(w, k, "idle")
          ELSE IF stale
            THEN UNCHANGED status /\ Return(w)
          ELSE CASE end = "COMPLETED" ->
                      Status(w, "REVIEW_REQUIRED") /\ Wrote(w, k, "review")
                 [] end = "FAILED" ->
                      /\ Status(w, "FAILED")
                      /\ WroteAndPauses(w, k, "BLOCKED", ~work[w].recovering)
                 [] end = "STOPPED" ->
                      \/ /\ Status(w, "FAILED")
                         /\ WroteAndPauses(w, k, "BLOCKED", ~work[w].recovering)
                      \/ /\ Status(w, "CANCELED")
                         /\ IF work[w].recovering
                              THEN Wrote(w, k, "idle")
                              ELSE WroteAndPauses(w, k, "BLOCKED", TRUE)
                 [] OTHER ->
                      /\ Status(w, "WAITING")
                      /\ IF work[w].recovering
                           THEN WroteAndPauses(w, k, "BLOCKED", FALSE)
                           ELSE WroteAndPauses(w, k, "WAITING_FOR_USAGE_RESET", TRUE)
       /\ UNCHANGED <<projectVars, author, reviewer, review, retries, attemptVars,
                      authorityVars, founderVars>>

\* The answer is lost or the attempt ended without a completion.
AwaitRaises(w) ==
    /\ At(w, "await")
    /\ Goto(w, "raised")
    /\ UNCHANGED <<projectVars, taskVars, attemptVars, authorityVars, founderVars>>

-----------------------------------------------------------------------------
(* Failure of a launch                                                      *)

\* mark_execution_waiting_for_usage, for launches that spend nothing.
UsageWait(w) ==
    /\ work[w].fresh
    /\ authority[Att(w)] = "WAITING_FOR_USAGE_RESET"
    /\ status[Task(w)] \in {"EXECUTION_STARTED", "RUNNING", "UNCERTAIN"}

MarkWaiting(w) ==
    /\ (At(w, "raised") /\ ~work[w].recovering) \/ At(w, "reconcile")
    /\ UsageWait(w)
    /\ IF hold[Att(w)] = "NONE"
         THEN /\ Status(w, "WAITING")
              /\ WroteAndPauses(w, Task(w), "WAITING_FOR_USAGE_RESET", ~work[w].recovering)
         ELSE /\ UNCHANGED status
              /\ work' = [work EXCEPT ![w] =
                            Pausing(w, "WAITING_FOR_USAGE_RESET", ~work[w].recovering)]
    /\ UNCHANGED <<projectVars, author, reviewer, review, retries, attemptVars,
                   authorityVars, founderVars>>

\* Mutation of Releasable: a failed reservation is taken for one not made.
ReleasableUnasked(w) == work[w].fresh /\ status[Task(w)] = "LAUNCH_CLAIMED"

\* KeeperAuthority is asked whether the attempt exists.
Releasable(w) ==
    /\ work[w].fresh /\ status[Task(w)] = "LAUNCH_CLAIMED"
    /\ authority[Att(w)] = "NONE"

\* release_prelaunch_execution_claim
ReleaseClaim(w) ==
    /\ At(w, "raised") /\ ~work[w].recovering
    /\ Releasable(w)
    /\ Status(w, "READY")
    /\ author' = [author EXCEPT ![Task(w)] = 0]
    /\ hold' = [hold EXCEPT ![Att(w)] = IF @ = "RESERVED" THEN "RELEASED" ELSE @]
    /\ WroteAndPauses(w, Task(w), "WAITING_FOR_PROVIDER", TRUE)
    /\ UNCHANGED <<projectVars, reviewer, review, retries, drawn, owner,
                   authorityVars, founderVars>>

\* mark_execution_uncertain; a task somebody else has written is left to them.
MarkUncertain(w) ==
    /\ At(w, "raised")
    /\ work[w].recovering \/ ~(UsageWait(w) \/ Releasable(w))
    /\ IF ~work[w].fresh
         THEN UNCHANGED status /\ Return(w)
         ELSE /\ Status(w, "UNCERTAIN")
              /\ WroteAndPauses(w, Task(w), "BLOCKED", ~work[w].recovering)
    /\ UNCHANGED <<projectVars, author, reviewer, review, retries, attemptVars,
                   authorityVars, founderVars>>

-----------------------------------------------------------------------------
(* _reconcile_author                                                        *)

\* The original attempt is still reserved: it is launched, not replaced.
ResumeReserved(w) ==
    /\ At(w, "reconcile")
    /\ work[w].fresh /\ authority[Att(w)] = "RESERVED"
    /\ status[Task(w)] \in {"LAUNCH_CLAIMED", "EXECUTION_STARTED", "UNCERTAIN"}
    /\ work' = [work EXCEPT
                  ![w].pc = IF status[Task(w)] = "EXECUTION_STARTED" THEN "recheck"
                                                                    ELSE "start"]
    /\ UNCHANGED <<projectVars, taskVars, attemptVars, authorityVars, founderVars>>

\* Anything else awaits KeeperAuthority; no retry is created.
AwaitReconciliation(w) ==
    /\ At(w, "reconcile")
    /\ authority[Att(w)] \notin {"COMPLETED", "FAILED"} /\ ~UsageWait(w)
    /\ \/ authority[Att(w)] # "RESERVED" \/ status[Task(w)] = "RUNNING"
       \/ ~work[w].fresh
    /\ IF work[w].fresh /\ status[Task(w)] # "UNCERTAIN"
         THEN Status(w, "UNCERTAIN") /\ WroteAndPauses(w, Task(w), "BLOCKED", FALSE)
         ELSE UNCHANGED status /\ work' = [work EXCEPT ![w] = Pausing(w, "BLOCKED", FALSE)]
    /\ UNCHANGED <<projectVars, author, reviewer, review, retries, attemptVars,
                   authorityVars, founderVars>>

-----------------------------------------------------------------------------
(* _review                                                                  *)

\* complete_automated_review
CompleteAutomated(w) ==
    /\ At(w, "review") /\ Task(w)[2] \notin independent
    /\ IF work[w].fresh /\ status[Task(w)] = "REVIEW_REQUIRED"
         THEN Status(w, "COMPLETED") /\ Wrote(w, Task(w), "idle")
         ELSE UNCHANGED status /\ Return(w)
    /\ UNCHANGED <<projectVars, author, reviewer, review, retries, attemptVars,
                   authorityVars, founderVars>>

\* No distinct reviewer, the artifact has changed, or the author of a recovered
\* task is no longer qualified.
RefuseReview(w) ==
    /\ At(w, "review") /\ (Task(w)[2] \in independent \/ work[w].recovering)
    /\ work' = [work EXCEPT ![w] = Pausing(w, "BLOCKED", FALSE)]
    /\ UNCHANGED <<projectVars, taskVars, attemptVars, authorityVars, founderVars>>

\* claim_review asks for the task only, not for the state of the project.
ClaimReview(w) ==
    LET k == Task(w)
    IN /\ At(w, "review") /\ k[2] \in independent
       /\ IF work[w].fresh /\ status[k] = "REVIEW_REQUIRED" /\ reviewer[k] = 0
            THEN /\ drawn < MaxAttempts
                 /\ drawn' = drawn + 1
                 /\ owner' = [owner EXCEPT ![drawn + 1] = k]
                 /\ reviewer' = [reviewer EXCEPT ![k] = drawn + 1]
                 /\ review' = [review EXCEPT ![k] = "LAUNCH_CLAIMED"]
                 /\ work' = [v \in Workers |->
                      IF v = w THEN [work[w] EXCEPT !.pc = "reviewReserve",
                                                    !.att = drawn + 1,
                                                    !.recovering = FALSE]
                      ELSE [work[v] EXCEPT !.fresh = @ /\ work[v].task # k]]
            ELSE UNCHANGED <<drawn, owner, reviewer, review>> /\ Return(w)
       /\ UNCHANGED <<projectVars, status, author, retries, hold, authorityVars,
                      founderVars>>

ReserveReviewer(w) == Reserve(w, "reviewReserve", "reviewStart", "reviewRaised")
ExecuteReviewer(w) == Execute(w, "reviewExecute", "reviewAwait", "reviewRaised")

ReviewVarsOnly == UNCHANGED <<projectVars, status, author, reviewer, retries,
                              attemptVars, authorityVars, founderVars>>

\* transition_review compares the state of the review record, which is that of
\* the task's current review unless the task has moved on.
ReviewIs(w, state) == reviewer[Task(w)] = Att(w) /\ review[Task(w)] \in state
SetReview(w, to) == review' = [review EXCEPT ![Task(w)] = to]

StartReview(w) ==
    /\ At(w, "reviewStart")
    /\ IF ReviewIs(w, {"LAUNCH_CLAIMED"})
         THEN SetReview(w, "EXECUTION_STARTED") /\ Goto(w, "reviewRecheck")
         ELSE UNCHANGED review /\ Goto(w, "reviewRaised")
    /\ ReviewVarsOnly

\* _recheck_review; a paused project passes.
RecheckReview(w) ==
    /\ At(w, "reviewRecheck")
    /\ IF /\ project # "CANCELED" /\ approved
          /\ status[Task(w)] = "REVIEW_REQUIRED"
         THEN Goto(w, "reviewExecute")
         ELSE Goto(w, "reviewRaised")
    /\ UNCHANGED <<projectVars, taskVars, attemptVars, authorityVars, founderVars>>

ReviewAwaitRaises(w) ==
    /\ At(w, "reviewAwait")
    /\ Goto(w, "reviewRaised")
    /\ UNCHANGED <<projectVars, taskVars, attemptVars, authorityVars, founderVars>>

ReviewRaised(w) ==
    /\ At(w, "reviewRaised")
    /\ IF ReviewIs(w, {"EXECUTION_STARTED"}) THEN SetReview(w, "UNCERTAIN")
                                             ELSE UNCHANGED review
    /\ work' = [work EXCEPT ![w] = Pausing(w, "BLOCKED", ~work[w].recovering)]
    /\ ReviewVarsOnly

\* The task is no longer bound to its attempts.
SendBack(w, to, n) ==
    /\ Status(w, to)
    /\ author' = [author EXCEPT ![Task(w)] = 0]
    /\ reviewer' = [reviewer EXCEPT ![Task(w)] = 0]
    /\ retries' = [retries EXCEPT ![Task(w)] = @ + n]

LastRetry(w) == retries[Task(w)] >= MaxRetries

\* Mutation of Reopen: the rejection and the repair are both counted as a retry.
ReopenCountedTwice(w, kept) ==
    IF LastRetry(w)
      THEN IF kept THEN Status(w, "FAILED") /\ UNCHANGED <<author, reviewer, retries>>
                   ELSE SendBack(w, "FAILED", 1)
      ELSE SendBack(w, "REPAIR_REQUIRED", 2)

\* A rejected task fails with its last retry; if the review was valid it keeps
\* its attempts then.
Reopen(w, kept) ==
    IF LastRetry(w)
      THEN IF kept THEN Status(w, "FAILED") /\ UNCHANGED <<author, reviewer, retries>>
                   ELSE SendBack(w, "FAILED", 1)
      ELSE SendBack(w, "REPAIR_REQUIRED", 1)

\* Mutation of Accepts: the terminal disposition of the reviewer is not asked.
AcceptsAnyEnd(w) == TRUE

Accepts(w) == authority[Att(w)] = "COMPLETED"

\* accept_review_completion
AcceptReview(w) ==
    LET k == Task(w)
    IN /\ At(w, "reviewAwait") \/ At(w, "reviewReconcile")
       /\ \/ authority[Att(w)] \in {"COMPLETED", "FAILED"}
          \/ At(w, "reviewAwait") /\ authority[Att(w)] \in AnsweredOnly
       /\ IF Late(k) /\ reviewer[k] = Att(w)
            THEN UNCHANGED taskVars /\ Wrote(w, k, "idle")
          ELSE IF \/ ~work[w].fresh \/ status[k] # "REVIEW_REQUIRED"
                  \/ reviewer[k] # Att(w)
            THEN UNCHANGED taskVars /\ Return(w)
          ELSE IF ~Accepts(w)
            THEN /\ Reopen(w, FALSE) /\ SetReview(w, "NONE")
                 /\ WroteAndPauses(w, k, "BLOCKED", FALSE)
          ELSE IF review[k] \notin {"EXECUTION_STARTED", "UNCERTAIN"}
            THEN UNCHANGED taskVars /\ Return(w)
          ELSE \/ /\ Status(w, "COMPLETED") /\ SetReview(w, "COMPLETED")
                  /\ Wrote(w, k, "idle")
                  /\ UNCHANGED <<author, reviewer, retries>>
               \/ /\ Reopen(w, TRUE)
                  /\ SetReview(w, IF LastRetry(w) THEN "COMPLETED" ELSE "NONE")
                  /\ WroteAndPauses(w, k, "BLOCKED", FALSE)
       /\ UNCHANGED <<projectVars, attemptVars, authorityVars, founderVars>>

\* _reconcile_review: a review that is still reserved is launched; the project
\* is not asked again.
ResumeReview(w) ==
    /\ At(w, "reviewReconcile")
    /\ authority[Att(w)] = "RESERVED"
    /\ ReviewIs(w, {"LAUNCH_CLAIMED", "UNCERTAIN"})
    /\ SetReview(w, "EXECUTION_STARTED")
    /\ Goto(w, "reviewExecute")
    /\ ReviewVarsOnly

AwaitReview(w) ==
    /\ At(w, "reviewReconcile")
    /\ authority[Att(w)] \notin {"COMPLETED", "FAILED"}
    /\ authority[Att(w)] # "RESERVED" \/ ~ReviewIs(w, {"LAUNCH_CLAIMED", "UNCERTAIN"})
    /\ IF ReviewIs(w, {"LAUNCH_CLAIMED", "EXECUTION_STARTED"})
         THEN SetReview(w, "UNCERTAIN") ELSE UNCHANGED review
    /\ work' = [work EXCEPT ![w] = Pausing(w, "BLOCKED", FALSE)]
    /\ ReviewVarsOnly

-----------------------------------------------------------------------------
(* The founder, KeeperAuthority and failures                                *)

Changed(K) == work' = [v \in Workers |-> [work[v] EXCEPT
                         !.same = FALSE, !.fresh = @ /\ work[v].task \notin K]]

PauseProject ==
    /\ "PAUSED" \in ProjectMoves(project)
    /\ project' = "PAUSED"
    /\ Changed({})
    /\ UNCHANGED <<charterVars, taskVars, attemptVars, authorityVars, founderVars>>

ResumeProject ==
    /\ project \in {"PAUSED", "BLOCKED", "WAITING_FOR_PROVIDER",
                    "WAITING_FOR_USAGE_RESET"}
    /\ approved
    /\ project' = "EXECUTING"
    /\ Changed({})
    /\ UNCHANGED <<charterVars, taskVars, attemptVars, authorityVars, founderVars>>

Bound(K) == ({author[k] : k \in K} \cup {reviewer[k] : k \in K}) \ {0}

\* Mutation of ToCancel: only launches under way are cancelled.
ToCancelInFlight == {k \in Known : status[k] \in InFlight}

ToCancel == {k \in Known : status[k] \notin Closed}

\* cancel_project_execution; the attempts are cancelled one by one afterwards.
CancelProject ==
    /\ founder = "idle"
    /\ "CANCELED" \in ProjectMoves(project)
    /\ project' = "CANCELED"
    /\ status' = [k \in Tasks |-> IF k \in ToCancel THEN "CANCELED" ELSE status[k]]
    /\ founder' = "cancel" /\ pending' = Bound(ToCancel)
    /\ Changed(ToCancel)
    /\ UNCHANGED <<charterVars, author, reviewer, review, retries,
                   attemptVars, authorityVars>>

\* revoke_project_launch_authority
RevokeProject ==
    LET K == {k \in Known : status[k] \in InFlight}
    IN /\ founder = "idle"
       /\ project \notin {"CANCELED", "COMPLETED"}
       /\ project' = "PAUSED" /\ approved' = FALSE
       /\ status' = [k \in Tasks |-> IF k \in K THEN "CANCELED" ELSE status[k]]
       /\ founder' = "revoke"
       /\ pending' = {author[k] : k \in K} \cup ({reviewer[k] : k \in Known} \ {0})
       /\ Changed(K)
       /\ UNCHANGED <<planned, independent, author, reviewer, review, retries, attemptVars,
                      authorityVars>>

\* gateway.revoke_project_launch withdraws what KeeperAuthority has not started,
\* or fails; the attempts are cancelled in either case.
GatewayRevoke ==
    /\ founder = "revoke"
    /\ \/ /\ founder' = "cancel"
          /\ authorized' = FALSE
          /\ authority' = [a \in Attempts |-> IF authority[a] = "RESERVED"
                                                THEN "CANCELLED" ELSE authority[a]]
       \/ founder' = "failed" /\ UNCHANGED <<authorized, authority>>
    /\ UNCHANGED <<projectVars, taskVars, attemptVars, ran, work, pending>>

\* gateway.cancel, which KeeperAuthority may refuse.
GatewayCancel(a) ==
    /\ founder \in {"cancel", "failed"} /\ a \in pending
    /\ pending' = pending \ {a}
    /\ \/ /\ authority[a] \in Open
          /\ authority' = [authority EXCEPT ![a] = "CANCELLED"]
          /\ UNCHANGED founder
       \/ /\ UNCHANGED authority
          /\ founder' \in IF approved \/ authority[a] \in {"CANCELLED", "COMPLETED", "FAILED"}
                            THEN {founder}
                          ELSE IF authority[a] = "STOPPED" THEN {founder, "failed"}
                          ELSE {"failed"}
    /\ UNCHANGED <<projectVars, taskVars, attemptVars, authorized, ran, work>>

\* The end of the call; a revocation that failed is noted in the project.
FounderReturns ==
    /\ founder \in {"cancel", "failed"} /\ pending = {}
    /\ founder' = "idle"
    /\ IF founder = "failed" THEN Changed({}) ELSE UNCHANGED work
    /\ UNCHANGED <<projectVars, taskVars, attemptVars, authorityVars, pending>>

ProviderEnds(a) ==
    /\ authority[a] = "STARTED"
    /\ \E end \in {"COMPLETED", "FAILED"} \cup AnsweredOnly :
          authority' = [authority EXCEPT ![a] = end]
    /\ UNCHANGED <<projectVars, taskVars, attemptVars, authorized, ran, work, founderVars>>

Crash(w) ==
    /\ ~At(w, "idle")
    /\ Return(w)
    /\ UNCHANGED <<projectVars, taskVars, attemptVars, authorityVars, founderVars>>

FounderCrash ==
    /\ founder # "idle"
    /\ founder' = "idle" /\ pending' = {}
    /\ UNCHANGED <<projectVars, taskVars, attemptVars, authorityVars, work>>

WorkerStep(w) ==
    \/ StartPlanning(w) \/ SaveWorkflow(w) \/ SaveTask(w) \/ FinishPlanning(w)
    \/ ChooseTask(w) \/ CompleteProject(w) \/ NothingToDo(w) \/ Pause(w)
    \/ RefuseCandidate(w) \/ MarkReady(w) \/ ClaimExecution(w) \/ RefuseClaim(w)
    \/ ReserveAuthor(w) \/ StartExecution(w) \/ RecheckLaunch(w) \/ AuthorUnqualified(w)
    \/ RunExecution(w)
    \/ CrossBudget(w) \/ ExecuteAuthor(w) \/ AcceptAuthor(w) \/ AwaitRaises(w)
    \/ MarkWaiting(w) \/ ReleaseClaim(w) \/ MarkUncertain(w)
    \/ ResumeReserved(w) \/ AwaitReconciliation(w)
    \/ CompleteAutomated(w) \/ RefuseReview(w) \/ ClaimReview(w) \/ ReserveReviewer(w)
    \/ StartReview(w) \/ RecheckReview(w) \/ ExecuteReviewer(w) \/ AcceptReview(w)
    \/ ReviewAwaitRaises(w) \/ ReviewRaised(w) \/ ResumeReview(w) \/ AwaitReview(w)
    \/ Crash(w)

Next ==
    \/ \E w \in Workers : WorkerStep(w)
    \/ PauseProject \/ ResumeProject \/ CancelProject \/ RevokeProject
    \/ GatewayRevoke \/ FounderReturns \/ FounderCrash
    \/ \E a \in Attempts : GatewayCancel(a) \/ ProviderEnds(a)

Spec == Init /\ [][Next]_vars

-----------------------------------------------------------------------------
(* Properties                                                               *)

\* Two workers, lost answers, crashes and released claims never leave a task with
\* two attempts KeeperAuthority would still run or is running.
OneOpenAttempt ==
    \A a, b \in Attempts :
        /\ owner[a] = owner[b] /\ owner[a] # NoTask
        /\ authority[a] \in Open /\ authority[b] \in Open
        => a = b

\* The budget holds over all launches together, no retry or repair pays for a task
\* again, and a provider that has run was paid for: its reservation was crossed and
\* never given back.
SpendingIsAccounted ==
    /\ Cardinality(Holding) <= Limit
    /\ \A a, b \in Attempts :
          owner[a] = owner[b] /\ hold[a] # "NONE" /\ hold[b] # "NONE" => a = b
    /\ \A a \in ran : hold[a] \notin {"RESERVED", "RELEASED"}

\* A task is complete only on a completion KeeperAuthority knows, and an
\* independent stage only on a review that ran after that completion.
CompletedIsReviewed ==
    \A k \in Tasks : status[k] = "COMPLETED" =>
        /\ author[k] \in ran /\ authority[author[k]] = "COMPLETED"
        /\ k[2] \in independent =>
              /\ reviewer[k] \in ran /\ authority[reviewer[k]] = "COMPLETED"
              /\ reviewer[k] > author[k]

\* In a cancelled project nothing is in flight or under review, whatever late
\* completions and slow workers still bring.
CanceledIsStill ==
    project = "CANCELED" =>
        \A k \in Tasks : status[k] \notin InFlight \cup {"REVIEW_REQUIRED"}
=============================================================================
