--------------------------- MODULE PassBCoordinator ---------------------------
(***************************************************************************)
(* The completion coordinator of Pass B, keeper/pass_b/completion.py: the   *)
(* thread that decides which transaction of PassBWorkflow comes next, for   *)
(* one project that nobody else drives.                                     *)
(*                                                                         *)
(* It keeps nothing between two calls of advance: a call reads the store,   *)
(* takes the first kind of work it finds and carries it out in several      *)
(* transactions.  A call that an exception or a restart interrupts leaves   *)
(* in the store what its transactions wrote, and the next call has nothing  *)
(* else to go by.  A call that refuses before it wrote anything is no step. *)
(***************************************************************************)
EXTENDS PassBWorkflow

CONSTANTS
    Interruptions,  \* bound on the calls that do not end
    Exhaustible     \* whether a usage pool may be exhausted

ASSUME CoordinatorConstants ==
    Interruptions \in Nat /\ Exhaustible \in BOOLEAN

VARIABLES
    at,             \* what the thread does next
    task,           \* the work item it prepares
    mine,           \* the assignment it carries out
    held,           \* assignments with a workspace reservation in force
    granted,        \* assignments with an active usage reservation
    interrupted     \* number of calls that did not end

coordinatorVars == <<vars, at, task, mine, held, granted, interrupted>>

CoordinatorInit ==
    /\ Init
    /\ at = "ADVANCE" /\ task = None /\ mine = None
    /\ held = {} /\ granted = {}
    /\ interrupted = 0

Goto(label) == at' = label /\ UNCHANGED interrupted

-----------------------------------------------------------------------------
(* What a call of advance finds to do                                       *)

\* Reviewers that have run, and producers whose work nobody has judged.
Undecided == {v \in Assignments : IsReviewer(v) /\ state[v] = "REVIEW_REQUIRED"}
Unreviewed ==
    {p \in Assignments : workItem[p] \in Steps /\ state[p] = "REVIEW_REQUIRED"}

\* The original of a repair is not repaired again, whatever became of the repair.
Unrepaired ==
    {p \in Assignments :
        /\ workItem[p] \in Steps /\ state[p] = "REPAIR_REQUIRED"
        /\ \A b \in Assignments : repairs[b] # None => Producer(repairs[b]) # p}

\* _runnable_work_item.  A review item is never reached: while it is READY, its
\* producer is unreviewed and comes first.
Runnable ==
    {s \in Steps : /\ item[s] = "READY" /\ AssignmentsOn(s) = {}
                   /\ \A d \in Before[s] : item[d] = "COMPLETED"}

\* Mutation of Choice: producers are looked at before their reviewers.
ChoiceOfProducers ==
    IF Unreviewed # {} THEN "REVIEW"
    ELSE IF Undecided # {} THEN "DECIDE"
    ELSE IF Unrepaired # {} THEN "REPAIR" ELSE "STAGE"

\* The first kind of work found is taken; an uncertain or waiting assignment stops
\* the whole workflow.
Choice ==
    IF Undecided # {} THEN "DECIDE"
    ELSE IF Unreviewed # {} THEN "REVIEW"
    ELSE IF Unrepaired # {} THEN "REPAIR" ELSE "STAGE"

Advances(kind) ==
    /\ at = "ADVANCE" /\ workflow = "ACTIVE"
    /\ \A a \in Assignments :
          state[a] \notin {"UNCERTAIN", "WAITING_FOR_USAGE_RESET"}
    /\ Choice = kind

\* The next stage of the plan.  register_execution_profile refuses a work item that
\* is not READY.
BeginStage ==
    /\ Advances("STAGE")
    /\ \E s \in Runnable : task' = s
    /\ Goto("PREPARE")
    /\ UNCHANGED <<vars, mine, held, granted>>

\* _run_reviewer up to the profile, which is refused likewise.
BeginReview ==
    /\ Advances("REVIEW")
    /\ \E p \in Unreviewed :
          /\ evidence[p] = "VALIDATED"
          /\ \/ InsertReviewItem(p)
             \/ item[p] = "READY" /\ UNCHANGED vars
          /\ task' = p
    /\ Goto("PREPARE")
    /\ UNCHANGED <<mine, held, granted>>

BeginRepair ==
    /\ Advances("REPAIR")
    /\ \E p \in Unrepaired, v, a \in Assignments :
          Producer(v) = p /\ ClaimRepairAssignment(a, v) /\ mine' = a
    /\ Goto("WORKSPACE")
    /\ UNCHANGED <<task, held, granted>>

\* Mutation of CreateOnce: a review created by an earlier call is not looked for.
CreateAlways(v) == \E said \in Dispositions : CreateReview(v, said)

CreateOnce(v) ==
    \/ \E said \in Dispositions : CreateReview(v, said)
    \/ review[v] = "PENDING" /\ UNCHANGED vars

FinishReview ==
    /\ Advances("DECIDE")
    /\ \E v \in Undecided :
          /\ evidence[v] = "VALIDATED" /\ evidence[Producer(v)] = "VALIDATED"
          /\ CreateOnce(v)
          /\ mine' = v
    /\ Goto("DECIDE")
    /\ UNCHANGED <<task, held, granted>>

-----------------------------------------------------------------------------
(* How it is carried out                                                    *)

\* Mutation of Prepare: the call goes on with the work item it prepared.
Prepare ==
    /\ at = "PREPARE"
    /\ \E a \in Assignments, x \in Sessions :
          ClaimPreparedAssignment(a, task, x) /\ mine' = a
    /\ Goto("WORKSPACE")
    /\ UNCHANGED <<task, held, granted>>

\* Producers share one directory, every review has its own.
Occupied ==
    ~IsReviewer(mine) /\ \E b \in held : b # mine /\ ~IsReviewer(b)

\* A refusal ends the call.
ReserveWorkspace ==
    /\ at = "WORKSPACE"
    /\ IF Occupied THEN Goto("ADVANCE") /\ UNCHANGED held
                   ELSE Goto("USAGE") /\ held' = held \cup {mine}
    /\ UNCHANGED <<vars, task, mine, granted>>

ReserveUsage ==
    /\ at = "USAGE"
    /\ \/ /\ granted' = granted \cup {mine}
          /\ Goto("RUN")
          /\ UNCHANGED vars
       \/ /\ Exhaustible /\ PauseForUsage(mine)
          /\ Goto("ADVANCE")
          /\ UNCHANGED granted
    /\ UNCHANGED <<task, mine, held>>

Run ==
    /\ at = "RUN" /\ mine \in held \cap granted
    /\ Launch(mine)
    /\ Goto("COMPLETE")
    /\ UNCHANGED <<task, mine, held, granted>>

Complete ==
    /\ at = "COMPLETE"
    /\ CompleteAttempt(mine)
    /\ granted' = granted \ {mine}
    /\ Goto("VALIDATE")
    /\ UNCHANGED <<task, mine, held>>

\* A reviewer keeps its workspace until its review is decided.
AfterEvidence ==
    IF IsReviewer(mine) THEN Goto("ADVANCE") ELSE Goto("RELEASE")

Validate ==
    /\ at = "VALIDATE"
    /\ \E outcome \in {"VALIDATED", "REJECTED"} : ValidateEvidence(mine, outcome)
    /\ AfterEvidence
    /\ UNCHANGED <<task, mine, held, granted>>

DecideCreated ==
    /\ at = "DECIDE"
    /\ DecideReview(mine)
    /\ Goto("RELEASE")
    /\ UNCHANGED <<task, mine, held, granted>>

Release ==
    /\ at = "RELEASE"
    /\ held' = held \ {mine}
    /\ Goto("ADVANCE")
    /\ UNCHANGED <<vars, task, mine, granted>>

\* An exception, or the end of the process, between two transactions of a call.
Interrupt ==
    /\ at # "ADVANCE" /\ interrupted < Interruptions
    /\ at' = "ADVANCE"
    /\ interrupted' = interrupted + 1
    /\ UNCHANGED <<vars, task, mine, held, granted>>

\* recover_interrupted_attempts, when the application is started again.
Recover(a) ==
    /\ at # "COMPLETE" /\ MarkUncertain(a, "UNCERTAIN")
    /\ UNCHANGED <<at, task, mine, held, granted, interrupted>>

\* A validated reset of the pool; nobody is told.
Resume(a) ==
    /\ a \in held /\ ResumeAfterUsageReset(a)
    /\ UNCHANGED <<at, task, mine, held, granted, interrupted>>

Coordinate ==
    \/ BeginStage \/ BeginReview \/ BeginRepair \/ FinishReview
    \/ Prepare \/ ReserveWorkspace \/ ReserveUsage \/ Run \/ Complete
    \/ Validate \/ DecideCreated \/ Release

CoordinatorNext ==
    \/ Coordinate \/ Interrupt
    \/ \E a \in Assignments : Recover(a) \/ Resume(a)

\* advance is called again after every call, and the application started again
\* after the last interruption.
CoordinatorSpec ==
    /\ CoordinatorInit /\ [][CoordinatorNext]_coordinatorVars
    /\ WF_coordinatorVars(Coordinate)
    /\ \A a \in Assignments : WF_coordinatorVars(Recover(a))

-----------------------------------------------------------------------------
(* Properties                                                               *)

\* A review whose two bundles are validated is decided, whichever call was
\* interrupted: _finish_review resumes after create_review and is looked for
\* before anything else.
ValidatedIsDecided ==
    \A v \in Assignments :
        (IsReviewer(v) /\ state[v] = "REVIEW_REQUIRED" /\ evidence[v] = "VALIDATED")
        ~> review[v] \in Dispositions

Spent == \A a \in Assignments : workItem[a] # None

\* A person or a provider has to act: a doubt, an exhausted pool, rejected evidence.
AwaitsOthers ==
    \E a \in Assignments :
        \/ state[a] \in {"UNCERTAIN", "WAITING_FOR_USAGE_RESET"}
        \/ evidence[a] = "REJECTED"

\* An assignment that a call prepared or ran, and no call will carry on with.
Abandoned(a) ==
    at = "ADVANCE" /\ (state[a] = "READY" \/ evidence[a] = "UNTRUSTED")

\* After a usage reset an assignment is READY, still has its workspace, and no call
\* will reserve its usage.
Resumed(a) == state[a] = "READY" /\ a \in held \ granted

\* The workflow comes to rest, and only when it is completed, when somebody else
\* has to act, or with an assignment left in mid-stage by an interruption or by a
\* pause (advance, "BLOCKED").  Spent is a bound of the model.
StopsForCause ==
    <>[](\/ workflow = "COMPLETED" \/ Spent \/ AwaitsOthers
         \/ \E a \in Assignments :
               Abandoned(a) /\ (interrupted > 0 \/ Resumed(a)))
=============================================================================
