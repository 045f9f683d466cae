---------------------------- MODULE PassBWorkflow ----------------------------
(***************************************************************************)
(* The workflow of Pass B: a plan of steps, the assignments that do and     *)
(* review them, repairs, and completion.                                    *)
(*                                                                         *)
(* A method of keeper/pass_b/repository.py is one transaction and one       *)
(* action.  Who calls it, and in which order, is left open: several         *)
(* coordinators, a desktop, an operator and a restart call all of them, so  *)
(* an action is guarded by what its transaction asks, and by what its       *)
(* callers have read only where that cannot change any more.  How an        *)
(* attempt is launched is told in full by PassBLaunch; here it is one step. *)
(***************************************************************************)
EXTENDS Naturals, FiniteSets

CONSTANTS
    Steps,         \* work items of the plan
    Before,        \* WorkItemRecord.dependencies of each
    Assignments,   \* identities of assignments (uuid4)
    Sessions,      \* identities of provider sessions
    ProviderOf,    \* the provider of each
    None           \* "no work item", "no session", "no review"

\* The work item of the independent review of a producer is named after that
\* producer (uuid5 over its assignment_id).
Items == Steps \cup Assignments

ASSUME WorkflowConstants ==
    /\ Before \in [Steps -> SUBSET Steps]
    /\ Steps # {} /\ Steps \cap Assignments = {}
    /\ None \notin Items \cup Sessions \cup {ProviderOf[x] : x \in Sessions}

VARIABLES
    workflow,      \* WorkflowRecord.state
    item,          \* WorkItemRecord.state, "ABSENT" before the record is inserted
    workItem,      \* AssignmentRecord.work_item_id, None before it is inserted
    repairs,       \* its repair_review_id: the reviewer whose findings it repairs
    session,       \* its session_id
    state,         \* its state
    launch,        \* state of the launch claim of its latest attempt
    evidence,      \* EvidenceBundleRecord.state of its completed attempt
    review,        \* ReviewRecord.state of the review made by a reviewer
    disposition    \* ReviewRecord.disposition

vars == <<workflow, item, workItem, repairs, session, state, launch, evidence,
          review, disposition>>

bindings == <<workItem, repairs, session>>
reviews == <<review, disposition>>

Doubt == {"UNCERTAIN", "UNCERTAIN_CANCELLATION"}
Dispositions == {"ACCEPTED", "REPAIR_REQUIRED"}

TypeOK ==
    /\ workflow \in {"ACTIVE", "COMPLETED"}
    /\ item \in [Items -> {"ABSENT", "READY", "ASSIGNED", "REPAIR_REQUIRED",
                           "COMPLETED"}]
    /\ workItem \in [Assignments -> Items \cup {None}]
    /\ repairs \in [Assignments -> Assignments \cup {None}]
    /\ session \in [Assignments -> Sessions \cup {None}]
    /\ state \in [Assignments ->
          {"ABSENT", "READY", "RUNNING", "WAITING_FOR_USAGE_RESET", "CANCELED",
           "UNCERTAIN", "REVIEW_REQUIRED", "REPAIR_REQUIRED", "COMPLETED"}]
    /\ launch \in [Assignments ->
          Doubt \cup {"NONE", "RUNNING", "COMPLETED", "CANCELED"}]
    /\ evidence \in [Assignments -> {"NONE", "UNTRUSTED", "VALIDATED", "REJECTED"}]
    /\ review \in [Assignments -> Dispositions \cup {"NONE", "PENDING"}]
    /\ disposition \in [Assignments -> Dispositions \cup {"NONE"}]

Init ==
    /\ workflow = "ACTIVE"
    /\ item = [i \in Items |-> IF i \in Steps THEN "READY" ELSE "ABSENT"]
    /\ workItem = [a \in Assignments |-> None]
    /\ repairs = [a \in Assignments |-> None]
    /\ session = [a \in Assignments |-> None]
    /\ state = [a \in Assignments |-> "ABSENT"]
    /\ launch = [a \in Assignments |-> "NONE"]
    /\ evidence = [a \in Assignments |-> "NONE"]
    /\ review = [a \in Assignments |-> "NONE"]
    /\ disposition = [a \in Assignments |-> "NONE"]

-----------------------------------------------------------------------------

\* _validate_workflow_work_item, which every transaction on an item asks.
Bound(i) == workflow = "ACTIVE" /\ item[i] \notin {"ABSENT", "COMPLETED"}

AssignmentsOn(i) == {a \in Assignments : workItem[a] = i}

IsReviewer(a) == workItem[a] \in Assignments

\* review_of_assignment_id of a reviewer.
Producer(v) == workItem[v]

Repaired(v) == \E b \in Assignments : repairs[b] = v

AllCompleted(items) == \A i \in Items : items[i] \in {"ABSENT", "COMPLETED"}

Insert(a, i, v, x) ==
    /\ workItem[a] = None
    /\ workItem' = [workItem EXCEPT ![a] = i]
    /\ repairs' = [repairs EXCEPT ![a] = v]
    /\ session' = [session EXCEPT ![a] = x]
    /\ state' = [state EXCEPT ![a] = "READY"]

-----------------------------------------------------------------------------
(* Assigning                                                                *)

\* insert_work_item_bound, for the review of validated evidence.
InsertReviewItem(p) ==
    /\ workflow = "ACTIVE"
    /\ workItem[p] \in Steps /\ evidence[p] = "VALIDATED"
    /\ item[p] = "ABSENT"
    /\ item' = [item EXCEPT ![p] = "READY"]
    /\ UNCHANGED <<workflow, bindings, state, launch, evidence, reviews>>

\* Mutation of Independent: only the session is excluded, not its provider.
AnotherSession(i, x) == i \in Assignments => x # session[i]

\* excluded_independence_keys of the profile.
Independent(i, x) ==
    i \in Assignments => ProviderOf[x] # ProviderOf[session[i]]

\* Mutation of ClaimPreparedAssignment: any unfinished item is claimed.
ClaimUnfinished(a, i, x) ==
    /\ Bound(i)
    /\ i \in Steps => \A d \in Before[i] : item[d] = "COMPLETED"
    /\ Independent(i, x)
    /\ Insert(a, i, None, x)
    /\ item' = [item EXCEPT ![i] = "ASSIGNED"]
    /\ UNCHANGED <<workflow, launch, evidence, reviews>>

\* The profile was registered and the session selected for an item that was READY;
\* the transaction asks again.
ClaimPreparedAssignment(a, i, x) ==
    /\ Bound(i) /\ item[i] = "READY"
    /\ i \in Steps => \A d \in Before[i] : item[d] = "COMPLETED"
    /\ AssignmentsOn(i) = {}
    /\ Independent(i, x)
    /\ Insert(a, i, None, x)
    /\ item' = [item EXCEPT ![i] = "ASSIGNED"]
    /\ UNCHANGED <<workflow, launch, evidence, reviews>>

\* The repair of what reviewer v found, in the session of the original.
ClaimRepairAssignment(a, v) ==
    LET p == Producer(v) IN
    /\ ~Repaired(v)
    /\ review[v] = "REPAIR_REQUIRED"
    /\ state[p] = "REPAIR_REQUIRED" /\ item[workItem[p]] = "REPAIR_REQUIRED"
    /\ Bound(workItem[p])
    /\ Insert(a, workItem[p], v, session[p])
    /\ UNCHANGED <<workflow, item, launch, evidence, reviews>>

-----------------------------------------------------------------------------
(* Running                                                                  *)

\* Mutation of Launch: the claim of the previous attempt is not looked at.
LaunchReady(a) ==
    /\ state[a] = "READY" /\ Bound(workItem[a])
    /\ IsReviewer(a) => evidence[Producer(a)] = "VALIDATED"
    /\ state' = [state EXCEPT ![a] = "RUNNING"]
    /\ launch' = [launch EXCEPT ![a] = "RUNNING"]
    /\ UNCHANGED <<workflow, item, bindings, evidence, reviews>>

\* run_assignment from the reservation of an attempt to mark_running.  An attempt
\* that ends before it is launched changes nothing here.
Launch(a) ==
    /\ state[a] = "READY" /\ Bound(workItem[a])
    /\ launch[a] \in {"NONE", "CANCELED"}
    /\ IsReviewer(a) => evidence[Producer(a)] = "VALIDATED"
    /\ state' = [state EXCEPT ![a] = "RUNNING"]
    /\ launch' = [launch EXCEPT ![a] = "RUNNING"]
    /\ UNCHANGED <<workflow, item, bindings, evidence, reviews>>

CompleteAttempt(a) ==
    /\ launch[a] = "RUNNING" /\ state[a] = "RUNNING" /\ Bound(workItem[a])
    /\ launch' = [launch EXCEPT ![a] = "COMPLETED"]
    /\ state' = [state EXCEPT ![a] = "REVIEW_REQUIRED"]
    /\ evidence' = [evidence EXCEPT ![a] = "UNTRUSTED"]
    /\ UNCHANGED <<workflow, item, bindings, reviews>>

CompleteCancellation(a) ==
    /\ launch[a] = "RUNNING" /\ state[a] = "RUNNING"
    /\ launch' = [launch EXCEPT ![a] = "CANCELED"]
    /\ state' = [state EXCEPT ![a] = "CANCELED"]
    /\ UNCHANGED <<workflow, item, bindings, evidence, reviews>>

\* Mutation of MarkUncertain: the assignment gets the state of its claim.
\* A restart, a failed Authority reservation or a failed cancellation.
MarkUncertain(a, doubt) ==
    /\ launch[a] = "RUNNING"
    /\ launch' = [launch EXCEPT ![a] = doubt]
    /\ state' = [state EXCEPT ![a] = "UNCERTAIN"]
    /\ UNCHANGED <<workflow, item, bindings, evidence, reviews>>

ReconcileCancellation(a) ==
    /\ launch[a] = "UNCERTAIN_CANCELLATION" /\ state[a] = "UNCERTAIN"
    /\ launch' = [launch EXCEPT ![a] = "CANCELED"]
    /\ state' = [state EXCEPT ![a] = "CANCELED"]
    /\ UNCHANGED <<workflow, item, bindings, evidence, reviews>>

\* reserve_usage_or_pause asks for no state.
PauseForUsage(a) ==
    /\ workItem[a] # None /\ state[a] # "WAITING_FOR_USAGE_RESET"
    /\ state' = [state EXCEPT ![a] = "WAITING_FOR_USAGE_RESET"]
    /\ UNCHANGED <<workflow, item, bindings, launch, evidence, reviews>>

ResumeAfterUsageReset(a) ==
    /\ state[a] = "WAITING_FOR_USAGE_RESET" /\ launch[a] \notin Doubt
    /\ state' = [state EXCEPT ![a] = "READY"]
    /\ UNCHANGED <<workflow, item, bindings, launch, evidence, reviews>>

\* OrchestrationService.validate_evidence, called once, for the bundle the run
\* has just returned.
ValidateEvidence(a, outcome) ==
    /\ evidence[a] = "UNTRUSTED"
    /\ evidence' = [evidence EXCEPT ![a] = outcome]
    /\ UNCHANGED <<workflow, item, bindings, state, launch, reviews>>

-----------------------------------------------------------------------------
(* Reviewing                                                                *)

\* create_review.  Its transaction consumes the references the reviewer was given,
\* which can happen once.
CreateReview(v, said) ==
    LET p == Producer(v) IN
    /\ IsReviewer(v) /\ Bound(workItem[v]) /\ review[v] = "NONE"
    /\ launch[v] = "COMPLETED" /\ session[p] # session[v]
    /\ evidence[p] = "VALIDATED" /\ evidence[v] = "VALIDATED"
    /\ review' = [review EXCEPT ![v] = "PENDING"]
    /\ disposition' = [disposition EXCEPT ![v] = said]
    /\ UNCHANGED <<workflow, item, bindings, state, launch, evidence>>

\* Mutation of Decide: the items of the plan alone are decided, and the workflow
\* is left to reconcile_workflow_completion.
DecideStep(v) ==
    LET p == Producer(v)
        outcome == IF disposition[v] = "ACCEPTED" THEN "COMPLETED"
                                                  ELSE "REPAIR_REQUIRED"
    IN  /\ review' = [review EXCEPT ![v] = disposition[v]]
        /\ item' = [item EXCEPT ![workItem[p]] = outcome, ![p] = "COMPLETED"]
        /\ state' = [state EXCEPT ![p] = outcome, ![v] = "COMPLETED"]
        /\ workflow' = workflow

\* The review, both assignments, both items and, with the last acceptance, the
\* workflow are written together.
Decide(v) ==
    LET p == Producer(v)
        outcome == IF disposition[v] = "ACCEPTED" THEN "COMPLETED"
                                                  ELSE "REPAIR_REQUIRED"
    IN  /\ review' = [review EXCEPT ![v] = disposition[v]]
        /\ item' = [item EXCEPT ![workItem[p]] = outcome, ![p] = "COMPLETED"]
        /\ state' = [state EXCEPT ![p] = outcome, ![v] = "COMPLETED"]
        /\ workflow' = IF disposition[v] = "ACCEPTED" /\ AllCompleted(item')
                         THEN "COMPLETED" ELSE workflow

DecideReview(v) ==
    LET p == Producer(v) IN
    /\ IsReviewer(v) /\ review[v] = "PENDING"
    /\ Bound(workItem[p]) /\ Bound(workItem[v])
    /\ state[p] = "REVIEW_REQUIRED" /\ state[v] = "REVIEW_REQUIRED"
    /\ evidence[p] = "VALIDATED" /\ evidence[v] = "VALIDATED"
    /\ session[p] # session[v]
    /\ Decide(v)
    /\ UNCHANGED <<bindings, launch, evidence, disposition>>

\* Idempotent; refused while an item is incomplete.
ReconcileWorkflowCompletion ==
    /\ AllCompleted(item)
    /\ workflow' = "COMPLETED"
    /\ UNCHANGED <<item, bindings, state, launch, evidence, reviews>>

Next ==
    \/ \E a \in Assignments :
          \/ InsertReviewItem(a)
          \/ \E i \in Items, x \in Sessions : ClaimPreparedAssignment(a, i, x)
          \/ \E v \in Assignments : ClaimRepairAssignment(a, v)
          \/ Launch(a) \/ CompleteAttempt(a) \/ CompleteCancellation(a)
          \/ \E doubt \in Doubt : MarkUncertain(a, doubt)
          \/ ReconcileCancellation(a) \/ PauseForUsage(a)
          \/ ResumeAfterUsageReset(a)
          \/ \E outcome \in {"VALIDATED", "REJECTED"} :
                ValidateEvidence(a, outcome)
          \/ \E said \in Dispositions : CreateReview(a, said)
          \/ DecideReview(a)
    \/ ReconcileWorkflowCompletion

Spec == Init /\ [][Next]_vars

-----------------------------------------------------------------------------
(* Properties                                                               *)

SentBack(p) ==
    \E v \in Assignments : Producer(v) = p /\ review[v] = "REPAIR_REQUIRED"
Accepted(p) ==
    \E v \in Assignments : Producer(v) = p /\ review[v] = "ACCEPTED"

\* Of two assignments on one item, one was reviewed and sent back: repairs form a
\* line, and a review has one reviewer, whoever claims, pauses, cancels or
\* restarts in between (claim_prepared_assignment, claim_repair_assignment).
OneCurrentAssignment ==
    \A a, b \in Assignments :
        a # b /\ workItem[a] # None /\ workItem[a] = workItem[b]
        => SentBack(a) \/ SentBack(b)

\* What a review judged does not change under it: neither assignment runs again,
\* whatever pauses and resumes come later, and its evidence stays validated.
ReviewedWorkStands ==
    \A v \in Assignments : review[v] # "NONE" =>
        \A a \in {v, Producer(v)} :
            launch[a] = "COMPLETED" /\ evidence[a] = "VALIDATED"

\* docs/keeper/PASS_3_WORKFLOW_LIFECYCLE_CHARTER.md:32-34: the workflow is completed
\* exactly when every step is, in the transaction of the last acceptance, and no
\* review item is then open.
CompletionIsExact ==
    /\ workflow = "COMPLETED" <=> \A s \in Steps : item[s] = "COMPLETED"
    /\ workflow = "COMPLETED" => AllCompleted(item)

\* Nothing is left behind by a completed workflow: no attempt in flight or in doubt,
\* no assignment that was never run, no repair without a decision.
NothingLeftOpen ==
    workflow = "COMPLETED" =>
        \A a \in Assignments : workItem[a] # None =>
            /\ launch[a] = "COMPLETED"
            /\ IsReviewer(a) => review[a] \in Dispositions
            /\ ~IsReviewer(a) => Accepted(a) \/ SentBack(a)

\* Who is doing a step, and who accepted it.
Author(s) ==
    IF AssignmentsOn(s) = {} THEN None
    ELSE ProviderOf[session[CHOOSE a \in AssignmentsOn(s) : TRUE]]

Judges(s) ==
    {v \in Assignments : /\ review[v] = "ACCEPTED"
                         /\ Producer(v) \in AssignmentsOn(s)}

Judge(s) ==
    IF Judges(s) = {} THEN None
    ELSE ProviderOf[session[CHOOSE v \in Judges(s) : TRUE]]

Plan == INSTANCE ReviewedPlan WITH
    Providers <- {ProviderOf[x] : x \in Sessions},
    author <- [s \in Steps |-> Author(s)],
    judge <- [s \in Steps |-> Judge(s)],
    finished <- workflow = "COMPLETED"

\* Every behaviour is one of the reviewed plan: steps are begun in the order of
\* their dependencies, by one provider each, and accepted once, by another.
PlanIsReviewed == Plan!Spec
=============================================================================
