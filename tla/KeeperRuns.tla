----------------------------- MODULE KeeperRuns -----------------------------
(***************************************************************************)
(* One run of a Keeper task: the worker thread of WorkflowCoordinator drives   *)
(* it through the engine, the consent of the user, the commit and the push;    *)
(* the thread of the desktop cancels, pauses, resumes, approves and retries    *)
(* it, and inspects it for recovery; the process may end at any step.          *)
(*                                                                           *)
(* The run is one JSON object of KeeperStore.  Every method loads it, changes  *)
(* some fields and stores all of it, without a lock over the two and without   *)
(* comparing what it overwrites.  So each thread has a copy here, taken by a    *)
(* step of its own, and a store writes what is derived from the copy.          *)
(***************************************************************************)
EXTENDS Naturals, FiniteSets

CONSTANTS Executions,   \* identities of provider runs; one is reused when nothing refers to it
          Wishes,       \* what tasks ask for: manual approval, a commit, a push
          MaxCalls,     \* for each wish the bound on calls of the desktop, but for a recovery of a
                        \* run nobody drives
          MaxRestarts,  \* bound on restarts of the process
          None

ASSUME KeeperConstants ==
    /\ IsFiniteSet(Executions)
    /\ Wishes \subseteq [approval : BOOLEAN, commit : BOOLEAN, push : BOOLEAN]
    /\ MaxCalls \in [Wishes -> Nat] /\ MaxRestarts \in Nat

Phases == {"BUILDING", "SELF_VERIFYING", "INDEPENDENT_AUDIT", "REPAIRING",
           "POST_REPAIR_REVIEWING", "FINAL_VERIFY"}
WithProvider == Phases \ {"SELF_VERIFYING", "FINAL_VERIFY"}

\* The stages from intake to worktree_preparation are one, "preparing".
StageOf == [g \in Phases |->
    CASE g = "BUILDING" -> "author_execution"
      [] g = "SELF_VERIFYING" -> "author_self_verification"
      [] g = "INDEPENDENT_AUDIT" -> "independent_audit"
      [] g = "REPAIRING" -> "repair_execution"
      [] g = "POST_REPAIR_REVIEWING" -> "post_repair_verification"
      [] g = "FINAL_VERIFY" -> "final_validation"]
Retryable == {StageOf[g] : g \in Phases}
Terminal == {"closed", "cancelled", "blocked"}
Unrepeatable == {"authorized_commit", "authorized_push", "evidence_finalization"}
Stages == Retryable \cup Terminal \cup Unrepeatable
              \cup {"preparing", "approval_decision", "interrupted"}

ASSUME NoneIsNoStage == None \notin Stages

Forward == {<<"preparing", "author_execution">>,
            <<"author_execution", "author_self_verification">>,
            <<"author_self_verification", "independent_audit">>,
            <<"independent_audit", "repair_execution">>,
            <<"independent_audit", "final_validation">>,
            <<"repair_execution", "post_repair_verification">>,
            <<"post_repair_verification", "independent_audit">>,
            <<"final_validation", "approval_decision">>,
            <<"approval_decision", "authorized_commit">>,
            <<"approval_decision", "evidence_finalization">>,
            <<"authorized_commit", "authorized_push">>,
            <<"authorized_commit", "evidence_finalization">>,
            <<"authorized_push", "evidence_finalization">>,
            <<"evidence_finalization", "closed">>}

Live == {"running", "awaiting_approval", "awaiting_push_authorization"}
Finished == {"COMPLETED", "REJECTED", "blocked", "cancelled"}
Statuses == Live \cup Finished \cup {"interrupted", "completed"}

TaskStatuses == (Phases \ {"POST_REPAIR_REVIEWING"})
                    \cup {"READY", "APPROVED", "COMPLETED", "FAILED", "BLOCKED"}
TaskMoves ==
    ({"FAILED", "BLOCKED"} \X (Phases \cup {"READY"}))
    \cup ((Phases \cup {"READY"}) \X {"BLOCKED"})
    \cup (Phases \X {"FAILED"})
    \cup {<<"FAILED", "BLOCKED">>, <<"READY", "BUILDING">>, <<"BUILDING", "SELF_VERIFYING">>,
          <<"SELF_VERIFYING", "INDEPENDENT_AUDIT">>, <<"INDEPENDENT_AUDIT", "REPAIRING">>,
          <<"INDEPENDENT_AUDIT", "FINAL_VERIFY">>, <<"REPAIRING", "FINAL_VERIFY">>,
          <<"FINAL_VERIFY", "APPROVED">>, <<"APPROVED", "COMPLETED">>}

VARIABLES run,       \* the record of the run in the store
          task,      \* status in the engine's task file
          wish,      \* what the task asks for
          flags,     \* the ActiveRun: what the desktop tells the worker
          at,        \* where the worker is; "idle": no thread
          goal,      \* the task status the engine is heading for, or has returned
          mine,      \* the provider run the worker is in
          copy,      \* the record the worker loaded
          desk,      \* what the desktop's thread is doing
          seen,      \* the record the desktop's thread loaded
          verdict,   \* what recovery concluded when it listed the run
          provider,  \* provider runs that are going on
          commits,   \* commits made for the run
          pushed,    \* the commit was pushed
          consent,   \* history: the user approved the completed task
          asked,     \* history: the user cancelled the run
          calls,     \* calls so far of the desktop
          restarts   \* restarts so far

worker == <<at, goal, mine, copy>>
desktop == <<desk, seen, verdict>>
outside == <<provider, commits, pushed>>
history == <<consent, asked, calls, restarts>>
vars == <<run, task, wish, flags, worker, desktop, outside, history>>

NoFlags == [cancel |-> FALSE, pause |-> FALSE, ready |-> FALSE, decision |-> "none"]
NoVerdict == [safe |-> FALSE, ended |-> {}]

Init == /\ run = [stage |-> "preparing", status |-> "running", from |-> None,
                  stopped |-> None, recovery |-> "none",
                  execution |-> [e \in Executions |-> "NONE"]]
        /\ task = "READY"
        /\ wish \in Wishes
        /\ flags = NoFlags
        /\ at = "advance" /\ goal = "READY" /\ mine = None /\ copy = None
        /\ desk = "idle" /\ seen = None /\ verdict = NoVerdict
        /\ provider = {} /\ commits = 0 /\ pushed = FALSE
        /\ consent = FALSE /\ asked = FALSE /\ calls = 0 /\ restarts = 0

-----------------------------------------------------------------------------
(* RunLifecycle, on a record *)

\* RunLifecycle.transition refuses with ValueError.
Allowed(r, target) ==
    CASE r.stage = target -> TRUE
      [] r.stage # target /\ target \in {"interrupted", "cancelled", "blocked"} ->
             r.stage \notin Terminal
      [] r.stage = "interrupted" /\ target \notin {"interrupted", "cancelled", "blocked"} ->
             target = r.from
      [] OTHER -> <<r.stage, target>> \in Forward

Moved(r, target) ==
    [r EXCEPT !.stage = target,
              !.status = CASE target = "closed" -> "completed"
                           [] target \in {"cancelled", "blocked"} -> target
                           [] OTHER -> "running",
              !.from = CASE target = "interrupted" -> r.stage
                         [] target \in {"cancelled", "blocked"} -> r.from
                         [] OTHER -> None,
              !.stopped = IF target \in {"cancelled", "blocked"} THEN r.stage ELSE r.stopped]

\* A transition to the present stage returns without a store.
AfterTransition(r, target) == IF r.stage = target THEN run ELSE Moved(r, target)

\* The stage of a retry, and RunLifecycle.retry_stage.
Selected(r) == IF r.stage = "interrupted" THEN r.from ELSE r.stopped
MayRetry(r) == /\ r.stage \in {"interrupted", "blocked", "cancelled"}
               /\ Selected(r) \in Retryable
               /\ r.recovery # "unsafe"
Retried(r) == [r EXCEPT !.stage = Selected(r), !.status = "running",
                        !.from = None, !.stopped = None]

\* WorkflowCoordinator._add_recovery
WithRecovery(r) ==
    [r EXCEPT !.recovery = IF r.stopped \in Unrepeatable THEN "unsafe" ELSE "safe"]

\* Provider runs the record holds to be going on.
Active(r) == {e \in Executions : r.execution[e] # "NONE"}

-----------------------------------------------------------------------------
(* The worker: one load, or one store and what follows it up to the next load *)

\* Where the worker stores all of a record it changed in fields of no concern
\* here, and where it goes from there.
AfterRewrite ==
    [p \in {"route", "dropRoute", "endRoute", "worktree", "report", "ended", "lastReport",
             "failRoute", "failReport"} |->
        CASE p = "route" -> "routed"
          [] p = "endRoute" -> "returned"
          [] p = "worktree" -> IF wish.approval THEN "await"
                               ELSE IF wish.commit THEN "commit" ELSE "ended"
          [] p = "ended" -> "finalize"
          [] p = "lastReport" -> "close"
          [] p = "failRoute" -> "stop"
          [] OTHER -> "idle"]

\* Where the worker makes a transition: the stage, and what follows.
AfterMove == [p \in {"block", "validate", "reject", "commit", "push", "finalize", "close"} |->
    CASE p = "block" -> <<"blocked", "mend">>
      [] p = "validate" -> <<"approval_decision", "worktree">>
      [] p = "reject" -> <<"blocked", "rejected">>
      [] p = "commit" -> <<"authorized_commit", "committing">>
      [] p = "push" -> <<"authorized_push", "pushing">>
      [] p = "finalize" -> <<"evidence_finalization", "lastReport">>
      [] p = "close" -> <<"closed", "complete">>]

Loading == DOMAIN AfterRewrite \cup DOMAIN AfterMove
               \cup {"advance", "prepare", "hop", "reserve", "own", "finish", "mend", "await",
                     "rejected", "hash", "complete", "stop", "failMend"}

Load == /\ at \in Loading /\ copy = None
        /\ copy' = run
        /\ UNCHANGED <<run, task, wish, flags, at, goal, mine, desktop, outside, history>>

\* The worker goes on; a thread that ends takes its ActiveRun with it.
To(next) == /\ at' = next
            /\ IF next = "idle" THEN flags' = NoFlags /\ goal' = "READY"
               ELSE UNCHANGED <<flags, goal>>

Store(record, next) ==
    /\ copy # None
    /\ run' = record
    /\ copy' = None
    /\ To(next)
    /\ UNCHANGED <<task, wish, mine, desktop, outside, history>>

Go(next) ==
    /\ To(next)
    /\ UNCHANGED <<run, task, wish, mine, copy, desktop, outside, history>>

Rewrite == /\ at \in DOMAIN AfterRewrite
           /\ Store(copy, AfterRewrite[at])

Move == /\ at \in DOMAIN AfterMove /\ copy # None
        /\ at = "validate" => copy.stage = "final_validation"
        /\ Allowed(copy, AfterMove[at][1])
        /\ Store(AfterTransition(copy, AfterMove[at][1]), AfterMove[at][2])

\* The stages up to provider_selection, and worktree_preparation.
Advance == /\ at \in {"advance", "prepare"} /\ copy # None
           /\ copy.stage = "preparing"
           /\ Store(copy, IF at = "advance" THEN "route" ELSE "engine")

Routed == /\ at = "routed"
          /\ Go(IF flags.cancel THEN "dropRoute"
                ELSE IF goal = "READY" THEN "prepare" ELSE "engine")

RepeatsAnyTask == TRUE
RepeatsTask == goal # "READY" => task \in {"FAILED", "BLOCKED"}

\* Keeper.run_task up to its first stage; a task that is not fit is BLOCKED.
StartEngine ==
    /\ at = "engine"
    /\ RepeatsTask
    /\ goal' \in {IF goal = "READY" THEN "BUILDING" ELSE goal, "BLOCKED"}
    /\ at' = "enter"
    /\ UNCHANGED <<run, task, wish, flags, mine, copy, desktop, outside, history>>

\* The second review has no status of its own.
StatusOfGoal == IF goal = "POST_REPAIR_REVIEWING" THEN "REPAIRING" ELSE goal

\* Keeper.set_status up to its call of the observer.
Enter ==
    /\ at = "enter"
    /\ goal # "POST_REPAIR_REVIEWING" => <<task, goal>> \in TaskMoves
    /\ task' = StatusOfGoal
    /\ at' = "observe"
    /\ UNCHANGED <<run, wish, flags, goal, mine, copy, desktop, outside, history>>

\* What follows the observer: set_status and _set_stage call it once each.
AfterObserve ==
    CASE at # "again" /\ goal \in Phases \ {"POST_REPAIR_REVIEWING"} -> "again"
      [] goal \in WithProvider /\ (at = "again" \/ goal = "POST_REPAIR_REVIEWING") -> "reserve"
      [] goal \in Phases \ WithProvider /\ at = "again" -> "judge"
      [] goal = "APPROVED" -> "judge"
      [] goal \in {"COMPLETED", "FAILED", "BLOCKED"} -> "endRoute"

\* The values REVIEWING and FINAL_VERIFYING of _set_stage map to no stage.
Mapped == goal \in IF at = "again" THEN {"BUILDING", "SELF_VERIFYING", "REPAIRING"} ELSE Phases

Proceeds == at \in {"observe", "again"} /\ ~flags.cancel /\ ~flags.pause

ObserveLoad == /\ Proceeds /\ Mapped /\ copy = None
               /\ copy' = run
               /\ UNCHANGED <<run, task, wish, flags, at, goal, mine, desktop, outside, history>>

ObserveNothing == Proceeds /\ ~Mapped /\ Go(AfterObserve)

\* After a repair the observer goes through independent_audit.
Hops == goal = "FINAL_VERIFY" /\ copy.stage = "post_repair_verification" /\ at = "observe"

ObserveHop == /\ at = "observe" /\ copy # None /\ Hops
              /\ Store(Moved(copy, "independent_audit"), "hop")

ObserveStore ==
    /\ at \in {"observe", "again", "hop"} /\ copy # None /\ ~Hops
    /\ Allowed(copy, StageOf[goal])
    /\ Store(AfterTransition(copy, StageOf[goal]), AfterObserve)

\* The event "started" of AgentRunner: KeeperAuthority reserves, the run records.
Unused == {e \in Executions \ provider : \A r \in {run, copy, seen} \ {None} :
                                             r.execution[e] = "NONE"}

Reserve ==
    /\ at = "reserve" /\ copy # None
    /\ Unused # {}
    /\ mine' = CHOOSE e \in Unused : TRUE
    /\ run' = [copy EXCEPT !.execution[mine'] = "RESERVED"]
    /\ copy' = None /\ at' = "call"
    /\ UNCHANGED <<task, wish, flags, goal, desktop, outside, history>>

Call == /\ at = "call"
        /\ provider' = provider \cup {mine}
        /\ at' = "calling"
        /\ UNCHANGED <<run, task, wish, flags, goal, mine, copy, desktop, commits, pushed, history>>

Returned == at = "calling" /\ mine \notin provider /\ Go("own")

\* The process is reported when the provider has run, by _persist_process_ownership.
Own == /\ at = "own" /\ copy # None
       /\ Store([copy EXCEPT !.execution[mine] = IF @ = "RESERVED" THEN "STARTED" ELSE @],
                "finish")

\* The event "finished".
FinishExecution ==
    /\ at = "finish" /\ copy # None
    /\ copy.execution[mine] = "STARTED"
    /\ Store([copy EXCEPT !.execution[mine] = "NONE"], "judge")

\* The status run_task goes to after a stage.
Judged == [g \in Phases \cup {"APPROVED"} |->
    CASE g = "BUILDING" -> {"SELF_VERIFYING", "FAILED"}
      [] g = "SELF_VERIFYING" -> {"INDEPENDENT_AUDIT", "FAILED"}
      [] g = "INDEPENDENT_AUDIT" -> {"REPAIRING", "FINAL_VERIFY", "FAILED", "BLOCKED"}
      [] g = "REPAIRING" -> {"POST_REPAIR_REVIEWING", "BLOCKED"}
      [] g = "POST_REPAIR_REVIEWING" -> {"FINAL_VERIFY", "FAILED", "BLOCKED"}
      [] g = "FINAL_VERIFY" -> {"APPROVED", "FAILED", "BLOCKED"}
      [] g = "APPROVED" -> {"COMPLETED"}]

Judge == /\ at = "judge"
         /\ goal' \in Judged[goal]
         /\ mine' = None
         /\ at' = "enter"
         /\ UNCHANGED <<run, task, wish, flags, copy, desktop, outside, history>>

\* _execute once the engine returned.
AfterEngine == /\ at = "returned"
               /\ Go(IF flags.cancel THEN "idle"
                     ELSE IF goal = "COMPLETED" THEN "validate" ELSE "block")

Mend == /\ at \in {"mend", "failMend"} /\ copy # None
        /\ Store(WithRecovery(copy), IF at = "mend" THEN "report" ELSE "failReport")

Await == /\ at = "await" /\ copy # None
         /\ Store([copy EXCEPT !.status = "awaiting_approval"], "wait")

\* approval.wait
Decided == /\ at = "wait" /\ flags.ready
           /\ Go(IF flags.cancel THEN "idle"
                 ELSE IF flags.decision # "approved" THEN "reject"
                 ELSE IF wish.commit THEN "commit" ELSE "ended")

Rejected == /\ at = "rejected" /\ copy # None
            /\ Store([copy EXCEPT !.status = "REJECTED"], "report")

\* GitSafetyService.commit under an unconsumed authorization; it may raise later.
Commit == /\ at = "committing"
          /\ commits' = commits + 1
          /\ at' \in {IF wish.push THEN "hash" ELSE "ended", "stop"}
          /\ UNCHANGED <<run, task, wish, flags, goal, mine, copy, desktop, provider, pushed, history>>

AwaitPush == /\ at = "hash" /\ copy # None
             /\ Store([copy EXCEPT !.status = "awaiting_push_authorization"], "pushWait")

\* _wait_for_authorization returns; it raises after a minute, or when cancelled.
WithoutPush == {"push", "ended"}
AfterWaiting == {"push"}
PushAuthorized == /\ at = "pushWait" /\ ~flags.cancel
                  /\ \E next \in AfterWaiting : Go(next)

Push == /\ at = "pushing"
        /\ pushed' = TRUE
        /\ at' \in {"ended", "stop"}
        /\ UNCHANGED <<run, task, wish, flags, goal, mine, copy, desktop, provider, commits, history>>

Complete == /\ at = "complete" /\ copy # None
            /\ Store([copy EXCEPT !.status = "COMPLETED"], "idle")

\* The handler of _execute_guarded, after the routing attempt was completed.
Stop == /\ at = "stop" /\ copy # None
        /\ copy.stage # "closed"
        /\ Store(AfterTransition(copy, IF copy.stage = "cancelled" THEN "cancelled" ELSE "blocked"),
                 "failMend")

InEngine == {"engine", "enter", "observe", "again", "hop", "reserve", "call", "calling", "own",
             "finish", "judge"}
InHandler == {"failRoute", "stop", "failMend", "failReport"}
AfterRouting == {"returned", "block", "mend", "report", "validate", "worktree", "await", "wait",
                 "reject", "rejected", "commit", "committing", "hash", "pushWait", "push",
                 "pushing", "ended", "finalize", "lastReport", "close", "complete"}

\* The next call raises.  _execute marks the task of a cancelled engine FAILED.
Raise ==
    /\ at \notin {"idle", "routed", "returned", "wait"}
    /\ at \in {"observe", "again"} /\ copy = None => flags.cancel \/ ~flags.pause
    /\ at' \in CASE at \in InHandler -> {"idle"}
                 [] at \in AfterRouting -> {"stop"}
                 [] at \in {"advance", "route"} -> {"failRoute", "stop"}
                 [] OTHER -> {"failRoute"}
    /\ task' = IF /\ at \in InEngine /\ flags.cancel
                  /\ task \in Phases
               THEN "FAILED" ELSE task
    /\ goal' = "READY" /\ copy' = None /\ mine' = None
    /\ flags' = IF at' = "idle" THEN NoFlags ELSE flags
    /\ UNCHANGED <<run, wish, desktop, outside, history>>

-----------------------------------------------------------------------------
(* The thread of the desktop *)

\* The desktop is called.
Called == calls < MaxCalls[wish] /\ calls' = calls + 1

\* Refused calls and failed transitions leave what was done before them.
DeskStore(desks, record) ==
    /\ desk \in desks /\ seen # None
    /\ run' = record
    /\ seen' = None
    /\ UNCHANGED <<task, wish, worker, outside, history>>

DeskLoad == /\ desk \in {"cancelling", "pausing", "interrupting", "settling"} /\ seen = None
            /\ seen' = run
            /\ UNCHANGED <<run, task, wish, flags, worker, desk, verdict, outside, history>>

\* cancel: the flags, the callbacks of the providers, which may raise; then the transition.
Cancel == /\ desk = "idle" /\ at # "idle"
          /\ flags' = [flags EXCEPT !.cancel = TRUE, !.ready = TRUE]
          /\ desk' \in {"cancelling", "idle"}
          /\ asked' = TRUE
          /\ Called
          /\ UNCHANGED <<run, task, wish, worker, seen, verdict, outside, consent, restarts>>

Pause == /\ desk = "idle" /\ at # "idle" /\ ~flags.pause
         /\ flags' = [flags EXCEPT !.pause = TRUE]
         /\ desk' = "pausing"
         /\ Called
         /\ UNCHANGED <<run, task, wish, worker, seen, verdict, outside, consent, asked, restarts>>

TargetOf == [d \in {"cancelling", "pausing", "interrupting"} |->
                IF d = "cancelling" THEN "cancelled" ELSE "interrupted"]

DeskMove ==
    /\ desk \in DOMAIN TargetOf
    /\ seen # None /\ Allowed(seen, TargetOf[desk])
    /\ DeskStore(DOMAIN TargetOf, AfterTransition(seen, TargetOf[desk]))
    /\ desk' = IF desk = "interrupting" THEN "settling" ELSE "idle"
    /\ UNCHANGED <<flags, verdict>>

DeskRefused ==
    /\ desk \in DOMAIN TargetOf
    /\ seen # None /\ ~Allowed(seen, TargetOf[desk])
    /\ desk' = "idle" /\ seen' = None /\ verdict' = NoVerdict
    /\ UNCHANGED <<run, task, wish, flags, worker, outside, history>>

\* resume: to the recorded stage; the worker goes on when the flag is cleared.
Resume == /\ desk = "idle" /\ at # "idle"
          /\ run.from # None /\ Allowed(run, run.from)
          /\ desk' = "resuming"
          /\ seen' = run
          /\ Called
          /\ UNCHANGED <<run, task, wish, flags, worker, verdict, outside, consent, asked, restarts>>

ResumeStore == /\ DeskStore({"resuming"}, Moved(seen, seen.from))
               /\ flags' = [flags EXCEPT !.pause = FALSE]
               /\ desk' = "idle"
               /\ UNCHANGED verdict

AwaitsAnything == TRUE
AwaitsDecision == run.stage = "approval_decision"

\* approve and reject
Decide(decision) ==
    /\ desk = "idle" /\ at # "idle"
    /\ AwaitsDecision
    /\ flags' = [flags EXCEPT !.decision = decision]
    /\ desk' = "deciding"
    /\ seen' = run
    /\ consent' = (consent \/ (decision = "approved" /\ task = "COMPLETED"))
    /\ Called
    /\ UNCHANGED <<run, task, wish, worker, verdict, outside, asked, restarts>>

DecideStore == /\ DeskStore({"deciding"}, seen)
               /\ flags' = IF at = "idle" THEN flags ELSE [flags EXCEPT !.ready = TRUE]
               /\ desk' = "idle"
               /\ UNCHANGED verdict

\* retry writes the record before it asks whether a worker is still there.
Retry == /\ desk = "idle"
         /\ MayRetry(run)
         /\ desk' = "retrying"
         /\ seen' = run
         /\ Called
         /\ UNCHANGED <<run, task, wish, flags, worker, verdict, outside, consent, asked, restarts>>

RetryStore ==
    /\ desk = "retrying"
    /\ run' = Retried(seen)
    /\ desk' = "starting"
    /\ UNCHANGED <<task, wish, flags, worker, seen, verdict, outside, history>>

RetryStart ==
    /\ desk = "starting"
    /\ IF at # "idle" THEN UNCHANGED <<flags, at, goal>>
       ELSE /\ at' = "route"
            /\ goal' \in {g \in Phases : StageOf[g] = Selected(seen)}
            /\ flags' = NoFlags
    /\ desk' = "idle" /\ seen' = None
    /\ UNCHANGED <<run, task, wish, mine, copy, verdict, outside, history>>

LooksFinished == run.status \in Finished \/ run.stage = "preparing"
IsFinished == run.status \in Finished

(***************************************************************************)
(* recover_interrupted_runs, at the start and with every refresh: what it     *)
(* concludes from the record it listed is stored after two more loads.  An    *)
(* execution is resolved when the provider is known to have ended and        *)
(* KeeperAuthority kept its completion.                                       *)
(***************************************************************************)
List ==
    /\ desk \in {"idle", "startup"}
    /\ ~IsFinished
    /\ \E ended \in {{}, Active(run)} :
          /\ ended # {} => /\ Cardinality(ended) = 1
                           /\ \A e \in ended : run.execution[e] = "STARTED" /\ e \notin provider
          /\ verdict' = [ended |-> ended,
                         safe |-> Active(run) = ended /\ run.stage \notin Unrepeatable]
    /\ desk' = IF run.stage = "interrupted" THEN "settling" ELSE "interrupting"
    /\ IF at = "idle" THEN UNCHANGED calls ELSE Called
    /\ UNCHANGED <<run, task, wish, flags, worker, seen, outside, consent, asked, restarts>>

Settle ==
    /\ DeskStore({"settling"},
                 [seen EXCEPT !.status = "interrupted",
                              !.recovery = IF verdict.safe THEN "safe" ELSE "unsafe",
                              !.execution = [e \in Executions |->
                                  IF e \in verdict.ended THEN "NONE" ELSE seen.execution[e]]])
    /\ desk' = "idle" /\ verdict' = NoVerdict
    /\ UNCHANGED flags

NothingToRecover ==
    /\ desk = "startup" /\ IsFinished
    /\ desk' = "idle"
    /\ UNCHANGED <<run, task, wish, flags, worker, seen, verdict, outside, history>>

-----------------------------------------------------------------------------
(* Outside *)

ProviderEnds(e) ==
    /\ e \in provider
    /\ provider' = provider \ {e}
    /\ UNCHANGED <<run, task, wish, flags, worker, desktop, commits, pushed, history>>

\* The process ends and a new WorkflowCoordinator is constructed; providers go on.
Restart ==
    /\ restarts < MaxRestarts
    /\ restarts' = restarts + 1
    /\ at' = "idle" /\ goal' = "READY" /\ mine' = None /\ copy' = None
    /\ flags' = NoFlags
    /\ desk' = "startup" /\ seen' = None /\ verdict' = NoVerdict
    /\ UNCHANGED <<run, task, wish, outside, consent, asked, calls>>

WorkerStep ==
    \/ Load \/ Rewrite \/ Move \/ Advance \/ Routed \/ StartEngine \/ Enter
    \/ ObserveLoad \/ ObserveNothing \/ ObserveHop \/ ObserveStore
    \/ Reserve \/ Call \/ Returned \/ Own \/ FinishExecution \/ Judge \/ AfterEngine \/ Mend
    \/ Await \/ Decided \/ Rejected \/ Commit \/ AwaitPush \/ PushAuthorized \/ Push
    \/ Complete \/ Stop \/ Raise

\* What the desktop does by itself once it is called, and the recovery.
DeskStep == \/ DeskLoad \/ DeskMove \/ DeskRefused \/ ResumeStore \/ DecideStore
            \/ RetryStore \/ RetryStart \/ List \/ Settle \/ NothingToRecover

User == \/ Cancel \/ Pause \/ Resume \/ Retry
        \/ \E decision \in {"approved", "rejected"} : Decide(decision)

Next == WorkerStep \/ DeskStep \/ User \/ Restart \/ \E e \in Executions : ProviderEnds(e)

Spec == Init /\ [][Next]_vars

\* The desktop finishes what it is called for and some day shows the run again, or
\* is started; nothing is assumed while a worker drives the run.
FairSpec == Spec /\ WF_vars(at = "idle" /\ DeskStep)

-----------------------------------------------------------------------------
(* Properties *)

Records == [stage : Stages, status : Statuses, from : Stages \cup {None},
            stopped : Stages \cup {None}, recovery : {"none", "safe", "unsafe"},
            execution : [Executions -> {"NONE", "RESERVED", "STARTED"}]]

TypeOK ==
    /\ run \in Records /\ task \in TaskStatuses
    /\ copy \in Records \cup {None} /\ seen \in Records \cup {None}
    /\ provider \subseteq Executions /\ mine \in Executions \cup {None}

\* What is committed is a task the engine completed, once, with the consent of the
\* user to that result if the task asks for it; what is pushed was committed.
CommitIsEarned ==
    /\ commits <= 1
    /\ commits = 1 => wish.commit /\ task = "COMPLETED" /\ (wish.approval => consent)
    /\ pushed => commits = 1 /\ wish.push

\* A run is COMPLETED only when the engine completed the task, the user consented,
\* and the commit and its push were made, as asked.  A push is a part of the stage
\* of the commit: asked for without a commit it is passed over, and the run ends
\* COMPLETED.
CompletedIsDelivered ==
    run.status = "COMPLETED" =>
        /\ task = "COMPLETED"
        /\ wish.approval => consent
        /\ wish.commit => commits = 1
        /\ wish.commit /\ wish.push => pushed

\* Two providers work for the run at a time only after the user cancelled it.
ProvidersAlone == Cardinality(provider) > 1 => asked

\* A run nobody drives is interrupted some day, unless it has come to an end.
Unattended == at = "idle" /\ run.status \in Live /\ run.stage \notin Terminal
UnattendedIsRecovered == Unattended ~> ~Unattended

\* docs/keeper/DESKTOP_UI_CONTRACT_MATRIX.md calls the refresh of the recovery view
\* read-only: a run that a worker drives is interrupted by a pause only.
InterruptedIsPaused == at # "idle" /\ run.stage = "interrupted" => flags.pause
=============================================================================
