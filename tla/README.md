# DarkSage / Keeper: a TLA+ verification project

This directory specifies the control logic of Keeper, the engine inside the
DarkSage repository that plans software work, gives it to AI providers, and must
never lose, duplicate or silently approve an execution. The modules are
translated from the source under `src/`; TLC checks them on small instances and
TLAPS proves the most important properties for every instance.

Contents: [inventory](#inventory), [plan](#plan), [modules](#modules),
[runs](#runs), [proofs](#proofs), [disagreements](#disagreements),
[limits](#limits).

## Inventory

The repository holds two programs. `backend/`, `shared/` and `ai/` are the early
phases of a trading assistant: typed models, indicators, scanners, a sequential
backtesting engine. `keeper/` is the larger part and the one with protocol
state. It grew in layers, and every layer persists what it must not forget.

| component | source | state it keeps | operations | talks to |
|---|---|---|---|---|
| Pass B launch protocol | `keeper/pass_b/repository.py`, `orchestration.py`, `authority_reservation.py`, `launch_authority.py` | attempts, launch claims, session slots, authority-reservation phase, uncertainty | prepare, reserve, mark in flight, authorize, claim, launch, run, complete, cancel, reconcile, recover | one SQLite store; KeeperAuthority and a provider adapter, by calls that may raise after they took effect |
| Pass B usage pools | `repository.py`, `usage_authority.py`, `provider_bridge.py` | pool amounts, generation and exhaustion; reservations; checkpoints; observation claims | reserve or pause, consume, observe reset, resume | the launch protocol, an authenticated observer |
| Pass B workspaces and writes | `repository.py`, `workspaces.py` | reservation records and mirrored claim rows, leases | reserve, renew, release, recover stale, mark uncertain | the launch protocol |
| Pass B workflow, review, repair | `orchestration.py`, `repository.py` | work items and their dependencies, evidence, reviews, repair assignments, workflow state | plan, submit, review, decide, repair, complete | the launch protocol |
| Pass B completion coordinator | `completion.py` | none that is durable: it resumes from the store | one stage per `advance` call | all of Pass B; called by a UI thread |
| Pass B conversation, control room, pilot | `conversation*.py`, `control_room.py`, `pilot.py`, `providers.py` | intake dialogue, projections | question, answer, show | Executive, Pass B |
| Executive layer | `keeper/executive/runtime.py`, `repository.py`, `authority_gateway.py`, `planning.py`, `state.py` | projects, tasks, reviews, attempts, budget reservations | progress, reconcile, pause, resume, cancel, revoke | Authority service |
| Executive charters and founder approvals | `keeper/executive/founder_auth.py`, `founder_capability.py`, `charters.py`, `service.py` | charters, challenges, one-time capabilities | create, approve, activate, supersede | Executive layer |
| Authority service | `keeper/authority_service/` | registrations and qualifications, launch authorizations, authority attempts, restore fences, keys | qualify, authorize, reserve, execute, cancel, finalize, pause, fence | clients over a pipe, one thread for each; the provider host over another pipe |
| Provider host | `keeper/provider_host/` | journal of launches, provider binding, replay table, lifecycle state | prepare, bind, launch, acknowledge, cancel, drain, recover | Authority service |
| Database restore | `keeper/app/restore.py`, `restore_runtime.py`, `database_lock.py` | a maintenance record and the identity (epoch, generation) in the database, the lock beside it | back up, authorize, capture, stage, fence, reconcile, merge, replace, recover | every user of the database; the restore fence of KeeperAuthority |
| Keeper application workflow | `keeper/app/workflow.py`, `storage.py`, `service.py` | one JSON record for each run; flags in memory for each live run | start, cancel, pause, resume, approve, retry, recover | the engine of the legacy queue, git, KeeperAuthority, the desktop's thread |
| Legacy task queue | `keeper/task_queue.py`, `state_machine.py`, `orchestrator.py`, `recovery.py`, `workspace.py` | one JSON file per task, lock files, ownership files | create, transition, claim, recover | agents in subprocesses |
| Backtesting engine | `backend/app/backtesting/` | positions, orders, trades of one simulation | step one bar | nothing |
| User interfaces, installers, adapters, scripts | `keeper/ui*`, `authority_service/service_install.py`, `keeper/providers/`, `scripts/` | none of their own | input and output | the components above |

How they interact. The user interface runs `CompletionCoordinator.advance` in a
thread (`ui_qml/controller.py`). A coordinator makes one stage happen: it prepares an
assignment, reserves a workspace and usage, reserves an attempt, asks
KeeperAuthority for a reservation and an authorization, launches the provider, and
records the completion. Between two of these steps nothing is locked. Operators may
run, cancel or reconcile the same assignment from other threads, or from another
process over the same SQLite file. When a `PassBApplication` is created, which may
happen beside live threads of another process, recovery settles every attempt in
flight.

### What is hard, and what makes each component correct

- **Launch.** Concurrency of coordinators, a crash between any two transactions,
  and external calls that take effect and then raise. Correct if an assignment never
  has two executions whose effect may stand; if no slot, workspace or usage
  reservation is leaked or freed while the outcome of an attempt is open; if
  what is uncertain stays uncertain until a person reconciles it.
- **Usage.** Several methods move amounts between `consumed`, `reserved` and
  `remaining`; a reset rewrites them under active reservations. Correct if nothing is
  created or lost, if a checkpoint is used once and only after a reset, and if a
  paused assignment can go on some day.
- **Workspaces.** Every reservation exists twice, as a record and as claim rows.
  Correct if the two agree, and if two writers never hold overlapping paths.
- **Workflow.** Reviews, repairs and completion are separate transactions over the
  same work items. Correct if nothing is complete without an accepted independent
  review, if repairs are bounded, and if a restart continues where the last one
  stopped.
- **Executive.** Several workers progress one project, answers of KeeperAuthority are
  lost, workers die between two writes, and the founder cancels in between. Correct if a
  task never has two attempts that may run, if the budget holds, and if a completed task
  was really run and really reviewed.
- **Authority service.** A request reads, decides and writes in separate transactions, and
  holds a lock over the whole run of a provider. Correct if nothing starts under an
  authorization that was revoked, if what an attempt ended with stands, and if every
  lock is given back.
- **Provider host.** Duplicate and late requests over restarts, and a start that is
  acknowledged by one process and recorded by the other. Correct if the provider of an
  attempt runs at most once and never unrecorded.
- **Keeper application.** A worker and the desktop load, change and store the same record
  without a lock. Correct if nothing is committed, pushed or called complete that was
  not earned, however stores overwrite each other.
- **Restore.** A crash at any step, an authorization that may be older than the database
  it is used on, and a fence of another process that expires. Correct if what was revoked,
  reserved or given back since the backup is not undone, if an authorization fits only the
  database the founder saw, and if an interrupted restore can be recovered.
- **Legacy queue.** Lock files and orphaned claims. Correct if one worker owns a task
  and interrupted tasks are not lost.

`PROJECT.json` lists the hazards line by line, with the properties that cover them.

## Plan

In order of importance; a module marked *done* is in this directory.

1. `PassBLaunch` with the abstract specification `OneShotLaunch` — *done*, checked
   and proved.
2. `PassBUsage`: one pool shared by several assignments, with amounts, generations,
   checkpoints and resets — *done*, checked and proved for every capacity.
3. `PassBWorkspaces`: several reservations of several assignments over a tree of
   paths; agreement of records and claims, exclusion of writers — *done*, checked and
   proved for any tree of paths.
4. `PassBWorkflow`: work items, dependencies, evidence, review decisions, repairs,
   completion, with the abstract specification `ReviewedPlan` — *done*, checked and
   proved for any plan.
5. `PassBCoordinator`: the choice of the next stage over `PassBWorkflow`, and what
   happens to a call that does not end — *done*, checked; shown to implement `PassBWorkflow`.
6. `ProviderHost`: the journal, the worker, the binding and the lifecycle — *done*.
7. `AuthorityService`: qualification, authorization, execution, cancellation and the
   restore fence over `ProviderHost` — *done*, checked and proved for any attempts,
   threads and registrations.
8. `ExecutiveRuntime`: claim, launch, review, reconciliation and budget of one project
   — *done*, checked and proved for any workers, stages and budget.
9. `KeeperRuns`: one run of the Keeper application, with the engine it drives — *done*,
   checked and proved for any number of calls and restarts.
10. `Restore`: backups and restores beside workers and the fence — *done*, checked and
    proved for any attempts, operations and backups.
11. `FounderApproval` (executive): challenges and one-time capabilities.
12. `KeeperTasks`: the command-line queue, its lock files and claims.
13. `Backtest`: order fills and position accounting, as functions checked against a
    reference definition.

## Modules

### PassBLaunch

One module for everything an attempt can meet. A transaction of
`keeper/pass_b/repository.py` (`BEGIN IMMEDIATE`, rolled back on an exception) is one
action and carries the name of its method; reads that are not repeated inside the
transaction are actions of their own, because other threads run in between.

| variable | in the code |
|---|---|
| `assignment` | `AssignmentRecord.state`; `ABSENT` before the record is inserted |
| `attempt` | `AttemptRecord`: state, assignment, `authority_reservation_state` (`phase`), `uncertainty_kind` (`kind`) |
| `claim` | `pass_b_launch_claims.state`, the table with the partial unique index |
| `active` | `ProviderSessionRecord.active_assignments` |
| `workspace`, `leased` | state of the latest workspace reservation of an assignment; whether its lease has not expired |
| `usage` | state of the latest row of `pass_b_usage_reservations` of an assignment |
| `asRead`, `wsRead` | whether the revision captured by a thread, or by the resume checkpoint of an assignment, is still the durable one |
| `runner` | the thread that drives a stage: where it is in `advance` / `run_assignment`, and its local variables |
| `canceller` | the thread inside `cancel_assignment` for an attempt |
| `external` | what KeeperAuthority and the provider did about an attempt |
| `stopped` | attempts on which `adapter.cancel` took effect |

A runner goes through `PickStage` (or `PickReady`), `PrepareAssignment`,
`ReserveWorkspace`, `ReadUsageRows`, then `GrantUsage` or `PauseForUsage`, then
either the prepared path (`ReservePrepared`, `MarkInFlight`,
`RequireReservedOwnership`, `ReserveAuthority`, `MarkAuthorityReserved`,
`Authorize`, `BindAuthorization`) or the direct path (`AuthorizeDirect`,
`ReserveDirect`), and then `ClaimLaunch`, `RequireClaimedOwnership`, `Launch`,
`MarkRunning`, `CompleteAttempt`. `Fail` is an exception inside the `try` block of
`run_assignment`, whose handler is `MarkReservationUncertain` or `SwallowRefusal`;
`Stop` is an exception anywhere else, a refused transaction, or the death of the
process. An external call is one action that takes effect and nondeterministically
returns or raises.

What is abstracted. Revisions only grow, so "the captured revision still matches"
is kept as a set of holders instead of a counter. The usage pool answers yes or no
(amounts are the subject of `PassBUsage`). An assignment has one workspace reservation
at a time, with its write reservations moving along (`PassBWorkspaces` has them all). Checks of digests,
charters, bindings and declarations are refusals that may happen any time, which
`Stop`, `Fail` and `RefuseCancellation` cover. The branch of recovery for attempts
written before sessions were counted (`session_slot_claimed` false) is left out.

### PassBUsage

One pool of known capacity and everything that moves its amounts.

| variable | in the code |
|---|---|
| `pool` | `UsagePoolRecord`: `consumed`, `reserved`, `remaining`, `exhausted`, `observation_generation` (`gen`), whether `reset_at` is set (`resettable`) |
| `usage` | state of the latest row of `pass_b_usage_reservations` of an assignment |
| `state`, `claimed` | `AssignmentRecord.state` and the launch claim, as far as they say who may be launched |
| `checkpoint` | the generation in the `ResumeCheckpointRecord` whose revisions still match the assignment and its workspace |
| `caller` | a thread between the reads of `OrchestrationService.reserve_usage` and its transaction |
| `pausedAt` | history: the generation in which an assignment was paused |

`Total` is the SQL sum over the active rows, a constant operator of which the module
assumes what a sum is (`TotalIsSum`); the TLC instance gives it the fold of the community
modules. Amounts are natural numbers, whereas the code has floats: the clamps at zero and
the comparisons are those of the code, rounding is not modelled. An observation carries
amounts that add up to the capacity, as `_validate_observation` demands.

### PassBWorkspaces

All reservations of several assignments. Each is kept twice: as a record, which
launches and releases read, and as a row of a claim table, which decides who is
excluded.

| variable | in the code |
|---|---|
| `workspace` | `WorkspaceReservationRecord`: `state`, `assignment_id` |
| `wsClaim` | state of its row in `pass_b_workspace_claims` |
| `write` | `WriteReservationRecord`: `state`, `workspace_reservation_id` |
| `writeClaim` | `pass_b_write_claims`, one row for each scope key, replaced by the next reservation of the key |
| `expired` | reservations whose `lease_expires_at` has passed |
| `state`, `launch`, `uses` | `AssignmentRecord.state`, the launch claim of the latest attempt, and its `workspace_reservation_id` |
| `caller` | a thread between two transactions of `CompletionCoordinator._reserve` |

Paths are sequences of their parts, and `Overlap` is `_path_overlap` on them; what is
written on disk and how a path is made canonical is left out. The steps of an attempt are
reduced to those that touch a reservation (`PassBLaunch` has them in full). The lease of
the writes is no shorter than that of their workspace, because both are given eight hours
in this order and are renewed together, so it is not a variable of its own.

### PassBWorkflow

The plan of one workflow and the assignments that do, repair and review its work.

| variable | in the code |
|---|---|
| `workflow`, `item` | `WorkflowRecord.state`; `WorkItemRecord.state` of a step, or of the review of a producer (the review item of producer `a` has the name `a`, as its identifier is a `uuid5` over that of the producer) |
| `workItem`, `session`, `repairs` | the bindings of an assignment: `work_item_id`, `session_id`, and `repair_review_id`, a review being named after its reviewer |
| `state`, `launch` | `AssignmentRecord.state` and the claim of its latest attempt |
| `evidence` | `EvidenceBundleRecord.state` of its completed attempt |
| `review`, `disposition` | `ReviewRecord.state` and `ReviewRecord.disposition` of the review a reviewer made |

An action is one transaction, and nothing says who calls it: coordinators, an operator, the
desktop and a restart may call any of them in any order. So what is shown here holds
whatever the order of the calls is, and does not depend on the coordinator.

What is abstracted. An attempt is launched in one step, and its end is one step: attempts
that end before the provider runs leave no trace here, and `PassBLaunch` has the rest.
Registering a profile and choosing a session are part of `ClaimPreparedAssignment`, whose
transaction checks both again. Digests, charters, references and delivered inputs are
refusals; what they establish in `create_review` (the references of a reviewer are
consumed once) is the guard that a reviewer has no review yet.

### PassBCoordinator

The one thread that drives a project, over the transactions of `PassBWorkflow`: it extends
that module, and each of its steps is one of those transactions, a reservation, or a
choice that writes nothing. So whatever is proved of `PassBWorkflow` holds of it.

| variable | in the code |
|---|---|
| `at`, `task`, `mine` | where the thread is in `advance` and the stage it called; the local `work_item` and `assignment` |
| `held`, `granted` | assignments with a workspace reservation in force, and with an active usage reservation |
| `interrupted` | history: calls that an exception or a restart ended |

A call goes from `BeginStage` or `BeginReview` over `Prepare`, or from `BeginRepair`, to
`ReserveWorkspace`, `ReserveUsage`, `Run`, `Complete`, `Validate` and, unless it is a
review, `Release`; `FinishReview` is followed by `DecideCreated` and `Release`. `Interrupt`
ends it anywhere in between, `Recover` is the next start of the application, `Resume` a
usage reset. The last branch of `advance`, which completes a workflow whose items are all
complete, writes nothing that the last decision has not written (`CompletionIsExact`), and
is left out; so are persons who cancel, reconcile or repair beside the coordinator. Races of
two threads in one stage are the subject of `PassBLaunch`. Plans are chains
(`DynamicWorkflowDesigner.design`), so `run_next_reserved_stage` finds no other candidate
than the assignment just prepared.

### ReviewedPlan

The promise of a workflow in two actions: a step is begun by one provider after the steps
it depends on were accepted, and is accepted once by another; the workflow is completed
with the last acceptance. The refinement mapping reads the author of a step off any
assignment on it, which is well defined only because a repair stays in the session of the
original.

### OneShotLaunch

The promise, in four actions and no threads: a free token holds a job nobody blocks,
is executed once, and is then kept or undone; tokens that were held when something
broke are settled as dropped, only if they were not executed, or as unknown. The
refinement mapping in `PassBLaunch` reads the phase of a token off the state of the
attempt.

### ProviderHost

The per-user process that runs providers for KeeperAuthority.

| variable | in the code |
|---|---|
| `host` | `HostState` of `keeper/provider_host/runtime.py`; states that are left before the host lock is released are not seen |
| `launch` | the journal row of an attempt in `replay_store.py` |
| `worker` | the thread inside `execute`: where it is, for which attempt, and whether it was told to cancel |
| `binding` | the provider binding, a singleton |
| `prepared` | attempts with an environment snapshot nobody has used |
| `lastSequence` | the highest sequence of the replay table |
| `ran` | history: how often the provider of an attempt was resumed |

A launch is taken (`TakeLaunch`) or refused, started suspended, acknowledged by
KeeperAuthority, resumed and journalled; a restart forgets worker and snapshots and makes
every launch in progress `UNCERTAIN`. The status command of `cli.py` is a second runtime
on the same journal. Workspaces are compared for equality where the code compares paths
for overlap.

### AuthorityService

`AuthorityService` extends `ProviderHost`: a step of a request that reaches the host is one
step of both, except where the code writes in two transactions.

| variable | in the code |
|---|---|
| `registration`, `qualification`, `qualifier` | `RegistrationState` and `QualificationState` of a registration; the thread that qualifies it |
| `authorization`, `lapsed` | the launch authorization of each generation; whether its expiry has passed |
| `attempt`, `generation` | `AttemptState` in `authority_service/store.py`; the generation it was reserved under |
| `reserving` | what the thread of `RESERVE_ATTEMPT` has read |
| `thread` | the threads of `EXECUTE_PROVIDER`: where they are in `core.py` and `provider_host_gateway.py`, the state of the attempt they read, their sequence, their result |
| `canceller` | the thread that cancels an attempt |
| `lifecycleLock` | the gateway's lock, held from the launch to the end of the execution |
| `sequence` | the gateway's durable sequence |
| `fence` | the restore fence of the project |

A thread of execution claims the attempt, waits for the host, prepares the environment,
draws a sequence, takes the lock, calls, records the start when the host asks for the
acknowledgement, and records the result or the failure. Revocation, cancellation, pause,
expiry and the fence are other requests and run between any two of these steps. Modelled
are registrations that run through the host; a launch of the host's own setup, providers
KeeperAuthority starts itself, and a reservation that lands after its client gave up are
left out.

### ExecutiveRuntime

| variable | in the code |
|---|---|
| `project`, `approved`, `planned`, `independent` | `ExecutiveState`; whether the charter approval stands; the workflows saved; stages whose review needs another provider |
| `status`, `author`, `reviewer`, `review`, `retries` | `TaskStatus`, `authority_attempt_id`, `review_attempt_id`, the current review record, `retry_count` |
| `drawn`, `owner`, `hold` | attempt identifiers in use, their task, their budget reservation |
| `authority`, `authorized`, `ran` | what KeeperAuthority answers about an attempt; whether the project's launch authorization is active; history: attempts whose provider ran |
| `work` | a caller of `progress`: where it is, its task and attempt, and whether what it read is still the durable record |
| `founder`, `pending` | how far a call of `cancel` or `revoke_delegation` has come |

Every record is written by compare and swap on the record that was read. Instead of
revisions a worker carries two flags: `fresh`, nobody else has written the task it read,
and `same`, nobody else has written the project. A write clears the flags of all other
workers, which is exact because revisions only grow. What `progress` reads before its first
write is one atomic read here. KeeperAuthority appears as one state for each attempt, the
client's view of `AuthorityService`; every call to it may be answered, lost before it took
effect, or lost after. `STOPPED` is the end of a provider by a cancellation or a timeout:
`execute` answers with that completion, and the import leaves the task `CANCELED` or
`FAILED`, while a reconciliation takes it for no completion. The readiness of a task and its
evaluation ask for no approval of the charter; a paid claim does, and both rechecks. A paid
launch reserves budget for the action of the task, which the table holds once for ever, so
`Payable` refuses a task that had a reservation before, released or crossed.

### KeeperRuns

One run of `keeper/app/workflow.py`, with the engine (`orchestrator.py`) it drives.

| variable | in the code |
|---|---|
| `run` | the JSON record in `KeeperStore`: stage, status, `interrupted_from` (`from`), `stopped_from` (`stopped`), `recovery.retry_safe`, `provider_execution_attempts` |
| `task` | `TaskStatus` in the engine's task file |
| `wish` | whether the task asks for an approval, a commit, a push |
| `flags` | `ActiveRun`: cancel, pause, approval, decision |
| `at`, `goal`, `mine`, `copy` | the worker: where it is, the task status it is heading for, its provider run, the record it loaded |
| `desk`, `seen`, `verdict` | the desktop's thread: what it is doing, the record it loaded, what recovery concluded |
| `provider`, `commits`, `pushed` | provider runs that go on; what git did |
| `consent`, `asked` | history: the user approved the completed task; cancelled the run |
| `calls`, `restarts` | counters of the bounds |

Every method of the store is atomic and nothing above it is: a load and the store that
follows it are two steps, in `RunLifecycle.transition` as well, and a store writes the
whole record. Both desktops (`ui_qml/controller.py` refreshes after every operation,
`desktop.py` offers the decisions) are one thread here. Any combination of wishes may be
asked for, and the bound on the desktop's calls is one number for each. The stages from intake to worktree
preparation are one, `preparing`, since nobody can retry them and they call no provider.
What reviews and verifications find is a choice; an exception may be raised by every step
of the worker. Not here: mock and demonstration runs, the termination of processes through
handles retained at the start, reports and evidence, the `approval` field, database errors in the desktop's
thread, and several runs, which share nothing but the desktop.

### Restore

The Executive database as one record (`live`), so that a backup is a copy of it.

| variable | in the code |
|---|---|
| `live`, `saved` | the database and the backup file: recovery epoch, write generation, consumed restore authorizations (`used`), the row of `executive_restore_maintenance`, the project's state, one task with its attempt, one one-time approval and the reservations it paid for (`hold`) |
| `request` | what `RestoreRequest` binds: the artifact, and the identity of the target |
| `restoring` | the process that holds the exclusive lock: where it is in `_restore`, the safety ledger it captured, whether KeeperAuthority knew an attempt |
| `fence` | the Authority fence of each operation; `EXPIRED` is an active one whose two minutes are over |
| `drawn`, `paid`, `returned`, `reserved` | attempts that were claimed, that the approval paid for, those of them it was given back for, those KeeperAuthority has a record of |
| `seen`, `withdrawn` | history: the database when an operation was authorized; whether the founder revoked the approval |

`_restore` is one action for each of its transactions and calls; every one may fail, or the
process may end. Workers are reduced to their transactions on the database, called by
anybody whenever the database admits it, which includes a worker that stalled before a
restore. `ReconcileStaged` lets a restore pass only while KeeperAuthority holds no attempt,
because that is what the code does (see [Disagreements](#disagreements)); what the code
would write about such an attempt is never reached and is not modelled. A worker crosses its
reservation after KeeperAuthority holds the attempt, so no restore meets a crossed one: that
case of `MergedHold` is written down as in the code and never reaches `Replace`, and the
run and the theorem say of a reservation across a restore only that it is kept or stays given
back. The action of the task is reserved once for ever (`Reservable`), so a task whose
reservation was released is claimed without the approval or not at all.

## Runs

The launch, workspace, workflow, coordinator, executive, Keeper and restore runs have `CHECK_DEADLOCK FALSE`: identities of
attempts, reservations and assignments are a finite set here and fresh `uuid4` values in
the code, so an instance stops when they are used up; a workflow also stops by itself when
its assignments wait or are in doubt, until somebody acts, a Keeper run when the
calls of its bound are used up, and a restore run when its operations are.

| run | instance | shows |
|---|---|---|
| `launch_race` | 1 assignment, 2 coordinators, 3 attempts, 2 slots | two coordinators that race through every step, with crashes, recovery beside live threads, cancellation and lease expiry: the safety properties and the refinement of `OneShotLaunch` |
| `launch_slots` | 2 assignments on one session of 2 slots, 1 coordinator, 2 attempts | slots, claims and usage rows stay in step through crashes and cancellations; no attempt stays in flight for ever |
| `usage_pool` | 2 assignments of amounts 1 and 2, 2 threads, capacity 3 | reservations, pauses, completions and resets in any order: the books of the pool, and who may resume when |
| `workspace_claims` | 2 producers, the directory of one inside that of the other, a reviewer of the inner one, 2 threads, 2 workspace and 2 write reservations | records, claims and writes agree; readers share with readers only; an open attempt keeps what it was reserved with, a reviewer with two workspaces included |
| `workflow` | 2 steps in order, 5 assignments, 2 sessions of one provider and 1 of another | repairs form a line, what was reviewed never runs again, the last acceptance completes the workflow in its own transaction and no earlier one does, and the workflow implements `ReviewedPlan` |
| `coordinator_stops` | 2 steps in order, 5 assignments, 2 interruptions, a pool that may be exhausted | the workflow comes to rest only when it is completed, when somebody else has to act, or on an assignment an interruption or a pause left in mid-stage; a review with validated evidence is decided |
| `authority_requests` | 1 attempt of a reviewer, 1 registration, 2 threads of execution, 1 generation | every interleaving of the requests about one attempt, with the host's restarts, refusals and lost answers: claims are authorized, outcomes stand, a fence freezes, the lock is released and cancellations return |
| `authority_launches` | 2 attempts of one registration in one workspace, 2 registrations, 2 threads, 2 generations, constraint `Calm` | two launches through the journal, the sequence and the lock; the binding and the qualification |
| `executive` | 1 stage, 2 workers, budget of 1 launch, 1 retry, 3 attempts | two workers, the founder, lost answers and deaths anywhere: attempts, reservations, completion and cancellation |
| `keeper_runs` | 1 run that asks for approval, commit and push, with 2 calls of the desktop, or for no approval and either of commit and push, with 1 call; 1 restart, 2 identities of provider runs | what is committed, pushed or complete was earned; providers do not work side by side; a run nobody drives is found |
| `keeper_refresh` | the same | a [disagreement](#disagreements) |
| `restore` | 2 attempts, 2 restores, 1 backup besides the empty one | a restore of an older database, twice, between claims, releases and a revocation: the ledger outlives it, an authorization fits one database, and an interruption can be recovered |

Why the bounds are enough. Two coordinators are needed for a race, and a third meets
the same guards: a runner acts on the records of its own attempt only. Three attempts
let one assignment go through a dropped attempt, a cancelled one and another launch, or
two assignments share a session while one of them retries. A limit of two distinguishes a
leaked slot from a full session. Attempts and runners that are used symmetrically are
permuted (`SYMMETRY`) in the runs that check safety only; action properties and the
refinement do not name one of them, so the reduction is sound for them, and the
liveness run has none.

In the workspace runs two reservations are enough for a conflict of a new one with one
in force; a thread that reserves again after a release or a loss uses the second. Paths
of one, two and three parts give equal, parent, child and unrelated ones.

Five assignments are two steps with their reviews and a repair of either. Two steps give a
dependency that is or is not accepted yet, and a last acceptance that is not the first.

Two interruptions let a call that resumes after one be interrupted again, and five
assignments are two steps with their reviews, or one of them repaired once.

Authority requests about one attempt meet each other over that attempt, the lock and the
fence, so one attempt and two threads show their interleavings; a second attempt matters for
the workspace, the sequence and the binding, which `authority_launches` has. Its constraint
`Calm` cuts off states in which nothing can be launched (a fence, a locked or draining
host, a paused attempt, a failed qualification), and qualifies before the first
reservation, all of which `authority_requests` explores without it.

Three attempts are the launch of an author, its repetition after a review, and a reviewer's,
and one retry is the last. Two workers on one task are the race; tasks meet only in the
budget and in the project. With one task the index on its action refuses a second
reservation before the budget does, so the run shows that a task is paid for once; that
the reservations of several tasks stay within the limit is checked with two stages and two
attempts as well (3.6 million states; with three attempts it takes too long for a routine
run), and the theorem `Spending` shows it for any number of tasks.

Two calls of the desktop are enough for a cancel beside a retry, a decision beside a refresh,
and a pause with its resume; the refreshes of a run nobody drives are not counted. An
identity of a provider run is used again when no record, copy or process refers to it; two
of them are a provider that was abandoned and its successor.

Two restores are needed for one that makes the record of the other go away, and two attempts
for an approval that is given back for one while the other is claimed without it, between a
backup and its restore. With two backups the same properties hold (9.0 million states), which takes longer
than a routine run should.

Fairness. `FairSpec` adds weak fairness of `Recover` and of nothing else: threads may
die at any step and never come back, but some day a `PassBApplication` is created and its
constructor runs the recovery (`application.py:105`). A `Recover` that would
change nothing is not a step. `CoordinatorSpec` adds weak fairness of the thread, since
`run_until_blocked` calls `advance` again and the desktop lets the founder start it again,
and of the recovery; nothing is assumed of providers and pools but that a call returns or is
interrupted.

`FairSpec` of `AuthorityService` has weak fairness of each thread that executes, of each
canceller that has begun, and of the end of an execution. The host bounds the run of a
provider with a timeout and the connection to its pipe is bounded. A read of the pipe
(`read_frame` in `provider_host/pipe.py`) has no timeout: it ends with the answer of the
thread that serves it, which is taken to live on, or with the pipe broken when that process
ends. Nothing is assumed of clients. `FairSpec` of `KeeperRuns` has weak fairness of the desktop's steps
while no worker drives the run: the desktop finishes its calls, and some day it is refreshed
or started again. The worker is not assumed to end.

## Proofs

`PassBLaunchProofs` holds for any sets of assignments, coordinators and sessions,
any finite set of attempts, and any positive limits (`LaunchConstants`,
`LaunchFinite`).

The properties of `PassBLaunch` are not inductive: whether `MarkRunning` may follow
depends on what the runner that carries it out knows. `Inv` adds

- `Typed`: a runner past `PickStage` has an assignment, one past the reservation has an
  attempt;
- `Driving`: what the program counter of a runner implies about its attempt. Once past
  `MarkInFlight` the record has left `LOCAL_PREPARED`; once past `ClaimLaunch` it is
  neither `RESERVED` nor `FAILED`, whatever recovery did in between; before `Launch`
  the provider has not been called;
- `Distinct`: no attempt is driven by two runners, since its identity was fresh;
- `History`: what the record of an attempt implies about the outside world;
- `Cancelling`: while a thread cancels an attempt, and ever after its call, the attempt is
  claimed for cancellation, uncertain or cancelled.

`StepTyped`, `StepConsistent`, `StepOneLaunch`, `StepResources` and `StepStopping` show
that each part survives every step, and `Invariance` combines them. What an action writes
is stated once: the lemmas named after an action with `Effect` reduce it to what it does to
the runner, the attempt and the outside world, and the lemmas ending in `Consistent` say of
each kind of write, not of each action, what it leaves true. `StepKinds` divides the actions by what they write, so that later
proofs treat only the actions that matter. The slot count needs cardinalities:
`SlotTaken`, `SlotFreed`, `SlotsKept` and `SlotsRecovered` say how a step changes the
set of holders, and `SlotsCounted` follows. `Refinement` maps each action to a step of
`OneShotLaunch` or a stutter, using `Inv` for the guards of the abstract actions.
`BlockedByOne` and `DroppedUnused` are consequences of the promise alone (`PromiseInv` is an
invariant of `OneShotLaunch`), carried over by the refinement.

`DoneIsFree` assumes `OneCoordinator`, as its property does: with two coordinators one
may reserve usage for an assignment the other has meanwhile completed, or that was
cancelled. Its invariant `Tidy` says what one coordinator may rely on
between reading the usage rows and reserving (`Chosen`): the assignment is still `READY` or
has become uncertain, and no attempt of it can close it. That is not inductive without three facts
about assignments: one is there before its attempts (`Registered`), one that is `READY` or
waits has no attempt beyond `RESERVED` but failed ones (`Unlaunched`), and one is uncertain only with an uncertain attempt (`Doubted`). A grant to an uncertain
assignment is then impossible, since its open attempt holds the usage already
(`OpenOutcomeKeepsResources`).

`PassBUsageProofs` holds for any capacity and amounts, any finite set of assignments and
any threads. Conservation alone is not inductive: `_consume_usage` subtracts the amount of
a row from the record and clamps at zero, so it needs `ReservedIsTotal`, and that
needs what a grant, a consumption and a reset do to the sum of the active rows
(`TotalGranted`, `TotalConsumed`, `TotalKept`). `WaitingPool` and `ResumedAfterReset` need
that no assignment was paused in a generation still to come (`PausedBefore`).

`PassBWorkspacesProofs` holds for any paths, assignments, reservations and threads. A new
reservation is compared with the claims, so `WritersAlone`, which is about the records,
needs `ClaimsMirrorRecords`; that in turn needs `WritesBelong`, because a bulk update
finds writes and claims by different columns. A release asks for the assignment and the
launch claim but not for the reservation, and moves only `ACTIVE` rows: it would part
records from claims if the reservation were uncertain, so the invariant says that what is
uncertain belongs to an attempt in doubt (`UncertainInDoubt`, kept because only
reconciliation ends a doubt, `DoubtStays`). `Steps` divides the actions into those that
leave reservations alone, give one up, take one, or move all of an assignment.

`PassBWorkflowProofs` holds for any plan, assignments and sessions. That a step has one
assignment at a time is not inductive, for a repair is claimed by its review and not by
its step: `Lines` says that of two assignments on a step one was repaired, and that both
are in one session. `ReviewItems` says that a review item has one reviewer, of another
provider, and is completed with its decision; `Judged` that a review is of validated
evidence. `Existing` ties evidence to the completed claim of an attempt, which no action
takes back, and from which `ReviewedWorkStands` follows. `StepStates` says that a step is
completed exactly when it has an accepted assignment, and that then all others were
repaired: so a review still open cannot belong to a completed step. `Reviewed` maps
`ClaimPreparedAssignment` on a step to `Begin`, an accepting `DecideReview` to `Accept`,
and everything else to a stutter.

The last part of `PassBWorkflowProofs` is about `PassBCoordinator`, for any bound on
interruptions. `CoordinatorIsWorkflow` shows that the coordinator implements `PassBWorkflow`,
so the theorems above hold of it. `CoordinatorInv` says what a call knows of the store between its
transactions. `CallsAreCarriedOut` follows: no transaction of a call is refused for what was
written since `advance` chose it, restarts and usage resets included, which is the safety
half of `StopsForCause`. Its hardest case is a call that resumes a review created by an
earlier one: that neither item of it is completed needs that a review item has one reviewer and
a step one line of assignments (`OpenReview`). `ReviewsComeFirst` proves what
`_runnable_work_item` relies on and the definition `Runnable` abstracts: while a review item is
open its producer is in review, so the item is never taken for a stage.

`AuthorityServiceProofs` holds for any attempts, threads, registrations, workspaces and
generations. `IInv` is the conjunction of `Typed` (a thread past `idle` has an attempt it
read as reserved), `HostInv` and four facts that tie the two processes together. `HostInv`
is about the host alone: an attempt that is not on the journal has not run, and one the
worker has not resumed has not either (`Journal`), so it runs once (`RunsAtMostOnce`); and
workspaces are exclusive. It is kept by whatever the service may do to the host:
`HostSteps` shows that every step of the service is a step of the host, a stutter of it, or
the acknowledgement that records the start, and `HostKeepsJournal` then looks at the host
only. `AttemptSteps`, `ReservingSteps` and `AuthorizationSteps` say in the same way how any
step may change an attempt, a reservation and an authorization, so that `ClaimsStayAuthorized`, `FencedStep`,
`OutcomeStep` and `RunRecordedStep` need a few cases and not one for every action.
That a claimed attempt is authorized is not inductive without `Reserved` (an attempt has a
generation from its insertion on) and holds because the revocation withdraws the claims of its
generation; that the run is recorded needs that the worker resumes only what was acknowledged;
`BindingStep` needs that the host never replaces its binding.

`KeeperRunsProofs` holds for any wishes and any provider runs, and for any number of calls
and restarts. Since every store may overwrite another, nothing can rest on the stage that
the record shows. `Inv` has two anchors instead. One is the task file, which only the engine
writes: `Heading` ties it to the place of the worker, and with it COMPLETED is never taken
back (`Lasting`), for the engine refuses to repeat a task that is not FAILED or BLOCKED.
The other is `AllHonest`, which is about every copy of the record, the stale ones included:
one that shows `approval_decision`, or would return to it, was made after the engine had
completed the task, and one that shows COMPLETED after the commit, and the push that goes
with it, were made as asked. Both stay
true while the copy waits to be stored, because what they say of the world is never undone.
`Earned` and `Committed` say what the worker holds at each place before and after the
commit: there is no way from a commit back to the place before it, since a retry begins at
a stage of the engine, which refuses the completed task. `Lone` does the same for the
providers. `StepTyped`, `StepHeading`, `StepEarned`, `StepHonest` and `StepLone` show that
each part survives every step.

`ExecutiveRuntimeProofs` holds for any workers, workflows, stages and attempts, and any budget and
number of retries (`ExecutiveConstants`). A worker writes a task from what it read before, so
`Knows` says what it still knows at each place, with a fresh record or a stale one: the attempt
it drives is its task's, what it is about to reserve is unknown to KeeperAuthority, and what
it is about to execute is paid for. `Alone` says that nobody else launches or reserves that
attempt, `Bindings` what the record of a task and its attempts say about each other and about
KeeperAuthority, and `Answers` that an attempt KeeperAuthority would still run is one its task is
bound to, from which `OneOpen` follows. `TasksTurn` reduces all actions to what they may do to a
task (stay, change by the transition table, be claimed, reviewed, released or reopened) and
`AttemptsTurn` to what they may do to an attempt; `ClosedStays`, `NoReplacement` and
`ParkedStays` are read off them, and so is that no task is paid for twice: a new
reservation is for a task that has had none (`Held`).
One thing the proof brought to light: the spending is accounted only because a worker at
`execute` has crossed its reservation or has none, which a worker whose record is stale keeps
true too, for a crossed reservation is never released.

`RestoreProofs` holds for any attempts and operations and any number of backups. What a restore
makes of the live database depends on the ledger it captured: `Excluding` says that until the
replacement that ledger is still the one of the database, because no transaction commits beside
an active maintenance record or the lock. `Exact` says that neither number of a database identity
goes back, `Expecting` that an active record expects the generation it is in,
`BackupsBehind` that no backup knows more of a reservation than the live database, which a
restore keeps because it merges the ledgers (`Merges`); `Reservations` ties them to the
approval and says that exactly the attempts paid for have a reservation, so that
`Reservable` leaves one at most (`OnePaid`). The records a transaction leaves are named (`Unpaid`, `Under`, `Freed`, `Returned`),
and one lemma for each says which numbers and reservations it touches. The
steps are divided into transactions, writes of the fence and steps of a restore.

Only model-checked: liveness (`EveryAttemptSettles`, `StopsForCause`, `ValidatedIsDecided`,
`LockIsReleased`, `CancellationReturns`, `UnattendedIsRecovered`), which TLAPS does not support
under fairness. Every invariant, action property and refinement that a passing run checks is
also a theorem. The type invariants are proved (`TypeCorrect`); that of `ExecutiveRuntime` is
checked by a run too, since it bounds the retries.

## Disagreements

- `keeper_refresh`: every refresh of the desktop, and the one after every operation, calls
  `recover_runs`, and `recover_interrupted_runs` does not ask whether a worker of this process
  drives a run. It moves a live run to `interrupted`; the worker's next transition is
  refused and the run ends blocked, stopped from `interrupted`, which is no stage a retry
  accepts. `docs/keeper/DESKTOP_UI_CONTRACT_MATRIX.md` calls this refresh read-only.

Behaviour met while modelling that no run states, since a property that fits it would say
what the code does; each is reachable in the model named:

- `ProviderHost`: the status command of the host (`provider_host/cli.py`) constructs a
  runtime on the journal of the running host, whose constructor recovers: a launch whose
  thread is alive becomes `UNCERTAIN` (`StatusCommand`), where `docs/keeper/CODEX_PROVIDER.md`
  gives a restart of the host as the reason.
- `Restore`: once KeeperAuthority holds an attempt of the project every restore is refused.
  `_reconcile_staged` compares `provider_run_id` and `provider_instance_id` of the attempt
  with the record `claim_execution` wrote, which has neither (`AuthorityExecutionPlan` keeps
  them in `reservation_payload` only); the tests write both fields by hand.
  `docs/keeper/RECOVERY.md` describes the reconciliation of such attempts in its step 6.
- `Restore`: `transition_execution`, `release_prelaunch_execution_claim` and the crossing of
  the budget compare the revision of the task and not the attempt. A restore takes revisions
  back, so a worker that stalled before it may go on with the task that is now bound to
  another attempt: its own runs, and the budget of the other one is crossed.
- `Restore`: `recover_restore_fence` asks only whether the fence has expired, so it may be
  lifted between the confirmation and the replacement; and `backup` takes no lock, so it may
  copy an `ACTIVE` maintenance record, which no restore can stage.
- `PassBLaunch`: `reserve_usage_or_pause` pauses the assignment it is given in whatever state
  it is, so with two coordinators the usage reset can make an assignment `READY` whose
  cancellation was reconciled meanwhile. `launch_slots` has one coordinator for that reason.
- `PassBUsage`: the reset time of a pool is removed by the first accepted reset, and
  later observations are refused for want of it; a pool that is exhausted again stays so.
- `PassBWorkspaces`: two threads that advance one review reserve two workspaces, and every
  step that wants the only one is refused until one is released.
- `PassBCoordinator`: a call that ends after it claimed an assignment and before it validated
  the evidence leaves an assignment no later call picks; `StopsForCause` names that cause.
- `ExecutiveRuntime`: a worker that dies between two tasks of a plan leaves a shorter plan,
  with which the project completes; a task whose paid reservation was released, or whose
  paid work was rejected, is refused every other paid claim by the index on its action
  (`Unreserved`); a task that waited for usage is refused a claim ever after
  (`ParkedStays`: only a cancellation moves it);
  a task whose worker died between claim and reservation stays uncertain.
- `KeeperRuns`: a push asked for without a commit is accepted (`app/service.py:370`), passed
  over, since the push is a part of the stage of the commit (`app/workflow.py:960`), and the
  run is stored COMPLETED (`app/workflow.py:1033`). `CompletedIsDelivered` therefore counts a
  push only along with its commit, for any wishes.
- `KeeperRuns`: a store undoes whatever was stored since its load. A cancel or a pause may be
  lost (the run then shows `awaiting_approval`, or waits for a resume that is refused), and a
  crash between `CLOSED` and the last store leaves the status `completed`. A retry after an exception of the
  engine, or after a restart in mid-stage, is always refused by the task file.

## Limits

Not modelled, with the reasons: pure input and output (adapters, installers, user
interfaces, scripts), comparisons of data that unit tests cover (digests of evidence,
charters and receipts), Windows security, numeric code over data frames. These are most of
the lines of the repository, and none of them keeps state two actors share. Everything under
[Plan](#plan) that is not marked as done is planned, not modelled.

The models stand beside each other and are composed where the code shares state: the host
inside the authority service, the coordinator over the workflow. `PassBLaunch`,
`ExecutiveRuntime` and `KeeperRuns` see KeeperAuthority through what a caller can observe of it
(an attempt is reserved once, is executed at most once, and its answer may be lost), which is
what `AuthorityServiceProofs` shows of `AuthorityService`; that they fit together is an argument
of this text and not a checked refinement.
