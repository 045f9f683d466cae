------------------------------- MODULE Restore -------------------------------
(*****************************************************************************)
(* Backup and restore of the Executive database, keeper/app/restore.py,      *)
(* restore_runtime.py and database_lock.py, beside the transactions of       *)
(* workers and the founder and the restore fence of KeeperAuthority.         *)
(*                                                                           *)
(* The database is one record, so that a backup is a copy of it.  Of the     *)
(* executive layer it keeps one task, the attempts at it, and one one-time   *)
(* approval that pays for an attempt; what a worker does between two of its  *)
(* transactions is in ExecutiveRuntime.  Here any worker may call any of     *)
(* them whenever the database lets it: one that stalled before a restore     *)
(* compares a revision, and a restore takes revisions back.                  *)
(*****************************************************************************)
EXTENDS Naturals, FiniteSets

CONSTANTS Attempts,      \* attempt identifiers, drawn once each
          Operations,    \* restore operation identifiers, drawn once each
          None,
          Backups        \* bound on the backups taken

ASSUME RestoreConstants ==
    /\ None \notin Operations \cup Attempts
    /\ Backups \in Nat

VARIABLES live,        \* the live database
          saved,       \* the backup file
          backups,     \* number of backups taken
          request,     \* what each operation's authorization binds
          restoring,   \* the restore that holds the exclusive lock
          seen,        \* the live database when each operation was authorized
          fence,       \* the Authority fence of each operation
          drawn,       \* attempts that were ever claimed
          paid,        \* those the approval was consumed for
          returned,    \* those of them it was given back for
          withdrawn,   \* whether the founder revoked the approval
          reserved     \* attempts KeeperAuthority has a record of

workerVars == <<drawn, paid, returned>>
history == <<workerVars, withdrawn, reserved>>
restoreVars == <<request, restoring, seen>>
backupVars == <<saved, backups>>
vars == <<live, backupVars, restoreVars, fence, history>>

NoRequest == [artifact |-> None, epoch |-> 0, generation |-> 0]
NotRestoring == [op |-> None, step |-> "none", ledger |-> None, clean |-> TRUE]

Created ==
    [epoch |-> 0, generation |-> 0, used |-> {},
     maintenance |-> [op |-> None, state |-> "NONE", expected |-> 0],
     project |-> "EXECUTING", status |-> "READY", author |-> None,
     consumed |-> FALSE, revoked |-> FALSE, hold |-> [a \in Attempts |-> "NONE"]]

\* All of a database but the record of restores in progress.
Contents(db) == [db EXCEPT !.maintenance = None]

Init ==
    /\ live = Created
    /\ saved = Created /\ backups = 0
    /\ request = [o \in Operations |-> NoRequest]
    /\ restoring = NotRestoring
    /\ seen = [o \in Operations |-> Contents(Created)]
    /\ fence = [o \in Operations |-> "NONE"]
    /\ drawn = {} /\ paid = {} /\ returned = {} /\ withdrawn = FALSE /\ reserved = {}

-----------------------------------------------------------------------------
(* Transactions of the database                                             *)

\* Mutation of Writable: an ACTIVE maintenance record does not refuse a writer.
WritableUnlocked == restoring.op = None

\* KeeperStore.connect: the shared lock, and no restore in progress or interrupted.
Writable == restoring.op = None /\ live.maintenance.state # "ACTIVE"

\* A transaction that changes anything advances the write generation.
Commit(db) ==
    /\ Writable
    /\ live' = [db EXCEPT !.generation = @ + 1]
    /\ UNCHANGED <<backupVars, restoreVars, fence>>

\* The action of a spending launch is named after the task, and a reservation is
\* never deleted: the index on the action refuses the task a second one.
Reservable == \A b \in Attempts : live.hold[b] = "NONE"

\* claim_execution, under the approval or without.
Claim(a) ==
    /\ a \notin drawn
    /\ live.project = "EXECUTING" /\ live.status = "READY" /\ live.author = None
    /\ \/ Commit([live EXCEPT !.status = "LAUNCH_CLAIMED", !.author = a])
          /\ UNCHANGED paid
       \/ /\ ~live.consumed /\ ~live.revoked /\ Reservable
          /\ Commit([live EXCEPT !.status = "LAUNCH_CLAIMED", !.author = a,
                                 !.consumed = TRUE, !.hold[a] = "RESERVED"])
          /\ paid' = paid \cup {a}
    /\ drawn' = drawn \cup {a}
    /\ UNCHANGED <<returned, withdrawn, reserved>>

\* transition_execution out of the claim: "STARTED" is every status after it.
TransitionExecution ==
    /\ live.status = "LAUNCH_CLAIMED"
    /\ Commit([live EXCEPT !.status = "STARTED"])
    /\ UNCHANGED history

\* Worker a has reserved its attempt; the boundary it crosses is that of the
\* attempt the task is bound to by now.
MarkBudgetBoundary(a) ==
    /\ a \in reserved
    /\ live.status = "STARTED" /\ live.hold[live.author] = "RESERVED"
    /\ Commit([live EXCEPT !.hold[live.author] = "CROSSED"])
    /\ UNCHANGED history

\* release_prelaunch_execution_claim gives the approval back, for whatever else it
\* is good for.
ReleaseClaim ==
    /\ live.status = "LAUNCH_CLAIMED"
    /\ LET freed == [live EXCEPT !.status = "READY", !.author = None]
       IN IF live.author \in paid
            THEN /\ live.hold[live.author] = "RESERVED" /\ live.consumed
                 /\ Commit([freed EXCEPT !.consumed = FALSE,
                                          !.hold[live.author] = "RELEASED"])
                 /\ returned' = returned \cup {live.author}
            ELSE Commit(freed) /\ UNCHANGED returned
    /\ UNCHANGED <<drawn, paid, withdrawn, reserved>>

Resume ==
    /\ live.project = "PAUSED"
    /\ Commit([live EXCEPT !.project = "EXECUTING"])
    /\ UNCHANGED history

RevokeApproval ==
    /\ ~live.revoked
    /\ Commit([live EXCEPT !.revoked = TRUE])
    /\ withdrawn' = TRUE
    /\ UNCHANGED <<workerVars, reserved>>

-----------------------------------------------------------------------------
(* KeeperAuthority                                                          *)

\* A fence refuses whatever would change an attempt, also after it has expired.
Fenced == \E o \in Operations : fence[o] \in {"ACTIVE", "EXPIRED"}

\* A worker may ask for its attempt long after it claimed it.
ReserveAttempt(a) ==
    /\ a \in drawn \ reserved
    /\ ~Fenced
    /\ reserved' = reserved \cup {a}
    /\ UNCHANGED <<live, backupVars, restoreVars, fence, workerVars, withdrawn>>

-----------------------------------------------------------------------------
(* Backups and authorizations                                               *)

\* KeeperStore.backup takes no lock and asks for no maintenance.
Backup ==
    /\ backups < Backups
    /\ saved' = live
    /\ backups' = backups + 1
    /\ UNCHANGED <<live, restoreVars, fence, history>>

\* build_restore_request copies the backup and binds the identity of the target.
\* That an authorization lapses only keeps a restore from beginning.
Authorize(o) ==
    /\ request[o] = NoRequest
    /\ request' = [request EXCEPT ![o] =
                     [artifact |-> saved, epoch |-> live.epoch,
                      generation |-> live.generation]]
    /\ seen' = [seen EXCEPT ![o] = Contents(live)]
    /\ UNCHANGED <<live, backupVars, restoring, fence, history>>

-----------------------------------------------------------------------------
(* _restore                                                                 *)

\* _validate_target_identity
Current(o) ==
    request[o].epoch = live.epoch /\ request[o].generation = live.generation

Step(step) == restoring' = [restoring EXCEPT !.step = step]

\* Under the exclusive lock; the safety ledger is captured in this transaction.
Enter(o) ==
    /\ restoring.op = None /\ request[o] # NoRequest
    /\ Current(o)
    /\ o \notin live.used
    /\ live.maintenance.state # "ACTIVE"
    /\ live' = [live EXCEPT !.maintenance =
                  [op |-> o, state |-> "ACTIVE", expected |-> request[o].generation]]
    /\ restoring' = [op |-> o, step |-> "stage", clean |-> TRUE,
                     ledger |-> [consumed |-> live.consumed, revoked |-> live.revoked,
                                 hold |-> live.hold]]
    /\ UNCHANGED <<request, seen, backupVars, fence, history>>

\* migrate opens the staged copy as any database is opened.
Stage ==
    /\ restoring.step = "stage"
    /\ request[restoring.op].artifact.maintenance.state # "ACTIVE"
    /\ Step("begin")
    /\ UNCHANGED <<live, request, seen, backupVars, fence, history>>

\* begin_restore_fence: the identifier of a fence is the operation's.  Without the
\* answer the restore fails and does not know the fence.
BeginFence ==
    /\ restoring.step = "begin"
    /\ ~Fenced /\ fence[restoring.op] = "NONE"
    /\ fence' = [fence EXCEPT ![restoring.op] = "ACTIVE"]
    /\ \/ restoring' = [restoring EXCEPT
                          !.step = "reconcile",
                          !.clean = reserved = {}]
       \/ Step("failed")
    /\ UNCHANGED <<live, request, seen, backupVars, history>>

\* _reconcile_staged compares provider_run_id and provider_instance_id of every
\* attempt of KeeperAuthority with the Executive's attempt.  claim_execution records
\* neither of them, and no record under the identifier of a completion or a review:
\* the comparison refuses every attempt, and what follows it is never reached.
ReconcileStaged ==
    /\ restoring.step = "reconcile"
    /\ restoring.clean
    /\ Step("confirm")
    /\ UNCHANGED <<live, request, seen, backupVars, fence, history>>

\* confirm_restore_fence: nothing has changed since the fence was begun.
Confirm ==
    /\ restoring.step = "confirm"
    /\ fence[restoring.op] = "ACTIVE"
    /\ reserved = {}
    /\ Step("replace")
    /\ UNCHANGED <<live, request, seen, backupVars, fence, history>>

\* Mutation of MergedHold: the reservation of the backup stands.
RestoredHold(staged, ledger, a) ==
    IF staged.hold[a] = "NONE" THEN ledger.hold[a] ELSE staged.hold[a]

\* _merge_budget_safety.  What is CROSSED never gets as far as Replace: a boundary is
\* crossed after KeeperAuthority has the attempt, and then every restore is refused.
MergedHold(staged, ledger, a) ==
    IF "CROSSED" \in {staged.hold[a], ledger.hold[a]} THEN "CROSSED"
    ELSE IF ledger.hold[a] = "NONE" THEN staged.hold[a] ELSE ledger.hold[a]

\* _merge_live_safety_ledger
Merged(staged, ledger) ==
    [staged EXCEPT !.consumed = @ \/ ledger.consumed,
                   !.revoked = @ \/ ledger.revoked,
                   !.hold = [a \in Attempts |-> MergedHold(staged, ledger, a)]]

\* Mutation of Advanced: the restored database keeps the identity of the backup.
AdvancedNot(db, o) == db

\* The target's identity, one epoch and one generation on.
Advanced(db, o) ==
    [db EXCEPT !.epoch = request[o].epoch + 1,
               !.generation = request[o].generation + 1]

\* What the last transaction makes of the staged database.
Restored(o) ==
    [Advanced(Merged(request[o].artifact, restoring.ledger), o) EXCEPT
        !.project = "PAUSED",
        !.used = @ \cup {o},
        !.maintenance = [op |-> o, state |-> "COMPLETED",
                         expected |-> request[o].generation]]

\* _validate_live_boundary
Boundary(o) ==
    Current(o) /\ live.maintenance = [op |-> o, state |-> "ACTIVE",
                                      expected |-> request[o].generation]

\* The copy into the live database is one transaction of SQLite.
Replace ==
    /\ restoring.step = "replace"
    /\ Boundary(restoring.op)
    /\ live' = Restored(restoring.op)
    /\ Step("complete")
    /\ UNCHANGED <<request, seen, backupVars, fence, history>>

\* After the replacement an expired fence is left as it is, and one whose completion
\* is lost as well.
Complete ==
    /\ restoring.step = "complete"
    /\ \/ UNCHANGED fence
       \/ /\ fence[restoring.op] = "ACTIVE"
          /\ fence' = [fence EXCEPT ![restoring.op] = "CLOSED"]
    /\ restoring' = NotRestoring
    /\ UNCHANGED <<live, request, seen, backupVars, history>>

\* Any step may fail; a fence whose answer arrived is aborted first.
Fail ==
    /\ restoring.step \in {"stage", "begin", "reconcile", "confirm", "replace"}
    /\ Step(IF restoring.step \in {"stage", "begin"} THEN "failed" ELSE "abort")
    /\ UNCHANGED <<live, request, seen, backupVars, fence, history>>

\* The request may be refused or lost: the fence then stays.
AbortFence ==
    /\ restoring.step = "abort"
    /\ \/ UNCHANGED fence
       \/ /\ fence[restoring.op] \in {"ACTIVE", "EXPIRED"}
          /\ fence' = [fence EXCEPT ![restoring.op] = "CLOSED"]
    /\ Step("failed")
    /\ UNCHANGED <<live, request, seen, backupVars, history>>

Failed(db, o) ==
    IF db.maintenance.op = o /\ db.maintenance.state = "ACTIVE"
      THEN [db EXCEPT !.maintenance.state = "FAILED"] ELSE db

\* _mark_restore_failed
MarkFailed ==
    /\ restoring.step = "failed"
    /\ live' = Failed(live, restoring.op)
    /\ restoring' = NotRestoring
    /\ UNCHANGED <<request, seen, backupVars, fence, history>>

\* The process of the restore ends and its lock with it.
Crash ==
    /\ restoring.op # None
    /\ restoring' = NotRestoring
    /\ UNCHANGED <<live, request, seen, backupVars, fence, history>>

-----------------------------------------------------------------------------
(* Recovery                                                                 *)

\* recover_stale_restore accepts the interrupted operation o.
Recoverable(o) ==
    /\ live.maintenance.op = o /\ live.maintenance.state = "ACTIVE"
    /\ live.maintenance.expected = live.generation

RecoverStaleRestore(o) ==
    /\ restoring.op = None
    /\ Recoverable(o)
    /\ live' = Failed(live, o)
    /\ UNCHANGED <<restoreVars, backupVars, fence, history>>

\* Two minutes after it was begun.
Expire(o) ==
    /\ fence[o] = "ACTIVE"
    /\ fence' = [fence EXCEPT ![o] = "EXPIRED"]
    /\ UNCHANGED <<live, backupVars, restoreVars, history>>

\* recover_restore_fence asks for the expiry, not for the restore.
RecoverFence(o) ==
    /\ fence[o] = "EXPIRED"
    /\ fence' = [fence EXCEPT ![o] = "CLOSED"]
    /\ UNCHANGED <<live, backupVars, restoreVars, history>>

Next ==
    \/ \E a \in Attempts : Claim(a) \/ MarkBudgetBoundary(a) \/ ReserveAttempt(a)
    \/ TransitionExecution \/ ReleaseClaim \/ Resume \/ RevokeApproval \/ Backup
    \/ \E o \in Operations :
          Authorize(o) \/ Enter(o) \/ RecoverStaleRestore(o) \/ Expire(o) \/ RecoverFence(o)
    \/ Stage \/ BeginFence \/ ReconcileStaged \/ Confirm \/ Replace \/ Complete
    \/ Fail \/ AbortFence \/ MarkFailed \/ Crash

Spec == Init /\ [][Next]_vars

-----------------------------------------------------------------------------
(* Properties                                                               *)

\* An authorization whose target identity is accepted is for the database the founder
\* saw, whatever was written, restored or interrupted since: no two databases share an
\* epoch and a generation, so none replaces what was written after it was given, and
\* none is good for a second restore.
AuthorizationIsExact ==
    \A o \in Operations :
        request[o] # NoRequest /\ Current(o) => Contents(live) = seen[o]

\* An interrupted restore leaves a database that recover_stale_restore accepts: no
\* writer gets between the maintenance record and the generation it expects.
InterruptedIsRecoverable ==
    restoring.op = None /\ live.maintenance.state = "ACTIVE"
    => \E o \in Operations : Recoverable(o)

Held == {a \in Attempts : live.hold[a] \in {"RESERVED", "CROSSED"}}

\* What was revoked, reserved or given back since a backup was taken outlives the
\* restore of that backup, and of any other after it: the approval stays revoked, no
\* reservation is forgotten, none that was given back is held again, and so the
\* action, which is paid for at most once, is not paid for again by a task that a
\* restore made READY, nor is its reservation held while the approval is free.
LedgerOutlivesBackups ==
    /\ withdrawn => live.revoked
    /\ \A a \in paid : live.hold[a] # "NONE"
    /\ \A a \in returned : live.hold[a] = "RELEASED"
    /\ Cardinality(paid) <= 1
    /\ Held # {} => live.consumed
=============================================================================
