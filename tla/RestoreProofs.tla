---------------------------- MODULE RestoreProofs ----------------------------
(*****************************************************************************)
(* Proofs about backup and restore, for any attempts, operations and number  *)
(* of backups.  The properties of Restore are not inductive: what a restore  *)
(* makes of the live database depends on the ledger it captured and on the   *)
(* backup it was authorized for.  Excluding says that nobody writes between  *)
(* the capture and the replacement, BackupsBehind that no backup knows more  *)
(* of a reservation than the live database does.                             *)
(*****************************************************************************)
EXTENDS Restore, FiniteSetTheorems, TLAPS

-----------------------------------------------------------------------------
(* The inductive invariant                                                  *)

HoldState == {"NONE", "RESERVED", "CROSSED", "RELEASED"}
Ledger == [consumed : BOOLEAN, revoked : BOOLEAN, hold : [Attempts -> HoldState]]

Fields ==
    [epoch : Nat, generation : Nat, used : SUBSET Operations,
     maintenance : [op : Operations \cup {None},
                    state : {"NONE", "ACTIVE", "COMPLETED", "FAILED"}, expected : Nat],
     project : {"EXECUTING", "PAUSED"}, status : {"READY", "LAUNCH_CLAIMED", "STARTED"},
     author : Attempts \cup {None},
     consumed : BOOLEAN, revoked : BOOLEAN, hold : [Attempts -> HoldState]]

\* A task out of READY is bound to an attempt.
Database == {db \in Fields : db.status # "READY" => db.author \in Attempts}

\* The steps that take the ledger the restore captured for that of the database.
Replacing == {"stage", "begin", "reconcile", "confirm", "replace"}

Steps == Replacing \cup {"none", "complete", "abort", "failed"}

RequestsTyped ==
    /\ \A o \in Operations : request[o] # NoRequest => request[o].artifact \in Database
    /\ request \in [Operations -> [artifact : Database \cup {None}, epoch : Nat,
                                   generation : Nat]]
    /\ seen = [o \in Operations |-> seen[o]]

RestoringTyped ==
    restoring \in [op : Operations \cup {None}, step : Steps,
                   ledger : Ledger \cup {None}, clean : BOOLEAN]

TypeOK ==
    /\ live \in Database
    /\ saved \in Database /\ backups \in Nat
    /\ RequestsTyped /\ RestoringTyped
    /\ fence \in [Operations -> {"NONE", "ACTIVE", "EXPIRED", "CLOSED"}]
    /\ drawn \subseteq Attempts /\ paid \subseteq drawn /\ reserved \subseteq drawn
    /\ returned \subseteq paid /\ withdrawn \in BOOLEAN

\* While a restore may still replace the database, the ledger it captured is that of
\* the database, and its operation is authorized.
Excluding ==
    /\ restoring.op = None <=> restoring.step = "none"
    /\ restoring.step \in Replacing =>
          /\ request[restoring.op] # NoRequest
          /\ restoring.ledger = [consumed |-> live.consumed, revoked |-> live.revoked,
                                 hold |-> live.hold]

\* Neither number of an identity ever goes back, and one that is still current was
\* bound to these contents.
Exact ==
    \A o \in Operations : request[o] # NoRequest =>
        /\ request[o].epoch <= live.epoch /\ request[o].generation <= live.generation
        /\ Current(o) => Contents(live) = seen[o]

\* An active maintenance record expects the generation of its database.
Expecting ==
    live.maintenance.state = "ACTIVE" =>
        /\ live.maintenance.op \in Operations
        /\ live.maintenance.expected = live.generation

\* The live database has every reservation db has, and every crossing.
Behind(db) ==
    \A a \in Attempts :
        /\ db.hold[a] # "NONE" => live.hold[a] # "NONE"
        /\ db.hold[a] = "CROSSED" => live.hold[a] = "CROSSED"

BackupsBehind ==
    /\ Behind(saved)
    /\ \A o \in Operations : request[o] # NoRequest => Behind(request[o].artifact)

\* The reservations are those of the launches the approval was consumed for, of which
\* there is one at most, and where it was given back the reservation is RELEASED.
Reservations ==
    /\ withdrawn => live.revoked
    /\ \A a \in Attempts : a \in paid <=> live.hold[a] # "NONE"
    /\ \A a \in returned : live.hold[a] = "RELEASED"
    /\ \A a, b \in paid : a = b
    /\ Held # {} => live.consumed

Inv == TypeOK /\ Excluding /\ Exact /\ Expecting /\ BackupsBehind /\ Reservations

-----------------------------------------------------------------------------
(* What a transaction and a replacement write                               *)

\* A transaction writes what it computed and advances the generation.
LEMMA Committed ==
  ASSUME NEW db \in Database, Commit(db)
  PROVE  /\ live' \in Database
         /\ live'.generation = db.generation + 1
         /\ live'.epoch = db.epoch /\ live'.maintenance = db.maintenance
         /\ live'.consumed = db.consumed /\ live'.revoked = db.revoked
         /\ live'.hold = db.hold
         /\ restoring.op = None /\ live.maintenance.state # "ACTIVE"
         /\ UNCHANGED <<backupVars, restoreVars, fence>>
  BY DEF Commit, Writable, Database, Fields

\* A transaction of a worker or of the founder: the identity of the database and
\* the maintenance record are not its business.
Transaction ==
    \E db \in Database :
        /\ Commit(db)
        /\ db.epoch = live.epoch /\ db.generation = live.generation
        /\ db.maintenance = live.maintenance

\* The steps of a restore and of its recovery.
RestoreStep ==
    \/ \E o \in Operations : Enter(o) \/ RecoverStaleRestore(o)
    \/ Stage \/ BeginFence \/ ReconcileStaged \/ Confirm \/ Replace \/ Complete
    \/ Fail \/ AbortFence \/ MarkFailed \/ Crash

\* A database that differs from the live one in what workers write only.
SameIdentity(db) ==
    /\ db \in Database
    /\ db.epoch = live.epoch /\ db.generation = live.generation
    /\ db.maintenance = live.maintenance

\* What claim_execution writes without the approval, and under it.
Unpaid(a) == [live EXCEPT !.status = "LAUNCH_CLAIMED", !.author = a]

Under(a) == [live EXCEPT !.status = "LAUNCH_CLAIMED", !.author = a,
                         !.consumed = TRUE, !.hold[a] = "RESERVED"]

\* What the release of a claim writes, without a reservation to give back and with one.
Freed == [live EXCEPT !.status = "READY", !.author = None]

Returned == [Freed EXCEPT !.consumed = FALSE, !.hold[live.author] = "RELEASED"]

\* A claim without the approval touches no reservation.
LEMMA UnpaidEffect ==
  ASSUME live \in Database, NEW a \in Attempts
  PROVE  /\ SameIdentity(Unpaid(a))
         /\ Unpaid(a).hold = live.hold /\ Unpaid(a).consumed = live.consumed
         /\ Unpaid(a).revoked = live.revoked
  <1>1. Unpaid(a) \in Fields
    BY DEF Unpaid, Database, Fields
  <1>2. Unpaid(a).author = a /\ live \in Fields
    BY DEF Unpaid, Database, Fields
  <1>q. QED
    BY <1>1, <1>2 DEF SameIdentity, Unpaid, Database, Fields

\* A claim under the approval consumes it and reserves for its attempt.
LEMMA UnderEffect ==
  ASSUME live \in Database, NEW a \in Attempts
  PROVE  /\ SameIdentity(Under(a))
         /\ Under(a).hold = [live.hold EXCEPT ![a] = "RESERVED"]
         /\ Under(a).consumed = TRUE /\ Under(a).revoked = live.revoked
  <1> DEFINE hold == [live.hold EXCEPT ![a] = "RESERVED"]
  <1>1. live \in Fields /\ hold \in [Attempts -> HoldState]
    BY DEF Database, Fields, HoldState
  <1>2. Under(a) = [live EXCEPT !.status = "LAUNCH_CLAIMED", !.author = a,
                                !.consumed = TRUE, !.hold = hold]
    BY <1>1 DEF Under, Fields
  <1> HIDE DEF hold
  <1>3. Under(a) \in Fields
    BY <1>1, <1>2 DEF Fields
  <1>4. /\ Under(a).hold = hold /\ Under(a).consumed = TRUE /\ Under(a).author = a
        /\ Under(a).revoked = live.revoked
        /\ Under(a).epoch = live.epoch /\ Under(a).generation = live.generation
        /\ Under(a).maintenance = live.maintenance
    BY <1>1, <1>2 DEF Fields
  <1>q. QED
    BY <1>3, <1>4 DEF SameIdentity, Database, hold

\* A release without a reservation touches none.
LEMMA FreedEffect ==
  ASSUME live \in Database
  PROVE  /\ SameIdentity(Freed)
         /\ Freed.hold = live.hold /\ Freed.consumed = live.consumed
         /\ Freed.revoked = live.revoked
  <1>1. live \in Fields
    BY DEF Database
  <1>2. Freed \in Fields
    BY <1>1 DEF Freed, Fields
  <1>3. /\ Freed.hold = live.hold /\ Freed.consumed = live.consumed
        /\ Freed.revoked = live.revoked /\ Freed.status = "READY"
        /\ Freed.epoch = live.epoch /\ Freed.generation = live.generation
        /\ Freed.maintenance = live.maintenance
    BY <1>1 DEF Freed, Fields
  <1>q. QED
    BY <1>2, <1>3 DEF SameIdentity, Database

\* A release with a reservation gives it back, and the approval with it.
LEMMA ReturnedEffect ==
  ASSUME live \in Database, live.author \in Attempts
  PROVE  /\ SameIdentity(Returned)
         /\ Returned.hold = [live.hold EXCEPT ![live.author] = "RELEASED"]
         /\ Returned.consumed = FALSE /\ Returned.revoked = live.revoked
  <1> DEFINE hold == [live.hold EXCEPT ![live.author] = "RELEASED"]
  <1>1. /\ Freed \in Database /\ Freed \in Fields /\ Freed.hold = live.hold
        /\ Freed.revoked = live.revoked /\ Freed.status = "READY"
        /\ Freed.epoch = live.epoch /\ Freed.generation = live.generation
        /\ Freed.maintenance = live.maintenance
    <2>1. Freed.status = "READY"
      BY DEF Freed, Database, Fields
    <2>q. QED
      BY <2>1, FreedEffect DEF SameIdentity, Database
  <1>2. hold \in [Attempts -> HoldState]
    BY DEF Database, Fields, HoldState
  <1>3. Returned = [Freed EXCEPT !.consumed = FALSE, !.hold = hold]
    BY <1>1 DEF Returned, Fields
  <1> HIDE DEF hold
  <1>4. Returned \in Fields
    BY <1>1, <1>2, <1>3 DEF Fields
  <1>5. /\ Returned.hold = hold /\ Returned.consumed = FALSE
        /\ Returned.revoked = Freed.revoked /\ Returned.status = Freed.status
        /\ Returned.epoch = Freed.epoch /\ Returned.generation = Freed.generation
        /\ Returned.maintenance = Freed.maintenance
    BY <1>1, <1>3 DEF Fields
  <1>q. QED
    BY <1>1, <1>4, <1>5 DEF SameIdentity, Database, hold

\* The worker's and the founder's steps are transactions.
LEMMA WorkerTransactions ==
  ASSUME TypeOK
  PROVE  /\ \A a \in Attempts : Claim(a) => Transaction
         /\ TransitionExecution => Transaction
         /\ \A a \in Attempts : MarkBudgetBoundary(a) => Transaction
         /\ ReleaseClaim => Transaction
         /\ Resume => Transaction
         /\ RevokeApproval => Transaction
  <1>0. live \in Database /\ live \in Fields
    BY DEF TypeOK, Database
  <1>1. ASSUME NEW a \in Attempts, Claim(a)
        PROVE  Transaction
    <2>1. Commit(Unpaid(a)) \/ Commit(Under(a))
      BY <1>1 DEF Claim, Unpaid, Under
    <2>q. QED
      BY <1>0, <2>1, UnpaidEffect, UnderEffect DEF Transaction, SameIdentity
  <1>2. ASSUME TransitionExecution
        PROVE  Transaction
    <2> DEFINE db == [live EXCEPT !.status = "STARTED"]
    <2>1. /\ db \in Database /\ db.epoch = live.epoch
          /\ db.generation = live.generation /\ db.maintenance = live.maintenance
      BY <1>0, <1>2 DEF TransitionExecution, Database, Fields
    <2>2. Commit(db)
      BY <1>2 DEF TransitionExecution
    <2> HIDE DEF db
    <2>q. QED
      BY <2>1, <2>2 DEF Transaction
  <1>3. ASSUME NEW a \in Attempts, MarkBudgetBoundary(a)
        PROVE  Transaction
    <2> DEFINE db == [live EXCEPT !.hold[live.author] = "CROSSED"]
    <2>1. /\ db \in Database /\ db.epoch = live.epoch
          /\ db.generation = live.generation /\ db.maintenance = live.maintenance
      <3> DEFINE hold == [live.hold EXCEPT ![live.author] = "CROSSED"]
      <3>1. live.author \in Attempts
        BY <1>0, <1>3 DEF MarkBudgetBoundary, Database
      <3>2. hold \in [Attempts -> HoldState]
        BY <1>0, <3>1 DEF Fields, HoldState
      <3>3. db = [live EXCEPT !.hold = hold]
        BY <1>0 DEF Fields
      <3> HIDE DEF hold
      <3>q. QED
        BY <1>0, <3>2, <3>3 DEF Database, Fields
    <2>2. Commit(db)
      BY <1>3 DEF MarkBudgetBoundary
    <2> HIDE DEF db
    <2>q. QED
      BY <2>1, <2>2 DEF Transaction
  <1>4. ASSUME ReleaseClaim
        PROVE  Transaction
    <2>1. CASE Commit(Freed)
      BY <1>0, <2>1, FreedEffect DEF Transaction, SameIdentity
    <2>2. CASE Commit(Returned)
      <3>1. live.author \in Attempts
        BY <1>0, <1>4 DEF ReleaseClaim, Database
      <3>q. QED
        BY <1>0, <2>2, <3>1, ReturnedEffect DEF Transaction, SameIdentity
    <2>q. QED
      BY <1>4, <2>1, <2>2 DEF ReleaseClaim, Freed, Returned
  <1>5. ASSUME Resume
        PROVE  Transaction
    <2> DEFINE db == [live EXCEPT !.project = "EXECUTING"]
    <2>1. /\ db \in Database /\ db.epoch = live.epoch
          /\ db.generation = live.generation /\ db.maintenance = live.maintenance
      BY <1>0 DEF Database, Fields
    <2>2. Commit(db)
      BY <1>5 DEF Resume
    <2> HIDE DEF db
    <2>q. QED
      BY <2>1, <2>2 DEF Transaction
  <1>6. ASSUME RevokeApproval
        PROVE  Transaction
    <2> DEFINE db == [live EXCEPT !.revoked = TRUE]
    <2>1. /\ db \in Database /\ db.epoch = live.epoch
          /\ db.generation = live.generation /\ db.maintenance = live.maintenance
      BY <1>0 DEF Database, Fields
    <2>2. Commit(db)
      BY <1>6 DEF RevokeApproval
    <2> HIDE DEF db
    <2>q. QED
      BY <2>1, <2>2 DEF Transaction
  <1>q. QED
    BY <1>1, <1>2, <1>3, <1>4, <1>5, <1>6

\* The steps that touch a fence only.
FenceStep == \E o \in Operations : Expire(o) \/ RecoverFence(o)

\* Every step is a transaction, a step of a restore, or one of those that leave the
\* database and the restore alone.
LEMMA StepKinds ==
  ASSUME TypeOK, [Next]_vars
  PROVE  \/ Transaction \/ RestoreStep \/ Backup \/ FenceStep \/ UNCHANGED vars
         \/ \E o \in Operations : Authorize(o)
         \/ \E a \in Attempts : ReserveAttempt(a)
  BY WorkerTransactions DEF Next, RestoreStep, FenceStep

\* A restore writes neither the backup nor what operations were authorized for, and
\* the attempts are not its business.
LEMMA RestoreLeaves ==
  ASSUME RestoreStep
  PROVE  UNCHANGED <<request, seen, backupVars, history>>
  BY DEF RestoreStep, restoreVars, Enter, Stage, BeginFence, ReconcileStaged, Confirm,
     Replace, Complete, Fail, AbortFence, MarkFailed, Crash, RecoverStaleRestore

\* A database with other flags and reservations is a database.
LEMMA LedgerTyped ==
  ASSUME NEW db \in Database, NEW c \in BOOLEAN, NEW r \in BOOLEAN,
         NEW hold \in [Attempts -> HoldState]
  PROVE  [db EXCEPT !.consumed = c, !.revoked = r, !.hold = hold] \in Database
  <1> DEFINE new == [db EXCEPT !.consumed = c, !.revoked = r, !.hold = hold]
  <1>1. db \in Fields
    BY DEF Database
  <1>2. new \in Fields
    BY <1>1 DEF Fields
  <1>3. new.status = db.status /\ new.author = db.author
    BY <1>1 DEF Fields
  <1> HIDE DEF new
  <1>4. new \in Database
    BY <1>2, <1>3 DEF Database
  <1>q. QED
    BY <1>4 DEF new

\* Merging the ledger the restore captured into a backup that is behind it gives the
\* reservations of the live database, and no fewer flags.
LEMMA Merges ==
  ASSUME NEW staged \in Database, NEW ledger, live \in Database, Behind(staged),
         ledger = [consumed |-> live.consumed, revoked |-> live.revoked,
                   hold |-> live.hold]
  PROVE  /\ Merged(staged, ledger) \in Database
         /\ Merged(staged, ledger).hold = live.hold
         /\ live.consumed => Merged(staged, ledger).consumed
         /\ live.revoked => Merged(staged, ledger).revoked
  <1> DEFINE merged == Merged(staged, ledger)
             c == staged.consumed \/ live.consumed
             r == staged.revoked \/ live.revoked
  <1>1. /\ live.consumed \in BOOLEAN /\ live.revoked \in BOOLEAN
        /\ staged.consumed \in BOOLEAN /\ staged.revoked \in BOOLEAN
        /\ live.hold \in [Attempts -> HoldState]
        /\ staged.hold \in [Attempts -> HoldState]
        /\ live \in Fields /\ staged \in Fields
    BY DEF Database, Fields
  <1>2. /\ ledger.consumed = live.consumed /\ ledger.revoked = live.revoked
        /\ ledger.hold = live.hold
    OBVIOUS
  <1>3. \A a \in Attempts : MergedHold(staged, ledger, a) = live.hold[a]
    BY <1>1, <1>2 DEF MergedHold, Behind, HoldState
  <1>4. [a \in Attempts |-> MergedHold(staged, ledger, a)] = live.hold
    BY <1>1, <1>3
  <1>5. merged = [staged EXCEPT !.consumed = @ \/ ledger.consumed,
                                !.revoked = @ \/ ledger.revoked,
                                !.hold = live.hold]
    BY <1>4 DEF Merged
  <1>6. merged = [staged EXCEPT !.consumed = c, !.revoked = r, !.hold = live.hold]
    BY <1>1, <1>2, <1>5 DEF Fields
  <1>7. c \in BOOLEAN /\ r \in BOOLEAN
    BY <1>1
  <1>8. (live.consumed => c) /\ (live.revoked => r)
    OBVIOUS
  <1> HIDE DEF merged, c, r
  <1>9. merged \in Database
    BY <1>1, <1>6, <1>7, LedgerTyped
  <1>10. merged.hold = live.hold /\ merged.consumed = c /\ merged.revoked = r
    BY <1>1, <1>6 DEF Fields
  <1>11. /\ merged \in Database /\ merged.hold = live.hold
         /\ live.consumed => merged.consumed
         /\ live.revoked => merged.revoked
    BY <1>8, <1>9, <1>10
  <1>q. QED
    BY <1>11 DEF merged

\* A replacement keeps every reservation as it is, whatever the backup has of it,
\* revokes what was revoked, and advances the identity.
LEMMA Replaced ==
  ASSUME TypeOK, Excluding, BackupsBehind, Replace
  PROVE  /\ live' \in Database
         /\ live'.hold = live.hold
         /\ live.consumed => live'.consumed
         /\ live.revoked => live'.revoked
         /\ live'.epoch = live.epoch + 1 /\ live'.generation = live.generation + 1
         /\ live'.maintenance.state = "COMPLETED"
  <1>1. PICK o \in Operations : o = restoring.op
    BY DEF Replace, Excluding, Replacing, TypeOK, RestoringTyped
  <1> DEFINE staged == request[o].artifact
             ledger == restoring.ledger
             merged == Merged(staged, ledger)
  <1>2. /\ request[o] # NoRequest
        /\ ledger = [consumed |-> live.consumed, revoked |-> live.revoked,
                     hold |-> live.hold]
    BY <1>1 DEF Replace, Excluding, Replacing
  <1>3. staged \in Database /\ Behind(staged)
    BY <1>1, <1>2 DEF BackupsBehind, TypeOK, RequestsTyped
  <1>4. /\ live \in Database /\ live.epoch \in Nat /\ live.generation \in Nat
    BY DEF TypeOK, Database, Fields
  <1>5. /\ merged \in Database /\ merged.hold = live.hold
        /\ live.consumed => merged.consumed
        /\ live.revoked => merged.revoked
    <2> HIDE DEF staged, ledger
    <2>q. QED
      BY <1>2, <1>3, <1>4, Merges
  <1>6. live' = Restored(o)
    BY <1>1 DEF Replace
  <1>7. request[o].epoch = live.epoch /\ request[o].generation = live.generation
    BY <1>1 DEF Replace, Boundary, Current
  <1> DEFINE used == merged.used \cup {o}
             record == [op |-> o, state |-> "COMPLETED", expected |-> live.generation]
  <1>8. live' = [[merged EXCEPT !.epoch = live.epoch + 1,
                                !.generation = live.generation + 1] EXCEPT
                   !.project = "PAUSED", !.used = @ \cup {o}, !.maintenance = record]
    BY <1>1, <1>6, <1>7 DEF Restored, Advanced
  <1>9. /\ used \in SUBSET Operations /\ record.state = "COMPLETED"
        /\ record \in [op : Operations \cup {None},
                       state : {"NONE", "ACTIVE", "COMPLETED", "FAILED"}, expected : Nat]
    BY <1>4, <1>5 DEF Database, Fields
  <1> HIDE DEF merged
  <1>10. merged \in Fields
    BY <1>5 DEF Database
  <1>11. live' = [merged EXCEPT !.epoch = live.epoch + 1,
                                !.generation = live.generation + 1,
                                !.project = "PAUSED", !.used = used,
                                !.maintenance = record]
    BY <1>8, <1>10 DEF Fields
  <1>12. live.epoch + 1 \in Nat /\ live.generation + 1 \in Nat
    BY <1>4
  <1> HIDE DEF used, record
  <1>13. live' \in Fields
    BY <1>9, <1>10, <1>11, <1>12 DEF Fields
  <1>14. /\ live'.hold = merged.hold /\ live'.consumed = merged.consumed
         /\ live'.revoked = merged.revoked
         /\ live'.status = merged.status /\ live'.author = merged.author
         /\ live'.epoch = live.epoch + 1 /\ live'.generation = live.generation + 1
         /\ live'.maintenance = record
    BY <1>10, <1>11 DEF Fields
  <1>15. live' \in Database
    BY <1>5, <1>13, <1>14 DEF Database
  <1>q. QED
    BY <1>5, <1>9, <1>14, <1>15

\* What changes of a database that is marked as failed.
LEMMA MarkedFailed ==
  ASSUME NEW o, live \in Database, live' = Failed(live, o)
  PROVE  /\ live' \in Database
         /\ live'.maintenance.state # live.maintenance.state =>
               live'.maintenance.state = "FAILED"
         /\ live'.maintenance.op = live.maintenance.op
         /\ live'.maintenance.expected = live.maintenance.expected
         /\ Contents(live') = Contents(live)
         /\ live'.epoch = live.epoch /\ live'.generation = live.generation
         /\ live'.consumed = live.consumed /\ live'.revoked = live.revoked
         /\ live'.hold = live.hold
  <1> DEFINE marked == [live EXCEPT !.maintenance.state = "FAILED"]
  <1>1. CASE live' = live
    BY <1>1
  <1>2. CASE live' = marked
    <2>1. live \in Fields
      BY DEF Database
    <2>2. /\ live'.maintenance = [live.maintenance EXCEPT !.state = "FAILED"]
          /\ live'.epoch = live.epoch /\ live'.generation = live.generation
          /\ live'.used = live.used /\ live'.project = live.project
          /\ live'.status = live.status /\ live'.author = live.author
          /\ live'.consumed = live.consumed /\ live'.revoked = live.revoked
          /\ live'.hold = live.hold
      BY <1>2, <2>1 DEF Fields
    <2>3. live' \in Fields
      BY <1>2, <2>1 DEF Fields
    <2>4. live' \in Database
      BY <2>2, <2>3 DEF Database
    <2>5. Contents(live') = Contents(live)
      BY <1>2, <2>1 DEF Contents, Fields
    <2>q. QED
      BY <2>1, <2>2, <2>4, <2>5 DEF Fields
  <1>q. QED
    BY <1>1, <1>2 DEF Failed

\* What Enter writes.
LEMMA Entered ==
  ASSUME TypeOK, NEW o \in Operations, Enter(o)
  PROVE  /\ live' \in Database
         /\ live'.maintenance = [op |-> o, state |-> "ACTIVE",
                                 expected |-> live.generation]
         /\ Contents(live') = Contents(live)
         /\ live'.epoch = live.epoch /\ live'.generation = live.generation
         /\ live'.consumed = live.consumed /\ live'.revoked = live.revoked
         /\ live'.hold = live.hold
  <1> DEFINE m == [op |-> o, state |-> "ACTIVE", expected |-> live.generation]
  <1>1. live \in Fields /\ live \in Database
    BY DEF TypeOK, Database
  <1>2. live' = [live EXCEPT !.maintenance = m]
    BY DEF Enter, Current
  <1>3. m \in [op : Operations \cup {None},
               state : {"NONE", "ACTIVE", "COMPLETED", "FAILED"}, expected : Nat]
    BY <1>1 DEF Fields
  <1> HIDE DEF m
  <1>4. live' \in Fields /\ live'.maintenance = m
    BY <1>1, <1>2, <1>3 DEF Fields
  <1>5. /\ live'.status = live.status /\ live'.author = live.author
        /\ live'.epoch = live.epoch /\ live'.generation = live.generation
        /\ live'.consumed = live.consumed /\ live'.revoked = live.revoked
        /\ live'.hold = live.hold
    BY <1>1, <1>2 DEF Fields
  <1>6. Contents(live') = Contents(live)
    BY <1>1, <1>2 DEF Contents, Fields
  <1>q. QED
    BY <1>1, <1>4, <1>5, <1>6 DEF Database, m

-----------------------------------------------------------------------------
(* Types                                                                    *)

\* The first state is typed.
LEMMA InitTyped == Init => TypeOK
  <1> SUFFICES ASSUME Init
               PROVE  TypeOK
    OBVIOUS
  <1>1. Created \in Database
    BY DEF Created, Database, Fields, HoldState
  <1>2. live \in Database /\ saved \in Database /\ backups \in Nat
    BY <1>1 DEF Init
  <1>3. RequestsTyped
    BY DEF Init, NoRequest, RequestsTyped
  <1>4. RestoringTyped
    BY DEF Init, NotRestoring, RestoringTyped, Steps
  <1>5. /\ fence \in [Operations -> {"NONE", "ACTIVE", "EXPIRED", "CLOSED"}]
        /\ drawn \subseteq Attempts /\ paid \subseteq drawn /\ reserved \subseteq drawn
        /\ returned \subseteq paid /\ withdrawn \in BOOLEAN
    BY DEF Init
  <1>q. QED
    BY <1>2, <1>3, <1>4, <1>5 DEF TypeOK

\* Every step keeps the types.
LEMMA StepTyped ==
  ASSUME TypeOK, Excluding, BackupsBehind, [Next]_vars
  PROVE  TypeOK'
  <1>1. live' \in Database
    <2>1. CASE Transaction
      BY <2>1, Committed DEF Transaction
    <2>2. CASE Replace
      BY <2>2, Replaced
    <2>3. ASSUME NEW o \in Operations, Enter(o)
          PROVE  live' \in Database
      BY <2>3, Entered
    <2>4. ASSUME NEW o \in Operations, RecoverStaleRestore(o)
          PROVE  live' \in Database
      BY <2>4, MarkedFailed DEF RecoverStaleRestore, TypeOK
    <2>5. CASE MarkFailed
      BY <2>5, MarkedFailed DEF MarkFailed, TypeOK
    <2>q. QED
      BY <2>1, <2>2, <2>3, <2>4, <2>5, StepKinds
      DEF RestoreStep, FenceStep, vars, TypeOK, Stage, BeginFence, ReconcileStaged,
          Confirm, Complete, Fail, AbortFence, Crash, Backup, Authorize, ReserveAttempt,
          Expire, RecoverFence
  <1>2. saved' \in Database /\ backups' \in Nat
    <2>1. CASE Transaction
      BY <2>1 DEF Transaction, Commit, backupVars, TypeOK
    <2>2. CASE Backup
      BY <2>2 DEF Backup, TypeOK
    <2>3. CASE RestoreStep
      BY <2>3, RestoreLeaves DEF backupVars, TypeOK
    <2>q. QED
      BY <2>1, <2>2, <2>3, StepKinds
      DEF FenceStep, vars, backupVars, TypeOK, Authorize, ReserveAttempt, Expire,
          RecoverFence
  <1>3. RequestsTyped'
    <2> USE DEF RequestsTyped
    <2>1. CASE Transaction
      BY <2>1 DEF Transaction, Commit, restoreVars, TypeOK
    <2>2. ASSUME NEW o \in Operations, Authorize(o)
          PROVE  RequestsTyped'
      <3>1. /\ saved \in Database
            /\ live.epoch \in Nat /\ live.generation \in Nat
        BY DEF TypeOK, Database, Fields
      <3>q. QED
        BY <2>2, <3>1 DEF Authorize, TypeOK
    <2>3. CASE RestoreStep
      BY <2>3, RestoreLeaves DEF TypeOK
    <2>q. QED
      BY <2>1, <2>2, <2>3, StepKinds
      DEF FenceStep, vars, restoreVars, TypeOK, Backup, ReserveAttempt, Expire,
          RecoverFence
  <1>4. RestoringTyped'
    <2> USE DEF RestoringTyped, Steps, Replacing
    <2>1. CASE Transaction
      BY <2>1 DEF Transaction, Commit, restoreVars, TypeOK
    <2>2. ASSUME NEW o \in Operations, Enter(o)
          PROVE  RestoringTyped'
      <3>1. [consumed |-> live.consumed, revoked |-> live.revoked,
             hold |-> live.hold] \in Ledger
        BY DEF TypeOK, Database, Fields, Ledger
      <3>q. QED
        BY <2>2, <3>1 DEF Enter, Replacing
    <2>3. CASE Stage \/ BeginFence \/ ReconcileStaged \/ Confirm \/ Replace
      BY <2>3 DEF TypeOK, Stage, BeginFence, ReconcileStaged, Confirm, Replace, Step,
         Replacing
    <2>4. CASE Complete \/ MarkFailed \/ Crash
      <3>1. restoring' = NotRestoring
        BY <2>4 DEF Complete, MarkFailed, Crash
      <3>q. QED
        BY <3>1 DEF NotRestoring
    <2>5. CASE Fail \/ AbortFence
      BY <2>5 DEF TypeOK, Fail, AbortFence, Step
    <2>q. QED
      BY <2>1, <2>2, <2>3, <2>4, <2>5, StepKinds
      DEF RestoreStep, FenceStep, vars, restoreVars, TypeOK, Backup, Authorize,
          ReserveAttempt, Expire, RecoverFence, RecoverStaleRestore
  <1>5. fence' \in [Operations -> {"NONE", "ACTIVE", "EXPIRED", "CLOSED"}]
    <2>1. CASE Transaction
      BY <2>1 DEF Transaction, Commit, TypeOK
    <2>2. CASE BeginFence \/ Complete \/ AbortFence
      BY <2>2 DEF BeginFence, Complete, AbortFence, TypeOK
    <2>3. CASE FenceStep
      BY <2>3 DEF FenceStep, Expire, RecoverFence, TypeOK
    <2>q. QED
      BY <2>1, <2>2, <2>3, StepKinds
      DEF RestoreStep, vars, TypeOK, Backup, Authorize, ReserveAttempt, Enter, Stage,
          ReconcileStaged, Confirm, Replace, Fail, MarkFailed, Crash, RecoverStaleRestore
  <1>6. /\ drawn' \subseteq Attempts /\ paid' \subseteq drawn' /\ reserved' \subseteq drawn'
        /\ returned' \subseteq paid' /\ withdrawn' \in BOOLEAN
    <2>1. CASE RestoreStep
      BY <2>1, RestoreLeaves DEF history, workerVars, TypeOK
    <2>q. QED
      BY <2>1
      DEF Next, vars, history, workerVars, RestoreStep, TypeOK, Claim, TransitionExecution,
          MarkBudgetBoundary, ReleaseClaim, Resume, RevokeApproval, Backup, Authorize,
          ReserveAttempt, Expire, RecoverFence
  <1>q. QED
    BY <1>1, <1>2, <1>3, <1>4, <1>5, <1>6 DEF TypeOK

-----------------------------------------------------------------------------
(* The restore and the identity of the database                             *)

\* No restore is under way in the first state.
LEMMA InitExcluding == Init => Excluding /\ Exact /\ Expecting
  BY DEF Init, Excluding, Exact, Expecting, NotRestoring, Replacing, NoRequest, Created

\* While a restore may replace the database, only the restore writes.
LEMMA StepExcluding ==
  ASSUME TypeOK, Excluding, [Next]_vars
  PROVE  Excluding'
  <1> USE DEF Excluding, Replacing, TypeOK, RequestsTyped, RestoringTyped, Steps
  <1>1. CASE Transaction
    BY <1>1, Committed DEF Transaction, restoreVars
  <1>2. ASSUME NEW o \in Operations, Authorize(o)
        PROVE  Excluding'
    BY <1>2 DEF Authorize
  <1>3. ASSUME NEW o \in Operations, Enter(o)
        PROVE  Excluding'
    <2>1. o # None
      BY RestoreConstants
    <2>2. /\ restoring' = [op |-> o, step |-> "stage", clean |-> TRUE,
                           ledger |-> [consumed |-> live.consumed, revoked |-> live.revoked,
                                       hold |-> live.hold]]
          /\ request' = request /\ request[o] # NoRequest
      BY <1>3 DEF Enter
    <2>q. QED
      BY <1>3, <2>1, <2>2, Entered
  <1>4. CASE Stage \/ BeginFence \/ ReconcileStaged \/ Confirm
    BY <1>4 DEF Stage, BeginFence, ReconcileStaged, Confirm, Step
  <1>5. CASE Fail \/ AbortFence \/ Replace
    BY <1>5 DEF Fail, AbortFence, Replace, Step
  <1>6. CASE Complete \/ MarkFailed \/ Crash
    BY <1>6 DEF Complete, MarkFailed, Crash, NotRestoring
  <1>7. ASSUME NEW o \in Operations, RecoverStaleRestore(o)
        PROVE  Excluding'
    BY <1>7 DEF RecoverStaleRestore, restoreVars
  <1>8. CASE UNCHANGED <<live, restoreVars>>
    BY <1>8 DEF restoreVars
  <1>q. QED
    BY <1>1, <1>2, <1>3, <1>4, <1>5, <1>6, <1>7, <1>8, StepKinds
    DEF RestoreStep, FenceStep, vars, restoreVars, Backup, ReserveAttempt, Expire,
        RecoverFence

\* The numbers of an identity grow together in a replacement, and the generation in
\* every transaction, so an identity that was left is never current again.
LEMMA StepExact ==
  ASSUME TypeOK, Excluding, BackupsBehind, Exact, [Next]_vars
  PROVE  Exact'
  <1>1. /\ \A o \in Operations : request[o].epoch \in Nat /\ request[o].generation \in Nat
        /\ live.epoch \in Nat /\ live.generation \in Nat
    BY DEF TypeOK, RequestsTyped, Database, Fields
  <1>2. CASE /\ UNCHANGED <<request, seen>>
             /\ live'.generation = live.generation + 1
             /\ live'.epoch \in {live.epoch, live.epoch + 1}
    <2> SUFFICES ASSUME NEW o \in Operations, request[o] # NoRequest
                 PROVE  /\ request[o].epoch <= live'.epoch
                        /\ request[o].generation < live'.generation
      BY <1>1, <1>2 DEF Exact, Current
    <2>1. /\ request[o].epoch <= live.epoch /\ request[o].generation <= live.generation
      BY DEF Exact
    <2>q. QED
      BY <1>1, <1>2, <2>1
  <1>3. CASE /\ UNCHANGED <<request, seen>>
             /\ Contents(live') = Contents(live)
             /\ live'.generation = live.generation /\ live'.epoch = live.epoch
    BY <1>3 DEF Exact, Current
  <1>4. CASE Transaction
    BY <1>1, <1>2, <1>4, Committed DEF Transaction, restoreVars
  <1>5. CASE Replace
    BY <1>1, <1>2, <1>5, Replaced DEF Replace
  <1>6. ASSUME NEW o \in Operations, Enter(o)
        PROVE  Exact'
    BY <1>3, <1>6, Entered DEF Enter
  <1>7. ASSUME NEW o \in Operations, RecoverStaleRestore(o)
        PROVE  Exact'
    BY <1>3, <1>7, MarkedFailed DEF RecoverStaleRestore, restoreVars, TypeOK
  <1>8. CASE MarkFailed
    BY <1>3, <1>8, MarkedFailed DEF MarkFailed, TypeOK
  <1>9. ASSUME NEW o \in Operations, Authorize(o)
        PROVE  Exact'
    BY <1>1, <1>9 DEF Authorize, Exact, Current, TypeOK, RequestsTyped
  <1>10. CASE UNCHANGED <<live, request, seen>>
    BY <1>3, <1>10
  <1>q. QED
    BY <1>4, <1>5, <1>6, <1>7, <1>8, <1>9, <1>10, StepKinds
    DEF RestoreStep, FenceStep, vars, restoreVars, Backup, ReserveAttempt, Expire,
        RecoverFence, Stage, BeginFence, ReconcileStaged, Confirm, Complete, Fail,
        AbortFence, Crash

\* Nobody writes a database whose maintenance is active but the restore that replaces
\* it and the recovery.
LEMMA StepExpecting ==
  ASSUME TypeOK, Excluding, BackupsBehind, Expecting, [Next]_vars
  PROVE  Expecting'
  <1>1. CASE Transaction
    BY <1>1, Committed DEF Transaction, Expecting
  <1>2. CASE Replace
    BY <1>2, Replaced DEF Expecting
  <1>3. ASSUME NEW o \in Operations, Enter(o)
        PROVE  Expecting'
    <2>1. /\ live'.maintenance = [op |-> o, state |-> "ACTIVE",
                                  expected |-> live.generation]
          /\ live'.generation = live.generation
      BY <1>3, Entered
    <2>q. QED
      BY <2>1 DEF Expecting
  <1>4. ASSUME NEW o \in Operations, RecoverStaleRestore(o)
        PROVE  Expecting'
    BY <1>4, MarkedFailed DEF RecoverStaleRestore, TypeOK, Expecting
  <1>5. CASE MarkFailed
    BY <1>5, MarkedFailed DEF MarkFailed, TypeOK, Expecting
  <1>6. CASE UNCHANGED live
    BY <1>6 DEF Expecting
  <1>q. QED
    BY <1>1, <1>2, <1>3, <1>4, <1>5, <1>6, StepKinds
    DEF RestoreStep, FenceStep, vars, Backup, ReserveAttempt, Expire, Authorize,
        RecoverFence, Stage, BeginFence, ReconcileStaged, Confirm, Complete, Fail,
        AbortFence, Crash

-----------------------------------------------------------------------------
(* The ledger                                                               *)

\* Nothing is reserved in the first state.
LEMMA InitLedger == Init => BackupsBehind /\ Reservations
  BY DEF Init, BackupsBehind, Behind, Reservations, Held, NoRequest, Created

\* Every step keeps the reservations in order, and the backups behind them.
LEMMA StepLedger ==
  ASSUME TypeOK, Excluding, BackupsBehind, Reservations, [Next]_vars
  PROVE  BackupsBehind' /\ Reservations'
  <1> USE DEF BackupsBehind, Behind, Reservations, Held
  <1>1. CASE /\ UNCHANGED <<saved, request, paid, returned, withdrawn>>
             /\ live'.hold = live.hold
             /\ live.consumed => live'.consumed
             /\ live.revoked => live'.revoked
    BY <1>1
  <1>2. ASSUME NEW a \in Attempts, Claim(a)
        PROVE  BackupsBehind' /\ Reservations'
    <2>1. live.hold[a] = "NONE" /\ a \notin paid
      BY <1>2 DEF Claim, TypeOK
    <2>2. UNCHANGED <<saved, request, returned, withdrawn>>
      BY <1>2 DEF Claim, Commit, backupVars, restoreVars
    <2>3. CASE Commit(Unpaid(a)) /\ UNCHANGED paid
      <3>1. /\ live'.hold = live.hold /\ live'.consumed = live.consumed
            /\ live'.revoked = live.revoked
        BY <2>3, UnpaidEffect, Committed DEF SameIdentity, TypeOK
      <3>q. QED
        BY <1>1, <2>2, <2>3, <3>1
    <2>4. CASE ~live.consumed /\ Reservable /\ Commit(Under(a)) /\ paid' = paid \cup {a}
      <3>1. /\ live'.hold = [live.hold EXCEPT ![a] = "RESERVED"]
            /\ live'.consumed = TRUE /\ live'.revoked = live.revoked
            /\ live.hold \in [Attempts -> HoldState]
        <4>1. live.hold \in [Attempts -> HoldState]
          BY DEF TypeOK, Database, Fields
        <4>2. /\ Under(a) \in Database /\ Under(a).consumed = TRUE
              /\ Under(a).hold = [live.hold EXCEPT ![a] = "RESERVED"]
              /\ Under(a).revoked = live.revoked
          BY UnderEffect DEF SameIdentity, TypeOK
        <4>q. QED
          BY <2>4, <4>1, <4>2, Committed
      <3>2. paid = {} /\ Held = {} /\ returned = {}
        BY <2>4 DEF Reservable, TypeOK
      <3>3. /\ live'.hold[a] = "RESERVED"
            /\ \A b \in Attempts \ {a} : live'.hold[b] = live.hold[b]
        BY <3>1
      <3>q. QED
        BY <2>1, <2>2, <2>4, <3>1, <3>2, <3>3
    <2>q. QED
      BY <1>2, <2>3, <2>4 DEF Claim, Unpaid, Under
  <1>3. CASE TransitionExecution \/ Resume
    <2>1. /\ live'.hold = live.hold /\ live'.consumed = live.consumed
          /\ live'.revoked = live.revoked
      <3> DEFINE started == [live EXCEPT !.status = "STARTED"]
                 resumed == [live EXCEPT !.project = "EXECUTING"]
      <3>1. live \in Database /\ live \in Fields
        BY DEF TypeOK, Database
      <3>2. CASE TransitionExecution
        <4>1. /\ started \in Database /\ started.hold = live.hold
              /\ started.consumed = live.consumed /\ started.revoked = live.revoked
          BY <3>1, <3>2 DEF TransitionExecution, Database, Fields
        <4>2. Commit(started)
          BY <3>2 DEF TransitionExecution
        <4> HIDE DEF started
        <4>q. QED
          BY <4>1, <4>2, Committed
      <3>3. CASE Resume
        <4>1. /\ resumed \in Database /\ resumed.hold = live.hold
              /\ resumed.consumed = live.consumed /\ resumed.revoked = live.revoked
          BY <3>1 DEF Database, Fields
        <4>2. Commit(resumed)
          BY <3>3 DEF Resume
        <4> HIDE DEF resumed
        <4>q. QED
          BY <4>1, <4>2, Committed
      <3>q. QED
        BY <1>3, <3>2, <3>3
    <2>q. QED
      BY <1>1, <1>3, <2>1
      DEF TransitionExecution, Resume, Commit, backupVars, restoreVars, history, workerVars
  <1>4. ASSUME NEW a \in Attempts, MarkBudgetBoundary(a)
        PROVE  BackupsBehind' /\ Reservations'
    <2>1. PICK b \in Attempts : b = live.author
      BY <1>4 DEF MarkBudgetBoundary, TypeOK, Database
    <2>2. /\ live.hold[b] = "RESERVED"
          /\ live'.hold = [live.hold EXCEPT ![b] = "CROSSED"]
          /\ live'.consumed = live.consumed /\ live'.revoked = live.revoked
          /\ live.hold \in [Attempts -> HoldState]
      BY <1>4, <2>1 DEF MarkBudgetBoundary, Commit, TypeOK, Database, Fields
    <2>3. UNCHANGED <<saved, request, paid, returned, withdrawn>>
      BY <1>4 DEF MarkBudgetBoundary, Commit, backupVars, restoreVars, history, workerVars
    <2>4. /\ live'.hold[b] = "CROSSED"
          /\ \A c \in Attempts \ {b} : live'.hold[c] = live.hold[c]
      BY <2>2
    <2>q. QED
      BY <2>2, <2>3, <2>4
  <1>5. CASE ReleaseClaim
    <2>1. PICK b \in Attempts : b = live.author
      BY <1>5 DEF ReleaseClaim, TypeOK, Database
    <2>2. UNCHANGED <<saved, request, paid, withdrawn>>
      BY <1>5 DEF ReleaseClaim, Commit, backupVars, restoreVars, history, workerVars
    <2>3. CASE b \in paid
      <3>1. /\ live.hold[b] = "RESERVED"
            /\ live'.hold = [live.hold EXCEPT ![b] = "RELEASED"]
            /\ live'.revoked = live.revoked
            /\ live.hold \in [Attempts -> HoldState]
        <4>1. live.hold[b] = "RESERVED" /\ Commit(Returned)
          BY <1>5, <2>1, <2>3 DEF ReleaseClaim, Freed, Returned
        <4>2. live.hold \in [Attempts -> HoldState]
          BY DEF TypeOK, Database, Fields
        <4>q. QED
          BY <2>1, <4>1, <4>2, ReturnedEffect, Committed DEF SameIdentity, TypeOK
      <3>2. /\ live'.hold[b] = "RELEASED"
            /\ \A c \in Attempts \ {b} : live'.hold[c] = live.hold[c]
        BY <3>1
      <3>3. Held' = {}
        BY <3>1, <3>2
      <3>4. returned' = returned \cup {b}
        BY <1>5, <2>1, <2>3 DEF ReleaseClaim
      <3>q. QED
        BY <2>2, <3>1, <3>2, <3>3, <3>4
    <2>4. CASE b \notin paid
      <3>1. /\ live'.hold = live.hold /\ live'.consumed = live.consumed
            /\ live'.revoked = live.revoked
        <4>1. Commit(Freed)
          BY <1>5, <2>1, <2>4 DEF ReleaseClaim, Freed
        <4>q. QED
          BY <4>1, FreedEffect, Committed DEF SameIdentity, TypeOK
      <3>2. UNCHANGED returned
        BY <1>5, <2>1, <2>4 DEF ReleaseClaim
      <3>q. QED
        BY <1>1, <2>2, <3>1, <3>2
    <2>q. QED
      BY <2>3, <2>4
  <1>6. CASE RevokeApproval
    <2>1. /\ live'.hold = live.hold /\ live'.consumed = live.consumed
          /\ live'.revoked = TRUE
      BY <1>6 DEF RevokeApproval, Commit, TypeOK, Database, Fields
    <2>q. QED
      BY <1>6, <2>1
      DEF RevokeApproval, Commit, backupVars, restoreVars, workerVars
  <1>7. CASE Replace
    BY <1>1, <1>7, Replaced DEF Replace, history, workerVars, backupVars
  <1>8. ASSUME NEW o \in Operations, Enter(o)
        PROVE  BackupsBehind' /\ Reservations'
    BY <1>1, <1>8, Entered DEF Enter, history, workerVars, backupVars
  <1>9. ASSUME NEW o \in Operations, RecoverStaleRestore(o)
        PROVE  BackupsBehind' /\ Reservations'
    BY <1>1, <1>9, MarkedFailed
    DEF RecoverStaleRestore, TypeOK, history, workerVars, backupVars, restoreVars
  <1>10. CASE MarkFailed
    BY <1>1, <1>10, MarkedFailed DEF MarkFailed, TypeOK, history, workerVars, backupVars
  <1>11. CASE Backup
    BY <1>11 DEF Backup, restoreVars, history, workerVars
  <1>12. ASSUME NEW o \in Operations, Authorize(o)
         PROVE  BackupsBehind' /\ Reservations'
    BY <1>12 DEF Authorize, backupVars, history, workerVars, TypeOK, RequestsTyped
  <1>13. CASE UNCHANGED <<live, saved, request, paid, returned, withdrawn>>
    BY <1>1, <1>13
  <1>q. QED
    BY <1>2, <1>3, <1>4, <1>5, <1>6, <1>7, <1>8, <1>9, <1>10, <1>11, <1>12, <1>13
    DEF Next, vars, restoreVars, backupVars, history, workerVars, FenceStep,
        ReserveAttempt, Expire, RecoverFence, Stage, BeginFence, ReconcileStaged, Confirm,
        Complete, Fail, AbortFence, Crash

-----------------------------------------------------------------------------
(* Theorems                                                                 *)

\* The invariant holds in the first state.
LEMMA InitInv == Init => Inv
  BY InitTyped, InitExcluding, InitLedger DEF Inv

\* Every step keeps the invariant.
LEMMA StepInv == Inv /\ [Next]_vars => Inv'
  BY StepTyped, StepExcluding, StepExact, StepExpecting, StepLedger DEF Inv

\* The invariant holds in every reachable state.
THEOREM Invariance == Spec => []Inv
  BY InitInv, StepInv, PTL DEF Spec

\* Types: a database that a restore merges from two is a database, and its task is
\* bound to an attempt whenever it is under way.
THEOREM TypeCorrect == Spec => []TypeOK
  <1>1. Inv => TypeOK
    BY DEF Inv
  <1>q. QED
    BY <1>1, Invariance, PTL

\* An authorization whose target identity is accepted is for the database the
\* founder saw, whatever was written, restored or interrupted since.
THEOREM AuthorizedExactly == Spec => []AuthorizationIsExact
  <1>1. Inv => AuthorizationIsExact
    BY DEF Inv, Exact, AuthorizationIsExact
  <1>q. QED
    BY <1>1, Invariance, PTL

\* A restore that was interrupted leaves a database the recovery accepts.
THEOREM InterruptedRecovers == Spec => []InterruptedIsRecoverable
  <1>1. Inv => InterruptedIsRecoverable
    BY DEF Inv, Expecting, InterruptedIsRecoverable, Recoverable
  <1>q. QED
    BY <1>1, Invariance, PTL

\* The approval was consumed for no two attempts, so for one at most.
LEMMA OnePaid ==
  ASSUME \A a, b \in paid : a = b
  PROVE  Cardinality(paid) <= 1
  <1>1. CASE paid = {}
    BY <1>1, FS_EmptySet
  <1>2. ASSUME NEW a \in paid
        PROVE  Cardinality(paid) <= 1
    <2>1. paid = {a}
      OBVIOUS
    <2>q. QED
      BY <2>1, FS_Singleton
  <1>q. QED
    BY <1>1, <1>2

\* What was revoked, reserved or given back since a backup was taken outlives the
\* restore of that backup, and of any other after it; whichever backups are restored,
\* the approval is consumed for one attempt at most.
THEOREM LedgerOutlives == Spec => []LedgerOutlivesBackups
  <1>1. Inv => LedgerOutlivesBackups
    BY OnePaid DEF Inv, Reservations, LedgerOutlivesBackups, TypeOK
  <1>q. QED
    BY <1>1, Invariance, PTL

\* A restore writes no reservation: the budget the live database has is the budget
\* the restored database has, whatever the backup says.
THEOREM RestoresKeepHolds == Spec => [][Replace => live'.hold = live.hold]_vars
  <1>1. Inv /\ [Next]_vars => [Replace => live'.hold = live.hold]_vars
    BY Replaced DEF Inv
  <1>q. QED
    BY <1>1, Invariance, PTL DEF Spec
=============================================================================
