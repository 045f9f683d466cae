-------------------------- MODULE PassBWorkspaces --------------------------
(***************************************************************************)
(* Workspace and write reservations of Pass B over a tree of paths.        *)
(*                                                                         *)
(* Every reservation is kept twice, as a record and as a row of a claim    *)
(* table: exclusion is decided by the claims, launches and releases by     *)
(* both.  A method of keeper/pass_b/repository.py is one transaction and   *)
(* one action.  CompletionCoordinator._reserve reads and reserves in       *)
(* several of them, and its threads are the Callers.  What an attempt is   *)
(* doing is told in full by PassBLaunch; here it is reduced to its launch  *)
(* claim and the transactions that touch reservations.                     *)
(***************************************************************************)
EXTENDS Naturals, Sequences

CONSTANTS
    Assignments,    \* identities of assignments
    Reservations,   \* identities of workspace reservations (uuid4)
    Writes,         \* identities of write reservations (uuid4)
    Callers,        \* threads inside CompletionCoordinator._reserve
    ReadOnly,       \* assignments with read_only, which reserve READ_ONLY
    Paths,          \* canonical paths, as sequences of their parts
    Directory,      \* canonical_workspace_path of the execution profile
    Scopes,         \* write_scope_keys of the execution profile
    None            \* "no assignment", "no reservation"

ASSUME WorkspaceConstants ==
    /\ ReadOnly \subseteq Assignments
    /\ Directory \in [Assignments -> Paths]
    /\ Scopes \in [Assignments -> SUBSET Paths]
    /\ None \notin Assignments \cup Reservations

VARIABLES
    workspace,    \* WorkspaceReservationRecord
    wsClaim,      \* state of its row in pass_b_workspace_claims
    write,        \* WriteReservationRecord
    writeClaim,   \* pass_b_write_claims, one row for each scope key
    expired,      \* reservations whose lease has expired
    state,        \* AssignmentRecord.state
    launch,       \* launch claim of the assignment's latest attempt
    uses,         \* AttemptRecord.workspace_reservation_id of that attempt
    caller        \* where a thread is, and what it has read

vars == <<workspace, wsClaim, write, writeClaim, expired, state, launch, uses,
          caller>>

reservations == <<workspace, wsClaim, write, writeClaim>>

States == {"FREE", "ACTIVE", "RELEASED", "STALE", "UNCERTAIN"}
Held == {"ACTIVE", "UNCERTAIN"}

\* A launch claim in doubt, of either kind.
Doubt == {"UNCERTAIN", "UNCERTAIN_CANCELLATION"}
Open == {"RESERVED", "LAUNCHED"} \cup Doubt

Keys == UNION {Scopes[a] : a \in Assignments}

NoCaller == [step |-> "IDLE", job |-> None, ws |-> None]
NoWorkspace == [state |-> "FREE", assignment |-> None]
NoWrite == [state |-> "FREE", workspace |-> None]

TypeOK ==
    /\ workspace \in [Reservations ->
                        [state : States, assignment : Assignments \cup {None}]]
    /\ wsClaim \in [Reservations -> States]
    /\ write \in [Writes ->
                    [state : States, workspace : Reservations \cup {None}]]
    /\ writeClaim \in [Keys ->
                        [state : States, workspace : Reservations \cup {None}]]
    /\ expired \subseteq Reservations
    /\ state \in [Assignments -> {"READY", "WAITING_FOR_USAGE_RESET",
                                  "LAUNCHED", "DONE", "CANCELED", "UNCERTAIN"}]
    /\ launch \in [Assignments -> Open \cup {"NONE", "COMPLETED", "CANCELED",
                                             "FAILED"}]
    /\ uses \in [Assignments -> Reservations \cup {None}]
    /\ caller \in [Callers -> [step : {"IDLE", "WORKSPACE", "LIST", "WRITES"},
                               job : Assignments \cup {None},
                               ws : Reservations \cup {None}]]

Init ==
    /\ workspace = [r \in Reservations |-> NoWorkspace]
    /\ wsClaim = [r \in Reservations |-> "FREE"]
    /\ write = [w \in Writes |-> NoWrite]
    /\ writeClaim = [k \in Keys |-> NoWrite]
    /\ expired = {}
    /\ state = [a \in Assignments |-> "READY"]
    /\ launch = [a \in Assignments |-> "NONE"]
    /\ uses = [a \in Assignments |-> None]
    /\ caller = [c \in Callers |-> NoCaller]

-----------------------------------------------------------------------------

\* The path p is q or lies below it.
Within(p, q) == Len(q) <= Len(p) /\ SubSeq(p, 1, Len(q)) = q

\* _path_overlap and _scope_overlap.
Overlap(p, q) == p = q \/ Within(p, q) \/ Within(q, p)

Owner(r) == workspace[r].assignment
IsReader(a) == a \in ReadOnly

\* WriteReservationRecord.scope_keys.
ScopesOf(w) == Scopes[Owner(write[w].workspace)]

\* Workspace records of an assignment in one state.
InState(a, s) == {r \in Reservations : workspace[r] = [state |-> s,
                                                       assignment |-> a]}

\* Records and claims of an assignment go from one state to another together,
\* the writes with the workspace they belong to.
Mirror(a, from, to) ==
    LET mine(r) == r # None /\ Owner(r) = a IN
    /\ workspace' = [r \in Reservations |->
          IF r \in InState(a, from)
            THEN [state |-> to, assignment |-> a] ELSE workspace[r]]
    /\ wsClaim' = [r \in Reservations |->
          IF mine(r) /\ wsClaim[r] = from THEN to ELSE wsClaim[r]]
    /\ write' = [w \in Writes |->
          IF write[w].state = from /\ mine(write[w].workspace)
            THEN [state |-> to, workspace |-> write[w].workspace]
            ELSE write[w]]
    /\ writeClaim' = [k \in Keys |->
          IF writeClaim[k].state = from /\ mine(writeClaim[k].workspace)
            THEN [state |-> to, workspace |-> writeClaim[k].workspace]
            ELSE writeClaim[k]]

-----------------------------------------------------------------------------
(* CompletionCoordinator._reserve                                           *)

\* _active_workspace, which raises when there are several.
ReadWorkspace(c, a) ==
    /\ caller[c] = NoCaller
    /\ \/ /\ InState(a, "ACTIVE") = {}
          /\ caller' = [caller EXCEPT ![c] =
                [step |-> "WORKSPACE", job |-> a, ws |-> None]]
       \/ \E r \in Reservations :
             /\ InState(a, "ACTIVE") = {r}
             /\ caller' = [caller EXCEPT ![c] =
                   [step |-> "LIST", job |-> a, ws |-> r]]
    /\ UNCHANGED <<reservations, expired, state, launch, uses>>

\* Mutation of Incompatible: only claims on the same path are noticed.
IncompatibleOnSamePath(a) ==
    \E q \in Reservations :
        /\ wsClaim[q] \in Held
        /\ Directory[a] = Directory[Owner(q)]
        /\ ~IsReader(a) \/ ~IsReader(Owner(q))

\* A claim in force that a new reservation of a would overlap, one of the two
\* being a writer.
Incompatible(a) ==
    \E q \in Reservations :
        /\ wsClaim[q] \in Held
        /\ Overlap(Directory[a], Directory[Owner(q)])
        /\ ~IsReader(a) \/ ~IsReader(Owner(q))

ReserveWorkspace(c, r) ==
    LET a == caller[c].job IN
    /\ caller[c].step = "WORKSPACE"
    /\ workspace[r] = NoWorkspace
    /\ ~Incompatible(a)
    /\ workspace' = [workspace EXCEPT ![r] =
                        [state |-> "ACTIVE", assignment |-> a]]
    /\ wsClaim' = [wsClaim EXCEPT ![r] = "ACTIVE"]
    /\ caller' = [caller EXCEPT ![c] = [step |-> "LIST", job |-> a, ws |-> r]]
    /\ UNCHANGED <<write, writeClaim, expired, state, launch, uses>>

HasWrites(a) ==
    \E w \in Writes : /\ write[w].state = "ACTIVE"
                      /\ Owner(write[w].workspace) = a

\* A reader needs no write reservation, and an ACTIVE one is kept.
ReadWrites(c) ==
    LET a == caller[c].job IN
    /\ caller[c].step = "LIST"
    /\ IF IsReader(a) \/ HasWrites(a)
         THEN caller' = [caller EXCEPT ![c] = NoCaller]
         ELSE caller' = [caller EXCEPT ![c] = [step |-> "WRITES", job |-> a,
                                               ws |-> caller[c].ws]]
    /\ UNCHANGED <<reservations, expired, state, launch, uses>>

Reserved(s) == \E k \in Keys : writeClaim[k].state \in Held /\ Overlap(s, k)

\* Rows of earlier reservations of the same scope are replaced.
ReserveWrites(c, w) ==
    LET a == caller[c].job
        r == caller[c].ws
        row == [state |-> "ACTIVE", workspace |-> r]
    IN  /\ caller[c].step = "WRITES"
        /\ write[w] = NoWrite
        /\ workspace[r] = [state |-> "ACTIVE", assignment |-> a]
        /\ \A s \in Scopes[a] : ~Reserved(s)
        /\ write' = [write EXCEPT ![w] = row]
        /\ writeClaim' = [k \in Keys |->
              IF k \in Scopes[a] THEN row ELSE writeClaim[k]]
        /\ caller' = [caller EXCEPT ![c] = NoCaller]
        /\ UNCHANGED <<workspace, wsClaim, expired, state, launch, uses>>

\* The thread ends, refused or for any other reason.
Stop(c) ==
    /\ caller[c] # NoCaller
    /\ caller' = [caller EXCEPT ![c] = NoCaller]
    /\ UNCHANGED <<reservations, expired, state, launch, uses>>

-----------------------------------------------------------------------------
(* Leases                                                                   *)

\* The wall clock passes lease_expires_at.  Writes are reserved after their
\* workspace for the same time and renewed with it: their lease is no shorter.
ExpireLease(r) ==
    /\ workspace[r] # NoWorkspace /\ r \notin expired
    /\ expired' = expired \cup {r}
    /\ UNCHANGED <<reservations, state, launch, uses, caller>>

RenewWorkspace(r) ==
    /\ workspace[r].state = "ACTIVE" /\ r \in expired
    /\ expired' = expired \ {r}
    /\ UNCHANGED <<reservations, state, launch, uses, caller>>

\* Mutation of Surrenderable: only the assignment is asked.
SurrenderableByState(r) ==
    /\ workspace[r] # NoWorkspace
    /\ state[Owner(r)] \notin {"LAUNCHED", "UNCERTAIN"}

\* Neither the assignment nor a launch claim needs the workspace any more.  The
\* state of the reservation itself is not asked.
Surrenderable(r) ==
    /\ workspace[r] # NoWorkspace
    /\ state[Owner(r)] \notin {"LAUNCHED", "UNCERTAIN"}
    /\ launch[Owner(r)] \notin Open

\* Mutation of GiveUp: the claims of the writes are forgotten.
GiveUpWorkspace(r, to) ==
    /\ workspace' = [workspace EXCEPT ![r] =
                        [state |-> to, assignment |-> Owner(r)]]
    /\ wsClaim' = [wsClaim EXCEPT ![r] = IF @ = "ACTIVE" THEN to ELSE @]
    /\ write' = [w \in Writes |->
          IF write[w] = [state |-> "ACTIVE", workspace |-> r]
            THEN [state |-> to, workspace |-> r] ELSE write[w]]
    /\ writeClaim' = writeClaim

\* The reservation, its ACTIVE writes and their claims are given up together.
GiveUp(r, to) ==
    /\ workspace' = [workspace EXCEPT ![r] =
                        [state |-> to, assignment |-> Owner(r)]]
    /\ wsClaim' = [wsClaim EXCEPT ![r] = IF @ = "ACTIVE" THEN to ELSE @]
    /\ write' = [w \in Writes |->
          IF write[w] = [state |-> "ACTIVE", workspace |-> r]
            THEN [state |-> to, workspace |-> r] ELSE write[w]]
    /\ writeClaim' = [k \in Keys |->
          IF writeClaim[k] = [state |-> "ACTIVE", workspace |-> r]
            THEN [state |-> to, workspace |-> r] ELSE writeClaim[k]]

ReleaseWorkspace(r) ==
    /\ Surrenderable(r)
    /\ GiveUp(r, "RELEASED")
    /\ UNCHANGED <<expired, state, launch, uses, caller>>

RecoverStaleWorkspace(r) ==
    /\ Surrenderable(r) /\ r \in expired
    /\ GiveUp(r, "STALE")
    /\ UNCHANGED <<expired, state, launch, uses, caller>>

-----------------------------------------------------------------------------
(* The attempt, as far as it touches reservations                           *)

\* reserve_attempt: exactly one ACTIVE workspace, for a writer with a claim of
\* its writes.
Launchable(a, r) ==
    /\ state[a] = "READY" /\ launch[a] \notin Open \cup {"COMPLETED"}
    /\ {q \in Reservations : Owner(q) = a /\ wsClaim[q] = "ACTIVE"} = {r}
    /\ r \in InState(a, "ACTIVE") /\ r \notin expired
    /\ IsReader(a) \/ \E k \in Keys : writeClaim[k] = [state |-> "ACTIVE",
                                                       workspace |-> r]

ReserveAttempt(a, r) ==
    /\ Launchable(a, r)
    /\ launch' = [launch EXCEPT ![a] = "RESERVED"]
    /\ uses' = [uses EXCEPT ![a] = r]
    /\ UNCHANGED <<reservations, expired, state, caller>>

\* A restart drops an attempt that never left Keeper.
DropAttempt(a) ==
    /\ launch[a] = "RESERVED"
    /\ launch' = [launch EXCEPT ![a] = "FAILED"]
    /\ UNCHANGED <<reservations, expired, state, uses, caller>>

ClaimLaunch(a) ==
    /\ launch[a] = "RESERVED" /\ state[a] = "READY"
    /\ launch' = [launch EXCEPT ![a] = "LAUNCHED"]
    /\ state' = [state EXCEPT ![a] = "LAUNCHED"]
    /\ UNCHANGED <<reservations, expired, uses, caller>>

\* Mutation of CompleteAttempt: the assignment gets the state of the attempt.
CompleteAttempt(a) ==
    /\ launch[a] = "LAUNCHED" /\ state[a] = "LAUNCHED"
    /\ launch' = [launch EXCEPT ![a] = "COMPLETED"]
    /\ state' = [state EXCEPT ![a] = "DONE"]
    /\ UNCHANGED <<reservations, expired, uses, caller>>

CompleteCancellation(a) ==
    /\ launch[a] = "LAUNCHED" /\ state[a] = "LAUNCHED"
    /\ launch' = [launch EXCEPT ![a] = "CANCELED"]
    /\ state' = [state EXCEPT ![a] = "CANCELED"]
    /\ UNCHANGED <<reservations, expired, uses, caller>>

\* A restart, a failed Authority reservation or a failed cancellation leaves
\* everything of the assignment uncertain.  Only a launched attempt is cancelled.
MarkUncertain(a, doubt) ==
    /\ launch[a] = "LAUNCHED" \/ (launch[a] = "RESERVED" /\ doubt = "UNCERTAIN")
    /\ launch' = [launch EXCEPT ![a] = doubt]
    /\ state' = [state EXCEPT ![a] = "UNCERTAIN"]
    /\ Mirror(a, "ACTIVE", "UNCERTAIN")
    /\ UNCHANGED <<expired, uses, caller>>

\* reconcile_uncertain_cancellation refuses anything but one workspace.
Reconcilable(a) ==
    /\ launch[a] = "UNCERTAIN_CANCELLATION" /\ state[a] = "UNCERTAIN"
    /\ InState(a, "UNCERTAIN") = {uses[a]}

ReconcileCancellation(a) ==
    /\ Reconcilable(a)
    /\ launch' = [launch EXCEPT ![a] = "CANCELED"]
    /\ state' = [state EXCEPT ![a] = "CANCELED"]
    /\ Mirror(a, "UNCERTAIN", "ACTIVE")
    /\ UNCHANGED <<expired, uses, caller>>

\* reserve_usage_or_pause does not ask for the state of the assignment.
PauseForUsage(a) ==
    /\ state[a] # "WAITING_FOR_USAGE_RESET"
    /\ state' = [state EXCEPT ![a] = "WAITING_FOR_USAGE_RESET"]
    /\ UNCHANGED <<reservations, expired, launch, uses, caller>>

ResumeAfterUsageReset(a) ==
    /\ state[a] = "WAITING_FOR_USAGE_RESET"
    /\ launch[a] \notin Doubt
    /\ InState(a, "ACTIVE") # {}
    /\ state' = [state EXCEPT ![a] = "READY"]
    /\ UNCHANGED <<reservations, expired, launch, uses, caller>>

Next ==
    \/ \E c \in Callers :
          \/ \E a \in Assignments : ReadWorkspace(c, a)
          \/ \E r \in Reservations : ReserveWorkspace(c, r)
          \/ ReadWrites(c)
          \/ \E w \in Writes : ReserveWrites(c, w)
          \/ Stop(c)
    \/ \E r \in Reservations :
          \/ ExpireLease(r) \/ RenewWorkspace(r) \/ ReleaseWorkspace(r)
          \/ RecoverStaleWorkspace(r)
          \/ \E a \in Assignments : ReserveAttempt(a, r)
    \/ \E a \in Assignments :
          \/ DropAttempt(a) \/ ClaimLaunch(a) \/ CompleteAttempt(a)
          \/ CompleteCancellation(a) \/ ReconcileCancellation(a)
          \/ PauseForUsage(a) \/ ResumeAfterUsageReset(a)
          \/ \E doubt \in Doubt : MarkUncertain(a, doubt)

Spec == Init /\ [][Next]_vars

-----------------------------------------------------------------------------
(* Properties                                                               *)

\* docs/keeper/PASS_B_RECOVERY.md:71: one active writer across equal, parent or
\* child paths, and readers together only with readers.
WritersAlone ==
    \A q, r \in Reservations :
        /\ q # r /\ workspace[q].state \in Held /\ workspace[r].state \in Held
        /\ Overlap(Directory[Owner(q)], Directory[Owner(r)])
        => IsReader(Owner(q)) /\ IsReader(Owner(r))

\* The claims, which decide who is excluded, say what the records say, of
\* workspaces and of writes, through every bulk update.
ClaimsMirrorRecords ==
    /\ \A r \in Reservations, s \in Held :
          workspace[r].state = s <=> wsClaim[r] = s
    /\ \A k \in Keys, s \in Held :
          writeClaim[k].state = s
            => \E w \in Writes : write[w] = writeClaim[k] /\ k \in ScopesOf(w)
    /\ \A w \in Writes : write[w].state \in Held =>
          \A k \in ScopesOf(w) : writeClaim[k] = write[w]

\* A write reservation in force belongs to a writer's workspace in the same
\* state, and no two of them share a scope.
WritesBelong ==
    \A w \in Writes : write[w].state \in Held =>
        LET r == write[w].workspace IN
        /\ r \in InState(Owner(r), write[w].state) /\ ~IsReader(Owner(r))
        /\ \A v \in Writes \ {w} :
              write[v].state \in Held =>
                  \A j \in ScopesOf(v), k \in ScopesOf(w) : ~Overlap(j, k)

\* The workspace an open attempt was reserved with stays its own, whatever other
\* reservations the assignment has, and is in doubt exactly when it is; a
\* writer's scopes go with it.
AttemptKeepsWorkspace ==
    \A a \in Assignments : launch[a] \in Open =>
        LET kept == IF launch[a] \in Doubt THEN "UNCERTAIN" ELSE "ACTIVE" IN
        /\ uses[a] \in InState(a, kept)
        /\ IsReader(a) \/ \E w \in Writes :
              write[w] = [state |-> kept, workspace |-> uses[a]]
=============================================================================
