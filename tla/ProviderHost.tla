--------------------------- MODULE ProviderHost ---------------------------
(***************************************************************************)
(* KeeperProviderHost: the per-user process that runs provider launches for *)
(* KeeperAuthority.  A durable journal records every launch, a worker thread *)
(* drives the one launch that may be in progress, and the lifecycle state    *)
(* decides whether new work is taken.  The journal and the provider binding  *)
(* survive a restart of the host; the worker, the process it supervises (in  *)
(* a job that dies with the host) and the environment snapshots do not.      *)
(***************************************************************************)
EXTENDS Naturals, FiniteSets

CONSTANTS Attempts,        \* attempts of KeeperAuthority, at most one launch each
          Registrations,   \* provider registrations
          RegistrationOf,  \* the registration an attempt was reserved under
          WorkspaceOf,     \* the workspace of an attempt, overlaps are equality
          None

ASSUME HostConstants ==
    /\ None \notin Attempts \cup Registrations
    /\ RegistrationOf \in [Attempts -> Registrations]

VARIABLES host,          \* HostState
          launch,        \* journal: state of the launch of an attempt
          worker,        \* the thread inside execute
          binding,       \* the provider registration the host is bound to
          prepared,      \* attempts with an unused environment snapshot
          lastSequence,  \* highest sequence in the replay table
          ran            \* how often the provider process of an attempt was resumed

hostVars == <<host, launch, worker, binding, prepared, lastSequence, ran>>

HostState == {"READY", "CLAIMED", "STARTED", "RUNNING", "LOCKED", "DRAINING",
              "STOPPED", "STALE"}
Unresolved == {"CLAIMED", "STARTED", "RUNNING"}
Terminal == {"COMPLETED", "FAILED", "CANCELLED"}
LaunchState == {"NONE", "UNCERTAIN"} \cup Unresolved \cup Terminal

WorkerPC == {"idle", "start", "ack", "resume", "journal", "running"}
NoWorker == [att |-> None, pc |-> "idle", cancelled |-> FALSE]

HostTypeOK ==
    /\ host \in HostState
    /\ launch \in [Attempts -> LaunchState]
    /\ worker \in [att : Attempts \cup {None}, pc : WorkerPC, cancelled : BOOLEAN]
    /\ binding \in Registrations \cup {None}
    /\ prepared \subseteq Attempts
    /\ lastSequence \in Nat
    /\ ran \in [Attempts -> Nat]

HostInit ==
    /\ host = "READY"
    /\ launch = [a \in Attempts |-> "NONE"]
    /\ worker = NoWorker
    /\ binding = None
    /\ prepared = {}
    /\ lastSequence = 0
    /\ ran = [a \in Attempts |-> 0]

Working == worker.pc # "idle"
Drives(a) == Working /\ worker.att = a

\* The process of an attempt is alive and no longer suspended.
Alive(a) == Drives(a) /\ worker.pc \in {"journal", "running"}

-----------------------------------------------------------------------------
(* Requests of KeeperAuthority                                              *)

\* prepare_environment: PREPARING is never visible, the host lock is held.
PrepareEnvironment(a) ==
    /\ host = "READY"
    /\ prepared' = prepared \cup {a}
    /\ UNCHANGED <<host, launch, worker, binding, lastSequence, ran>>

\* bind_provider: the binding is a singleton and never replaced.
Bindable(r) == host = "READY" /\ binding \in {r, None}

BindProvider(r) ==
    /\ Bindable(r)
    /\ binding' = r
    /\ UNCHANGED <<host, launch, worker, prepared, lastSequence, ran>>

\* Mutation of BlockedWorkspace: an uncertain launch releases its workspace.
BlockedByUnresolved(a) ==
    \E b \in Attempts : launch[b] \in Unresolved /\ WorkspaceOf[b] = WorkspaceOf[a]

BlockedWorkspace(a) ==
    \E b \in Attempts : /\ launch[b] \in Unresolved \cup {"UNCERTAIN"}
                        /\ WorkspaceOf[b] = WorkspaceOf[a]

\* claim_launch, and the checks of execute before it.
Claimable(a, seq) ==
    /\ host = "READY" /\ binding = RegistrationOf[a] /\ a \in prepared
    /\ seq > lastSequence
    /\ launch[a] = "NONE"
    /\ ~BlockedWorkspace(a)

TakeLaunch(a, seq) ==
    /\ Claimable(a, seq)
    /\ prepared' = prepared \ {a}
    /\ launch' = [launch EXCEPT ![a] = "CLAIMED"]
    /\ worker' = [att |-> a, pc |-> "start", cancelled |-> FALSE]
    /\ host' = "CLAIMED"
    /\ lastSequence' = seq
    /\ UNCHANGED <<binding, ran>>

\* execute raises before the claim; the snapshot may have been taken out.
RefuseLaunch(a, seq) ==
    /\ ~Claimable(a, seq)
    /\ prepared' = prepared \ {a}
    /\ UNCHANGED <<host, launch, worker, binding, lastSequence, ran>>

\* cancel_active answers whether the named launch is in progress.
CancelActive(a) ==
    /\ Drives(a)
    /\ worker' = [worker EXCEPT !.cancelled = TRUE]
    /\ UNCHANGED <<host, launch, binding, prepared, lastSequence, ran>>

-----------------------------------------------------------------------------
(* The worker thread                                                        *)

Becomes(from, to) == host' = IF host = from THEN to ELSE host

\* The finally block of execute.
Leave ==
    /\ worker' = NoWorker
    /\ host' = IF host \in {"LOCKED", "DRAINING", "STOPPED", "STALE"}
                 THEN host ELSE "READY"

\* on_started: the suspended process exists, the journal says so, and the
\* STARTED event is on its way to KeeperAuthority.
OnStarted ==
    /\ worker.pc = "start"
    /\ launch[worker.att] = "CLAIMED"
    /\ launch' = [launch EXCEPT ![worker.att] = "STARTED"]
    /\ worker' = [worker EXCEPT !.pc = "ack"]
    /\ Becomes("CLAIMED", "STARTED")
    /\ UNCHANGED <<binding, prepared, lastSequence, ran>>

\* The acknowledgement has arrived.
Acknowledged ==
    /\ worker.pc = "ack"
    /\ worker' = [worker EXCEPT !.pc = "resume"]
    /\ UNCHANGED <<host, launch, binding, prepared, lastSequence, ran>>

\* ResumeThread: the provider runs from here on.
ResumeProcess ==
    /\ worker.pc = "resume"
    /\ ran' = [ran EXCEPT ![worker.att] = @ + 1]
    /\ worker' = [worker EXCEPT !.pc = "journal"]
    /\ UNCHANGED <<host, launch, binding, prepared, lastSequence>>

OnResumed ==
    /\ worker.pc = "journal"
    /\ launch[worker.att] = "STARTED"
    /\ launch' = [launch EXCEPT ![worker.att] = "RUNNING"]
    /\ worker' = [worker EXCEPT !.pc = "running"]
    /\ Becomes("STARTED", "RUNNING")
    /\ UNCHANGED <<binding, prepared, lastSequence, ran>>

\* The process has ended (or was killed for a cancellation or a timeout).
ProcessEnds(terminal) ==
    /\ worker.pc = "running"
    /\ launch[worker.att] = "RUNNING"
    /\ terminal \in (IF worker.cancelled THEN {"CANCELLED"}
                                         ELSE {"COMPLETED", "FAILED"})
    /\ launch' = [launch EXCEPT ![worker.att] = terminal]
    /\ Leave
    /\ UNCHANGED <<binding, prepared, lastSequence, ran>>

\* An exception anywhere in execute after the claim: the launcher kills the
\* job, and the journal keeps what cannot be known.
LaunchRaises ==
    /\ Working
    /\ launch' = [launch EXCEPT ![worker.att] =
                     CASE @ = "CLAIMED" -> "FAILED"
                       [] @ \in {"STARTED", "RUNNING"} -> "UNCERTAIN"
                       [] OTHER -> @]
    /\ Leave
    /\ UNCHANGED <<binding, prepared, lastSequence, ran>>

-----------------------------------------------------------------------------
(* Lifecycle                                                                *)

RecoverUncertain ==
    launch' = [a \in Attempts |->
                 IF launch[a] \in Unresolved THEN "UNCERTAIN" ELSE launch[a]]

\* The host process ends and a new one starts; STARTING is over before requests
\* are served.
HostRestart ==
    /\ RecoverUncertain
    /\ worker' = NoWorker
    /\ prepared' = {}
    /\ host' = "READY"
    /\ UNCHANGED <<binding, lastSequence, ran>>

\* "KeeperProviderHost status": a second process builds a runtime on the same
\* journal and starts it, which recovers the launches of the first one.
StatusCommand ==
    /\ RecoverUncertain
    /\ UNCHANGED <<host, worker, binding, prepared, lastSequence, ran>>

CancelWork == worker' = IF Working THEN [worker EXCEPT !.cancelled = TRUE]
                                   ELSE worker

\* lock_workstation and mark_stale.
SuspendHost(state) ==
    /\ state \in {"LOCKED", "STALE"}
    /\ CancelWork
    /\ host' = state
    /\ UNCHANGED <<launch, binding, prepared, lastSequence, ran>>

Unlock ==
    /\ host = "LOCKED" /\ ~Working
    /\ host' = "READY"
    /\ UNCHANGED <<launch, worker, binding, prepared, lastSequence, ran>>

Drain ==
    /\ host' = "DRAINING"
    /\ UNCHANGED <<launch, worker, binding, prepared, lastSequence, ran>>

Logoff ==
    /\ CancelWork
    /\ prepared' = {}
    /\ host' = "STOPPED"
    /\ UNCHANGED <<launch, binding, lastSequence, ran>>

HostStep ==
    \/ OnStarted \/ ResumeProcess \/ OnResumed
    \/ HostRestart \/ StatusCommand
    \/ \E s \in HostState : SuspendHost(s)
    \/ Unlock \/ Drain \/ Logoff
=============================================================================
