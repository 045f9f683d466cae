----------------------- MODULE PassBWorkspacesProofs -----------------------
(***************************************************************************)
(* Proofs about the reservations of Pass B, for any tree of paths and any  *)
(* assignments and threads: writers are alone, claims and records agree    *)
(* through every bulk update, and an open attempt keeps its workspace.     *)
(*                                                                         *)
(* None of these is inductive alone.  A release decides by the launch      *)
(* claim but moves ACTIVE rows only, so the invariant says that what is    *)
(* uncertain belongs to an attempt in doubt; and exclusion is decided by   *)
(* the claims, so it needs the claims to agree with the records.           *)
(***************************************************************************)
EXTENDS PassBWorkspaces, TLAPS

\* A reservation that exists has an owner, and a write reservation that exists
\* has a workspace that exists.
Owned ==
    /\ \A r \in Reservations : \/ workspace[r] = NoWorkspace
                               \/ /\ Owner(r) \in Assignments
                                  /\ workspace[r].state # "FREE"
    /\ \A w \in Writes : \/ write[w] = NoWrite
                         \/ /\ write[w].workspace \in Reservations
                            /\ write[w].state # "FREE"
                            /\ Owner(write[w].workspace) \in Assignments
    /\ \A k \in Keys : \/ writeClaim[k] = NoWrite
                       \/ /\ writeClaim[k].workspace \in Reservations
                          /\ writeClaim[k].state # "FREE"

\* What a thread has read so far.
Reading ==
    \A c \in Callers :
        /\ caller[c].step # "IDLE" => caller[c].job \in Assignments
        /\ caller[c].step \in {"LIST", "WRITES"} => caller[c].ws \in Reservations
        /\ caller[c].step = "WRITES" => ~IsReader(caller[c].job)

\* What is uncertain belongs to an attempt in doubt.
UncertainInDoubt ==
    \A r \in Reservations :
        workspace[r].state = "UNCERTAIN" => launch[Owner(r)] \in Doubt

Agree == ClaimsMirrorRecords /\ WritesBelong

Inv == /\ TypeOK /\ Owned /\ Reading
       /\ UncertainInDoubt /\ Agree /\ WritersAlone /\ AttemptKeepsWorkspace

-----------------------------------------------------------------------------
(* How a step changes the reservations.                                     *)

\* Steps of a thread that only reads, of the clock and of an attempt that is not
\* in doubt write no reservation.
Quiet == UNCHANGED reservations

Given == \E r \in Reservations, to \in {"RELEASED", "STALE"} :
             Surrenderable(r) /\ GiveUp(r, to) /\ UNCHANGED <<launch, uses>>

Taken == \E c \in Callers : \/ \E r \in Reservations : ReserveWorkspace(c, r)
                            \/ \E w \in Writes : ReserveWrites(c, w)

Doubted == \E a \in Assignments, doubt \in Doubt : MarkUncertain(a, doubt)

Settled == \E a \in Assignments : ReconcileCancellation(a)

\* Every step is one of these, and only what it says happens to launches.
LEMMA Steps ==
  ASSUME [Next]_vars
  PROVE  Quiet \/ Given \/ Taken \/ Doubted \/ Settled
  <1>1. CASE UNCHANGED vars
    BY <1>1 DEF vars, Quiet, reservations
  <1>2. CASE Next
    <2>1. ASSUME NEW c \in Callers, NEW a \in Assignments, ReadWorkspace(c, a)
          PROVE Quiet
      BY <2>1 DEF ReadWorkspace, Quiet
    <2>2. ASSUME NEW c \in Callers, ReadWrites(c) \/ Stop(c)
          PROVE Quiet
      BY <2>2 DEF ReadWrites, Stop, Quiet
    <2>3. ASSUME NEW r \in Reservations,
                 ExpireLease(r) \/ RenewWorkspace(r)
                   \/ \E a \in Assignments : ReserveAttempt(a, r)
          PROVE Quiet
      BY <2>3 DEF ExpireLease, RenewWorkspace, ReserveAttempt, Quiet
    <2>4. ASSUME NEW a \in Assignments,
                 \/ DropAttempt(a) \/ ClaimLaunch(a) \/ CompleteAttempt(a)
                 \/ CompleteCancellation(a) \/ PauseForUsage(a)
                 \/ ResumeAfterUsageReset(a)
          PROVE Quiet
      BY <2>4 DEF DropAttempt, ClaimLaunch, CompleteAttempt,
                  CompleteCancellation, PauseForUsage, ResumeAfterUsageReset,
                  Quiet
    <2>5. ASSUME NEW r \in Reservations,
                 ReleaseWorkspace(r) \/ RecoverStaleWorkspace(r)
          PROVE Given
      BY <2>5 DEF ReleaseWorkspace, RecoverStaleWorkspace, Given
    <2>q. QED
      BY <1>2, <2>1, <2>2, <2>3, <2>4, <2>5 DEF Next, Taken, Doubted, Settled
  <1>q. QED
    BY <1>1, <1>2

-----------------------------------------------------------------------------
(* Types, owners and what threads have read.                                *)

\* Nothing is reserved, launched or read at first.
LEMMA InitInv == Init => Inv
  <1> SUFFICES ASSUME Init PROVE Inv
    OBVIOUS
  <1>1. TypeOK
    BY DEF Init, TypeOK, NoWorkspace, NoWrite, NoCaller, States, Open
  <1>2. Owned /\ Reading /\ UncertainInDoubt
    BY DEF Init, Owned, Reading, UncertainInDoubt, NoWorkspace, NoCaller
  <1>3. Agree /\ WritersAlone
    BY DEF Init, Agree, ClaimsMirrorRecords, WritesBelong, WritersAlone, Held,
           NoWorkspace, NoWrite
  <1>4. AttemptKeepsWorkspace
    BY DEF Init, AttemptKeepsWorkspace, Open, Doubt
  <1>q. QED
    BY <1>1, <1>2, <1>3, <1>4 DEF Inv

Typed ==
    /\ workspace \in [Reservations ->
                        [state : States, assignment : Assignments \cup {None}]]
    /\ wsClaim \in [Reservations -> States]
    /\ write \in [Writes ->
                    [state : States, workspace : Reservations \cup {None}]]
    /\ writeClaim \in [Keys ->
                        [state : States, workspace : Reservations \cup {None}]]

\* Reservations keep their types and their owners.
LEMMA StepOwned ==
  ASSUME Inv, [Next]_vars
  PROVE  Typed' /\ Owned'
  <1> USE DEF Inv, TypeOK, Owned, Owner, NoWorkspace, NoWrite, States, Typed
  <1>1. CASE Quiet
    BY <1>1 DEF Quiet, reservations
  <1>2. CASE Given
    <2> PICK r \in Reservations, to \in {"RELEASED", "STALE"} :
          Surrenderable(r) /\ GiveUp(r, to)
      BY <1>2 DEF Given
    <2>1. Owned'
      BY DEF Surrenderable, GiveUp
    <2>2. Typed'
      BY DEF Surrenderable, GiveUp
    <2>q. QED
      BY <2>1, <2>2
  <1>3. ASSUME NEW c \in Callers, NEW r \in Reservations, ReserveWorkspace(c, r)
        PROVE  Typed' /\ Owned'
    <2>1. caller[c].job \in Assignments
      BY <1>3 DEF Reading, ReserveWorkspace
    <2>2. Owned'
      BY <1>3, <2>1, WorkspaceConstants DEF ReserveWorkspace
    <2>3. Typed'
      BY <1>3, <2>1 DEF ReserveWorkspace
    <2>q. QED
      BY <2>2, <2>3
  <1>4. ASSUME NEW c \in Callers, NEW w \in Writes, ReserveWrites(c, w)
        PROVE  Typed' /\ Owned'
    <2>1. caller[c].job \in Assignments /\ caller[c].ws \in Reservations
      BY <1>4 DEF Reading, ReserveWrites
    <2>2. Owned'
      BY <1>4, <2>1 DEF ReserveWrites
    <2>3. Typed'
      BY <1>4, <2>1 DEF ReserveWrites
    <2>q. QED
      BY <2>2, <2>3
  <1>5. ASSUME NEW a \in Assignments, NEW from \in Held, NEW to \in Held,
               Mirror(a, from, to)
        PROVE  Typed' /\ Owned'
    <2>1. Typed'
      BY <1>5 DEF Mirror, InState, Held
    <2>2. \A r \in Reservations : Owner(r)' = Owner(r)
      BY <1>5 DEF Mirror, InState
    <2>3. Owned'
      <3>1. \A r \in Reservations : workspace'[r] # NoWorkspace =>
               Owner(r)' \in Assignments /\ workspace'[r].state # "FREE"
        BY <1>5, <2>2 DEF Mirror, InState, Held
      <3>2. \A w \in Writes : write'[w] # NoWrite =>
               /\ write'[w].workspace \in Reservations /\ write'[w].state # "FREE"
               /\ workspace'[write'[w].workspace].assignment \in Assignments
        BY <1>5, <2>2 DEF Mirror, Held
      <3>3. \A k \in Keys : writeClaim'[k] # NoWrite =>
               writeClaim'[k].workspace \in Reservations /\ writeClaim'[k].state # "FREE"
        BY <1>5 DEF Mirror, Held
      <3>q. QED
        BY <3>1, <3>2, <3>3
    <2>q. QED
      BY <2>1, <2>3
  <1>6. CASE Doubted
    BY <1>6, <1>5 DEF Doubted, MarkUncertain, Held
  <1>7. CASE Settled
    BY <1>7, <1>5 DEF Settled, ReconcileCancellation, Held
  <1>q. QED
    BY <1>1, <1>2, <1>3, <1>4, <1>6, <1>7, Steps DEF Taken

\* Every step keeps the types of the other variables, and a thread knows the job
\* and the workspace it is about to use.
LEMMA StepTyped ==
  ASSUME Inv, [Next]_vars
  PROVE  TypeOK' /\ Reading'
  <1> DEFINE Rest ==
        /\ expired \subseteq Reservations
        /\ state \in [Assignments ->
              {"READY", "WAITING_FOR_USAGE_RESET", "LAUNCHED", "DONE",
               "CANCELED", "UNCERTAIN"}]
        /\ launch \in [Assignments ->
              Open \cup {"NONE", "COMPLETED", "CANCELED", "FAILED"}]
        /\ uses \in [Assignments -> Reservations \cup {None}]
        /\ caller \in [Callers ->
              [step : {"IDLE", "WORKSPACE", "LIST", "WRITES"},
               job : Assignments \cup {None}, ws : Reservations \cup {None}]]
  <1>0. Rest
    BY DEF Inv, TypeOK
  <1>1. Rest' /\ Reading'
    <2> USE <1>0 DEF Inv, Reading, Open, Doubt, NoCaller
    <2>1. CASE UNCHANGED vars
      BY <2>1 DEF vars
    <2>2. ASSUME NEW c \in Callers, NEW a \in Assignments, ReadWorkspace(c, a)
          PROVE Rest' /\ Reading'
      BY <2>2 DEF ReadWorkspace
    <2>3. ASSUME NEW c \in Callers, NEW r \in Reservations,
                 ReserveWorkspace(c, r)
          PROVE Rest' /\ Reading'
      BY <2>3 DEF ReserveWorkspace
    <2>4. ASSUME NEW c \in Callers, ReadWrites(c)
          PROVE Rest' /\ Reading'
      BY <2>4 DEF ReadWrites
    <2>5. ASSUME NEW c \in Callers, NEW w \in Writes, ReserveWrites(c, w)
          PROVE Rest' /\ Reading'
      BY <2>5 DEF ReserveWrites
    <2>6. ASSUME NEW c \in Callers, Stop(c)
          PROVE Rest' /\ Reading'
      BY <2>6 DEF Stop
    <2>7. ASSUME NEW r \in Reservations,
                 \/ ExpireLease(r) \/ RenewWorkspace(r) \/ ReleaseWorkspace(r)
                 \/ RecoverStaleWorkspace(r)
          PROVE Rest' /\ Reading'
      BY <2>7 DEF ExpireLease, RenewWorkspace, ReleaseWorkspace,
                  RecoverStaleWorkspace
    <2>8. ASSUME NEW r \in Reservations, NEW a \in Assignments,
                 ReserveAttempt(a, r)
          PROVE Rest' /\ Reading'
      BY <2>8 DEF ReserveAttempt
    <2>9. ASSUME NEW a \in Assignments,
                 \/ DropAttempt(a) \/ ClaimLaunch(a) \/ CompleteAttempt(a)
                 \/ CompleteCancellation(a) \/ PauseForUsage(a)
                 \/ ResumeAfterUsageReset(a) \/ ReconcileCancellation(a)
          PROVE Rest' /\ Reading'
      BY <2>9 DEF DropAttempt, ClaimLaunch, CompleteAttempt,
                  CompleteCancellation, PauseForUsage, ResumeAfterUsageReset,
                  ReconcileCancellation
    <2>10. ASSUME NEW a \in Assignments, NEW doubt \in Doubt,
                  MarkUncertain(a, doubt)
           PROVE Rest' /\ Reading'
      BY <2>10 DEF MarkUncertain
    <2>q. QED
      BY <2>1, <2>2, <2>3, <2>4, <2>5, <2>6, <2>7, <2>8, <2>9, <2>10 DEF Next
  <1>q. QED
    BY <1>1, StepOwned DEF TypeOK, Typed

-----------------------------------------------------------------------------
(* Uncertainty                                                              *)

\* A launch claim leaves doubt only by reconciliation.
LEMMA DoubtStays ==
  ASSUME Inv, [Next]_vars, ~Settled, NEW a \in Assignments, launch[a] \in Doubt
  PROVE  launch'[a] \in Doubt
  <1> USE DEF Inv, TypeOK, Doubt, Open
  <1>1. CASE UNCHANGED launch
    BY <1>1
  <1>2. ASSUME NEW b \in Assignments, NEW r \in Reservations,
               ReserveAttempt(b, r)
        PROVE  launch'[a] \in Doubt
    BY <1>2 DEF ReserveAttempt, Launchable
  <1>3. ASSUME NEW b \in Assignments,
               \/ DropAttempt(b) \/ ClaimLaunch(b) \/ CompleteAttempt(b)
               \/ CompleteCancellation(b)
        PROVE  launch'[a] \in Doubt
    BY <1>3 DEF DropAttempt, ClaimLaunch, CompleteAttempt, CompleteCancellation
  <1>4. ASSUME NEW b \in Assignments, NEW doubt \in Doubt,
               MarkUncertain(b, doubt)
        PROVE  launch'[a] \in Doubt
    BY <1>4 DEF MarkUncertain
  <1>q. QED
    BY <1>1, <1>2, <1>3, <1>4
       DEF Next, vars, ReadWorkspace, ReserveWorkspace, ReadWrites,
           ReserveWrites, Stop, ExpireLease, RenewWorkspace, ReleaseWorkspace,
           RecoverStaleWorkspace, PauseForUsage, ResumeAfterUsageReset, Settled

\* Reservations become uncertain with the attempt, and stop being it with it.
LEMMA StepDoubt ==
  ASSUME Inv, [Next]_vars
  PROVE  UncertainInDoubt'
  <1> USE DEF Inv, UncertainInDoubt, Owner
  <1>1. ASSUME ~Settled,
               \A r \in Reservations :
                  workspace'[r].state = "UNCERTAIN" =>
                     /\ workspace[r].state = "UNCERTAIN"
                     /\ Owner(r)' = Owner(r)
        PROVE  UncertainInDoubt'
    <2>1. \A r \in Reservations :
            workspace[r].state = "UNCERTAIN" => Owner(r) \in Assignments
      BY DEF Owned, NoWorkspace
    <2>q. QED
      BY <1>1, <2>1, DoubtStays
  <1>2. CASE Quiet /\ ~Settled
    BY <1>2, <1>1 DEF Quiet, reservations
  <1>3. CASE Given /\ ~Settled
    BY <1>3, <1>1 DEF Given, GiveUp, TypeOK
  <1>4. CASE Taken /\ ~Settled
    <2>1. ASSUME NEW c \in Callers, NEW r \in Reservations,
                 ReserveWorkspace(c, r), NEW q \in Reservations,
                 workspace'[q].state = "UNCERTAIN"
          PROVE  workspace'[q] = workspace[q]
      BY <2>1 DEF ReserveWorkspace, TypeOK
    <2>2. ASSUME NEW c \in Callers, NEW w \in Writes, ReserveWrites(c, w)
          PROVE  workspace' = workspace
      BY <2>2 DEF ReserveWrites
    <2>q. QED
      BY <1>4, <1>1, <2>1, <2>2 DEF Taken
  <1>5. CASE Doubted
    <2> PICK a \in Assignments, doubt \in Doubt : MarkUncertain(a, doubt)
      BY <1>5 DEF Doubted
    <2>1. \A r \in Reservations : Owner(r)' = Owner(r)
      BY DEF MarkUncertain, Mirror, InState
    <2>2. launch'[a] \in Doubt /\ \A b \in Assignments \ {a} :
                                     launch'[b] = launch[b]
      BY DEF MarkUncertain, TypeOK
    <2>3. \A r \in Reservations : workspace'[r].state = "UNCERTAIN" =>
            workspace[r].state = "UNCERTAIN" \/ Owner(r) = a
      BY DEF MarkUncertain, Mirror, InState
    <2>4. \A r \in Reservations :
            workspace[r].state = "UNCERTAIN" => Owner(r) \in Assignments
      BY DEF Owned, NoWorkspace
    <2>q. QED
      BY <2>1, <2>2, <2>3, <2>4
  <1>6. CASE Settled
    <2> PICK a \in Assignments : ReconcileCancellation(a)
      BY <1>6 DEF Settled
    <2>1. \A r \in Reservations : Owner(r)' = Owner(r)
      BY DEF ReconcileCancellation, Mirror, InState
    <2>2. \A b \in Assignments \ {a} : launch'[b] = launch[b]
      BY DEF ReconcileCancellation, TypeOK
    <2>3. \A r \in Reservations : workspace'[r].state = "UNCERTAIN" =>
            workspace[r].state = "UNCERTAIN" /\ Owner(r) # a
      BY DEF ReconcileCancellation, Mirror, InState, TypeOK
    <2>4. \A r \in Reservations :
            workspace[r].state = "UNCERTAIN" => Owner(r) \in Assignments
      BY DEF Owned, NoWorkspace
    <2>q. QED
      BY <2>1, <2>2, <2>3, <2>4
  <1>q. QED
    BY <1>2, <1>3, <1>4, <1>5, <1>6, Steps

-----------------------------------------------------------------------------
(* Exclusion                                                                *)

\* Every step that reserves nothing new leaves the writers alone.
LEMMA StepAlone ==
  ASSUME Inv, [Next]_vars
  PROVE  WritersAlone'
  <1> USE DEF Inv, Owner
  <1>1. ASSUME \A r \in Reservations :
                  workspace'[r].state \in Held =>
                     /\ workspace[r].state \in Held
                     /\ Owner(r)' = Owner(r)
        PROVE  WritersAlone'
    BY <1>1 DEF WritersAlone
  <1>2. CASE Quiet
    BY <1>2, <1>1 DEF Quiet, reservations
  <1>3. CASE Given
    BY <1>3, <1>1 DEF Given, GiveUp, TypeOK, Held
  <1>4. ASSUME NEW a \in Assignments, NEW from \in Held, NEW to \in Held,
               Mirror(a, from, to)
        PROVE  WritersAlone'
    BY <1>4, <1>1 DEF Mirror, InState
  <1>5. CASE Doubted
    BY <1>5, <1>4 DEF Doubted, MarkUncertain, Held
  <1>6. CASE Settled
    BY <1>6, <1>4 DEF Settled, ReconcileCancellation, Held
  <1>7. ASSUME NEW c \in Callers, NEW w \in Writes, ReserveWrites(c, w)
        PROVE  WritersAlone'
    BY <1>7, <1>1 DEF ReserveWrites
  <1>8. ASSUME NEW c \in Callers, NEW r \in Reservations, ReserveWorkspace(c, r)
        PROVE  WritersAlone'
    <2> DEFINE a == caller[c].job
    <2>1. \A q \in Reservations \ {r} : workspace'[q] = workspace[q]
      BY <1>8 DEF ReserveWorkspace, TypeOK
    <2>2. workspace'[r].assignment = a
      BY <1>8 DEF ReserveWorkspace, TypeOK
    <2>3. \A q \in Reservations \ {r} :
            /\ workspace[q].state \in Held
            /\ Overlap(Directory[a], Directory[Owner(q)])
            => IsReader(a) /\ IsReader(Owner(q))
      <3>1. \A q \in Reservations :
              workspace[q].state \in Held => wsClaim[q] \in Held
        BY DEF Agree, ClaimsMirrorRecords
      <3>2. ~Incompatible(a)
        BY <1>8 DEF ReserveWorkspace
      <3>q. QED
        BY <3>1, <3>2 DEF Incompatible
    <2>4. \A p, q : Overlap(p, q) <=> Overlap(q, p)
      BY DEF Overlap
    <2>q. QED
      BY <2>1, <2>2, <2>3, <2>4 DEF WritersAlone
  <1>q. QED
    BY <1>2, <1>3, <1>5, <1>6, <1>7, <1>8, Steps DEF Taken

-----------------------------------------------------------------------------
(* Records, claims and writes                                               *)

\* The workspace of a write reservation is a writer's and in the same state.
Linked(w) ==
    LET r == write[w].workspace IN
    /\ r \in Reservations /\ Owner(r) \in Assignments /\ ~IsReader(Owner(r))
    /\ workspace[r].state = write[w].state

Apart(v, w) == \A j \in ScopesOf(v), k \in ScopesOf(w) : ~Overlap(j, k)

\* The claims say what the records say, and the writes in force are those of
\* workspaces in the same state, with scopes of their own.
LEMMA StepAgree ==
  ASSUME Inv, [Next]_vars
  PROVE  Agree'
  <1> USE DEF Inv, Owner
  <1>0. /\ \A r \in Reservations, s \in Held :
              workspace[r].state = s <=> wsClaim[r] = s
        /\ \A k \in Keys, s \in Held :
              writeClaim[k].state = s
                => \E w \in Writes : write[w] = writeClaim[k] /\ k \in ScopesOf(w)
        /\ \A w \in Writes : write[w].state \in Held =>
              \A k \in ScopesOf(w) : writeClaim[k] = write[w]
    BY DEF Agree, ClaimsMirrorRecords
  <1>a. \A w \in Writes :
            write[w].state \in Held => Linked(w) /\ ScopesOf(w) \subseteq Keys
    <2> SUFFICES ASSUME NEW w \in Writes, write[w].state \in Held
                 PROVE  Linked(w) /\ ScopesOf(w) \subseteq Keys
      OBVIOUS
    <2>1. /\ write[w].workspace \in Reservations
          /\ Owner(write[w].workspace) \in Assignments
      BY DEF Owned, NoWrite, Held
    <2>2. /\ write[w].workspace \in InState(Owner(write[w].workspace),
                                            write[w].state)
          /\ ~IsReader(Owner(write[w].workspace))
      BY DEF Agree, WritesBelong
    <2>3. ScopesOf(w) \subseteq Keys
      BY <2>1 DEF ScopesOf, Keys
    <2>q. QED
      BY <2>1, <2>2, <2>3 DEF InState, Linked
  <1>b. \A v, w \in Writes :
            v # w /\ write[v].state \in Held /\ write[w].state \in Held
              => Apart(v, w)
    BY DEF Agree, WritesBelong, Apart
  <1>t. \A r \in Reservations :
            workspace'[r] = [state |-> workspace'[r].state,
                             assignment |-> workspace'[r].assignment]
    BY StepOwned DEF Typed
  <1>1. CASE Quiet
    <2>1. /\ workspace' = workspace /\ wsClaim' = wsClaim
          /\ write' = write /\ writeClaim' = writeClaim
          /\ \A w : ScopesOf(w)' = ScopesOf(w)
          /\ \A a, s : InState(a, s)' = InState(a, s)
      BY <1>1 DEF Quiet, reservations, ScopesOf, InState
    <2>2. ClaimsMirrorRecords'
      BY <1>0, <2>1 DEF ClaimsMirrorRecords
    <2>3. WritesBelong'
      BY <2>1 DEF Agree, WritesBelong
    <2>q. QED
      BY <2>2, <2>3 DEF Agree
  <1>2. CASE Given
    <2> PICK r \in Reservations, to \in {"RELEASED", "STALE"} :
          Surrenderable(r) /\ GiveUp(r, to)
      BY <1>2 DEF Given
    <2>1. workspace[r].state # "UNCERTAIN"
      BY DEF Surrenderable, UncertainInDoubt, Open
    <2>2. \A q \in Reservations : Owner(q)' = Owner(q)
      BY DEF GiveUp, TypeOK
    <2>3. \A w \in Writes : write'[w].state \in Held =>
            write'[w] = write[w] /\ write[w].workspace # r
      BY <1>a, <2>1 DEF GiveUp, Held, TypeOK, Linked
    <2>4. \A w \in Writes : write[w].state \in Held /\ write[w].workspace # r
            => write'[w] = write[w]
      BY DEF GiveUp
    <2>5. \A k \in Keys : writeClaim'[k].state \in Held =>
            writeClaim'[k] = writeClaim[k]
      BY DEF GiveUp, Held
    <2>6. \A k \in Keys : writeClaim[k].workspace # r =>
            writeClaim'[k] = writeClaim[k]
      BY DEF GiveUp
    <2>7. \A q \in Reservations \ {r} : workspace'[q] = workspace[q]
      BY DEF GiveUp, TypeOK
    <2>8. \A q \in Reservations, s \in Held :
            workspace'[q].state = s <=> wsClaim'[q] = s
      BY <1>0, <2>1, <2>7 DEF GiveUp, Held, TypeOK, States
    <2>9. ClaimsMirrorRecords'
      <3>1. ASSUME NEW k \in Keys, writeClaim'[k].state \in Held
            PROVE  \E w \in Writes :
                      write'[w] = writeClaim'[k] /\ k \in ScopesOf(w)'
        <4> PICK w \in Writes : write[w] = writeClaim[k] /\ k \in ScopesOf(w)
          BY <1>0, <2>5, <3>1
        <4>1. write'[w] = write[w]
          BY <2>5, <3>1 DEF GiveUp
        <4>q. QED
          BY <1>a, <2>2, <2>5, <3>1, <4>1 DEF ScopesOf, Linked
      <3>2. ASSUME NEW w \in Writes, write'[w].state \in Held,
                   NEW k \in ScopesOf(w)'
            PROVE  writeClaim'[k] = write'[w]
        <4>1. /\ write'[w] = write[w] /\ write[w].workspace # r
              /\ k \in ScopesOf(w)
          BY <1>a, <2>2, <2>3, <3>2 DEF ScopesOf, Linked
        <4>2. k \in Keys
          BY <1>a, <3>2, <4>1
        <4>q. QED
          BY <1>0, <2>6, <3>2, <4>1, <4>2
      <3>q. QED
        BY <2>8, <3>1, <3>2 DEF ClaimsMirrorRecords
    <2>10. WritesBelong'
      <3>1. \A w \in Writes : write'[w].state \in Held =>
              ScopesOf(w)' = ScopesOf(w)
        BY <1>a, <2>2, <2>3 DEF ScopesOf, Linked
      <3>2. \A w \in Writes : write'[w].state \in Held => Linked(w)'
        BY <1>a, <2>2, <2>3, <2>7 DEF Linked
      <3>3. \A v, w \in Writes :
              v # w /\ write'[v].state \in Held /\ write'[w].state \in Held
                => Apart(v, w)'
        BY <1>b, <2>3, <3>1 DEF Apart
      <3>q. QED
        BY <1>t, <3>2, <3>3 DEF WritesBelong, Linked, Apart, InState
    <2>q. QED
      BY <2>9, <2>10 DEF Agree
  <1>3. ASSUME NEW c \in Callers, NEW r \in Reservations, ReserveWorkspace(c, r)
        PROVE  Agree'
    <2>1. /\ write' = write /\ writeClaim' = writeClaim
          /\ \A q \in Reservations \ {r} : /\ workspace'[q] = workspace[q]
                                           /\ wsClaim'[q] = wsClaim[q]
          /\ workspace'[r].state = "ACTIVE" /\ wsClaim'[r] = "ACTIVE"
          /\ workspace[r] = NoWorkspace
      BY <1>3 DEF ReserveWorkspace, TypeOK
    <2>2. \A w \in Writes : write[w].state \in Held =>
            /\ write[w].workspace # r
            /\ ScopesOf(w)' = ScopesOf(w)
      BY <1>a, <2>1, WorkspaceConstants DEF Linked, NoWorkspace, ScopesOf
    <2>3. ClaimsMirrorRecords'
      <3>1. \A q \in Reservations, s \in Held :
              workspace'[q].state = s <=> wsClaim'[q] = s
        BY <1>0, <2>1
      <3>2. \A k \in Keys, s \in Held :
              writeClaim[k].state = s
                => \E w \in Writes : /\ write[w] = writeClaim[k]
                                     /\ k \in ScopesOf(w)'
        BY <1>0, <2>2
      <3>q. QED
        BY <1>0, <2>1, <2>2, <3>1, <3>2 DEF ClaimsMirrorRecords
    <2>4. \A w \in Writes : write'[w].state \in Held => Linked(w)'
      BY <1>a, <2>1, <2>2 DEF Linked
    <2>5. \A v, w \in Writes :
            v # w /\ write'[v].state \in Held /\ write'[w].state \in Held
              => Apart(v, w)'
      BY <1>b, <2>1, <2>2 DEF Apart
    <2>q. QED
      BY <1>t, <2>3, <2>4, <2>5 DEF Agree, WritesBelong, Linked, Apart, InState
  <1>4. ASSUME NEW c \in Callers, NEW w \in Writes, ReserveWrites(c, w)
        PROVE  Agree'
    <2> DEFINE a == caller[c].job
               r == caller[c].ws
               row == [state |-> "ACTIVE", workspace |-> r]
    <2>1. a \in Assignments /\ r \in Reservations /\ ~IsReader(a)
      BY <1>4 DEF Reading, ReserveWrites
    <2>2. /\ workspace' = workspace /\ wsClaim' = wsClaim
          /\ workspace[r] = [state |-> "ACTIVE", assignment |-> a]
          /\ write[w].state = "FREE" /\ write'[w] = row
          /\ \A v \in Writes \ {w} : write'[v] = write[v]
          /\ \A k \in Keys :
                writeClaim'[k] = IF k \in Scopes[a] THEN row ELSE writeClaim[k]
      BY <1>4 DEF ReserveWrites, NoWrite, TypeOK
    <2>3. /\ ScopesOf(w)' = Scopes[a] /\ Scopes[a] \subseteq Keys
          /\ \A v \in Writes \ {w} : ScopesOf(v)' = ScopesOf(v)
      BY <2>1, <2>2 DEF ScopesOf, Keys
    <2>4. \A v \in Writes \ {w} : write[v].state \in Held =>
            \A j \in ScopesOf(v), k \in Scopes[a] :
               ~Overlap(j, k) /\ ~Overlap(k, j)
      <3>1. \A k \in Scopes[a] : ~Reserved(k)
        BY <1>4 DEF ReserveWrites
      <3>2. \A v \in Writes : write[v].state \in Held =>
              \A j \in ScopesOf(v) : writeClaim[j].state \in Held /\ j \in Keys
        BY <1>0, <1>a
      <3>3. \A p, q : Overlap(p, q) <=> Overlap(q, p)
        BY DEF Overlap
      <3>q. QED
        BY <3>1, <3>2, <3>3 DEF Reserved
    <2>5. \A v \in Writes \ {w} : write[v].state \in Held =>
            \A j \in ScopesOf(v) : j \in Keys /\ j \notin Scopes[a]
      BY <1>a, <2>4 DEF Overlap
    <2>6. ClaimsMirrorRecords'
      <3>1. ASSUME NEW k \in Keys, writeClaim'[k].state \in Held
            PROVE  \E v \in Writes :
                      write'[v] = writeClaim'[k] /\ k \in ScopesOf(v)'
        <4>1. CASE k \in Scopes[a]
          BY <2>2, <2>3, <4>1
        <4>2. CASE k \notin Scopes[a]
          <5>1. writeClaim'[k] = writeClaim[k]
            BY <2>2, <4>2
          <5> PICK v \in Writes : write[v] = writeClaim[k] /\ k \in ScopesOf(v)
            BY <1>0, <3>1, <5>1
          <5>2. v # w
            BY <2>2, <3>1, <5>1 DEF Held
          <5>q. QED
            BY <2>2, <2>3, <5>1, <5>2
        <4>q. QED
          BY <4>1, <4>2
      <3>2. ASSUME NEW v \in Writes, write'[v].state \in Held,
                   NEW k \in ScopesOf(v)'
            PROVE  writeClaim'[k] = write'[v]
        <4>1. CASE v = w
          BY <2>2, <2>3, <4>1
        <4>2. CASE v # w
          BY <1>0, <2>2, <2>3, <2>5, <3>2, <4>2
        <4>q. QED
          BY <4>1, <4>2
      <3>q. QED
        BY <1>0, <2>2, <3>1, <3>2 DEF ClaimsMirrorRecords
    <2>7. \A v \in Writes : write'[v].state \in Held => Linked(v)'
      BY <1>a, <2>1, <2>2 DEF Linked
    <2>8. ASSUME NEW u \in Writes, NEW v \in Writes, u # v,
                 write'[u].state \in Held, write'[v].state \in Held
          PROVE  Apart(u, v)'
      BY <1>b, <2>2, <2>3, <2>4, <2>8 DEF Apart
    <2>q. QED
      BY <1>t, <2>6, <2>7, <2>8 DEF Agree, WritesBelong, Linked, Apart, InState
  <1>5. ASSUME NEW a \in Assignments, NEW from \in Held, NEW to \in Held,
               Mirror(a, from, to)
        PROVE  Agree'
    <2>1. /\ \A q \in Reservations : Owner(q)' = Owner(q)
          /\ \A q \in Reservations, s \in Held :
                workspace'[q].state = s <=> wsClaim'[q] = s
      BY <1>0, <1>5, WorkspaceConstants
         DEF Mirror, InState, TypeOK, Held
    <2>2. \A v \in Writes : write'[v].state \in Held =>
            /\ write[v].state \in Held
            /\ write'[v].workspace = write[v].workspace
            /\ ScopesOf(v)' = ScopesOf(v)
      <3>1. \A v \in Writes :
               /\ write'[v].workspace = write[v].workspace
               /\ write'[v].state \in Held => write[v].state \in Held
        BY <1>5 DEF Mirror
      <3>q. QED
        BY <1>a, <2>1, <3>1 DEF ScopesOf, Linked
    <2>3. \A v \in Writes, k \in Keys : write[v] = writeClaim[k] =>
            write'[v] = writeClaim'[k]
      BY <1>5 DEF Mirror
    <2>4. ClaimsMirrorRecords'
      <3>1. ASSUME NEW k \in Keys, writeClaim'[k].state \in Held
            PROVE  \E v \in Writes :
                      write'[v] = writeClaim'[k] /\ k \in ScopesOf(v)'
        <4>1. writeClaim[k].state \in Held
          BY <1>5, <3>1 DEF Mirror
        <4> PICK v \in Writes : write[v] = writeClaim[k] /\ k \in ScopesOf(v)
          BY <1>0, <4>1
        <4>q. QED
          BY <2>2, <2>3, <3>1
      <3>2. ASSUME NEW v \in Writes, write'[v].state \in Held,
                   NEW k \in ScopesOf(v)'
            PROVE  writeClaim'[k] = write'[v]
        BY <1>0, <1>a, <2>2, <2>3, <3>2
      <3>q. QED
        BY <2>1, <3>1, <3>2 DEF ClaimsMirrorRecords
    <2>5. \A v \in Writes : write'[v].state \in Held => Linked(v)'
      <3> SUFFICES ASSUME NEW v \in Writes, write'[v].state \in Held
                   PROVE  Linked(v)'
        OBVIOUS
      <3>1. Linked(v) /\ write'[v].workspace = write[v].workspace
        BY <1>a, <2>2
      <3> DEFINE q == write[v].workspace
      <3>2. /\ q \in Reservations /\ workspace[q].state = write[v].state
            /\ workspace[q] = [state |-> workspace[q].state,
                               assignment |-> workspace[q].assignment]
            /\ q # None
        BY <3>1, WorkspaceConstants DEF Linked, TypeOK
      <3>3. workspace'[q].state = write'[v].state
        BY <1>5, <3>2 DEF Mirror, InState
      <3>q. QED
        BY <2>1, <3>1, <3>3 DEF Linked
    <2>6. \A u, v \in Writes :
            u # v /\ write'[u].state \in Held /\ write'[v].state \in Held
              => Apart(u, v)'
      BY <1>b, <2>2 DEF Apart
    <2>q. QED
      BY <1>t, <2>4, <2>5, <2>6 DEF Agree, WritesBelong, Linked, Apart, InState
  <1>6. CASE Doubted
    BY <1>6, <1>5 DEF Doubted, MarkUncertain, Held
  <1>7. CASE Settled
    BY <1>7, <1>5 DEF Settled, ReconcileCancellation, Held
  <1>q. QED
    BY <1>1, <1>2, <1>3, <1>4, <1>6, <1>7, Steps DEF Taken

-----------------------------------------------------------------------------
(* The workspace of an open attempt                                         *)

Kept(a, s) ==
    /\ uses[a] \in InState(a, s)
    /\ IsReader(a) \/ \E w \in Writes :
          write[w] = [state |-> s, workspace |-> uses[a]]

\* An open attempt keeps its workspace and, for a writer, the writes of it: they
\* become uncertain with the attempt, and nobody can give them up while it is open.
LEMMA StepKeeps ==
  ASSUME Inv, [Next]_vars
  PROVE  AttemptKeepsWorkspace'
  <1> SUFFICES ASSUME NEW a \in Assignments, launch'[a] \in Open
               PROVE  /\ launch'[a] \in Doubt => Kept(a, "UNCERTAIN")'
                      /\ launch'[a] \notin Doubt => Kept(a, "ACTIVE")'
    BY DEF AttemptKeepsWorkspace, Kept
  <1> DEFINE Goal == /\ launch'[a] \in Doubt => Kept(a, "UNCERTAIN")'
                     /\ launch'[a] \notin Doubt => Kept(a, "ACTIVE")'
  <1>0. launch[a] \in Open =>
            /\ launch[a] \in Doubt => Kept(a, "UNCERTAIN")
            /\ launch[a] \notin Doubt => Kept(a, "ACTIVE")
    BY DEF Inv, AttemptKeepsWorkspace, Kept
  <1>k. ASSUME NEW s \in Held, Kept(a, s), uses'[a] = uses[a],
               workspace'[uses[a]] = workspace[uses[a]],
               \A w \in Writes :
                  write[w] = [state |-> s, workspace |-> uses[a]]
                     => write'[w] = write[w]
        PROVE  Kept(a, s)'
    BY <1>k DEF Kept, InState
  <1>q1. UNCHANGED reservations =>
            \A s \in Held : Kept(a, s) /\ uses'[a] = uses[a] => Kept(a, s)'
    BY <1>k DEF reservations
  <1>1. ASSUME UNCHANGED <<reservations, launch, uses>>
        PROVE  Goal
    BY <1>1, <1>0, <1>q1 DEF Held
  <1>2. ASSUME NEW b \in Assignments, NEW r \in Reservations,
               ReserveAttempt(b, r)
        PROVE  Goal
    <2>1. CASE b # a
      BY <1>2, <1>0, <1>q1, <2>1 DEF ReserveAttempt, Inv, TypeOK, Held
    <2>2. CASE b = a
      <3>1. /\ launch'[a] = "RESERVED" /\ uses'[a] = r
            /\ workspace' = workspace /\ write' = write
        BY <1>2, <2>2 DEF ReserveAttempt, reservations, Inv, TypeOK
      <3>2. r \in InState(a, "ACTIVE")
        BY <1>2, <2>2 DEF ReserveAttempt, Launchable
      <3>3. IsReader(a) \/ \E w \in Writes :
               write[w] = [state |-> "ACTIVE", workspace |-> r]
        BY <1>2, <2>2 DEF ReserveAttempt, Launchable, Inv, Agree,
                          ClaimsMirrorRecords, Held
      <3>q. QED
        BY <3>1, <3>2, <3>3 DEF Kept, InState, Doubt
    <2>q. QED
      BY <2>1, <2>2
  <1>3. ASSUME NEW b \in Assignments,
               \/ DropAttempt(b) \/ ClaimLaunch(b) \/ CompleteAttempt(b)
               \/ CompleteCancellation(b)
        PROVE  Goal
    <2>1. UNCHANGED reservations /\ uses' = uses
      BY <1>3 DEF DropAttempt, ClaimLaunch, CompleteAttempt,
                  CompleteCancellation
    <2>2. launch'[a] = launch[a]
             \/ (launch[a] = "RESERVED" /\ launch'[a] = "LAUNCHED")
      BY <1>3 DEF DropAttempt, ClaimLaunch, CompleteAttempt,
                  CompleteCancellation, Inv, TypeOK, Open, Doubt
    <2>q. QED
      BY <1>0, <1>q1, <2>1, <2>2 DEF Open, Doubt, Held
  <1>4. CASE Given
    <2> PICK r \in Reservations, to \in {"RELEASED", "STALE"} :
          Surrenderable(r) /\ GiveUp(r, to) /\ UNCHANGED <<launch, uses>>
      BY <1>4 DEF Given
    <2>1. Owner(r) # a
      BY DEF Surrenderable
    <2>2. ASSUME NEW s \in Held, Kept(a, s)
          PROVE  Kept(a, s)'
      <3>1. uses[a] \in Reservations /\ uses[a] # r
        BY <2>1, <2>2 DEF Kept, InState, Owner
      <3>q. QED
        BY <1>k, <2>2, <3>1 DEF GiveUp, Inv, TypeOK
    <2>q. QED
      BY <1>0, <2>2 DEF Held
  <1>5. ASSUME NEW c \in Callers, NEW r \in Reservations, ReserveWorkspace(c, r)
        PROVE  Goal
    <2>1. ASSUME NEW s \in Held, Kept(a, s)
          PROVE  Kept(a, s)'
      <3>1. uses[a] \in Reservations /\ uses[a] # r
        BY <1>5, <2>1 DEF Kept, InState, ReserveWorkspace, NoWorkspace, Held
      <3>q. QED
        BY <1>5, <1>k, <2>1, <3>1 DEF ReserveWorkspace, Inv, TypeOK
    <2>q. QED
      BY <1>0, <1>5, <2>1 DEF ReserveWorkspace, Held
  <1>6. ASSUME NEW c \in Callers, NEW w \in Writes, ReserveWrites(c, w)
        PROVE  Goal
    <2>1. ASSUME NEW s \in Held, Kept(a, s)
          PROVE  Kept(a, s)'
      BY <1>6, <1>k, <2>1 DEF ReserveWrites, NoWrite, Held, Inv, TypeOK
    <2>q. QED
      BY <1>0, <1>6, <2>1 DEF ReserveWrites, Held
  <1>7. ASSUME NEW b \in Assignments, NEW from \in Held, NEW to \in Held,
               Mirror(b, from, to), uses' = uses
        PROVE  /\ \A s \in Held : b # a /\ Kept(a, s) => Kept(a, s)'
               /\ b = a /\ Kept(a, from) => Kept(a, to)'
    <2>1. ASSUME NEW s \in Held, b # a, Kept(a, s)
          PROVE  Kept(a, s)'
      <3>1. uses[a] \in Reservations /\ Owner(uses[a]) = a
        BY <2>1 DEF Kept, InState, Owner
      <3>2. workspace'[uses[a]] = workspace[uses[a]]
        BY <1>7, <2>1, <3>1 DEF Mirror, InState, Owner
      <3>3. ASSUME NEW w \in Writes,
                   write[w] = [state |-> s, workspace |-> uses[a]]
            PROVE  write'[w] = write[w]
        BY <1>7, <2>1, <3>1, <3>3 DEF Mirror
      <3>q. QED
        BY <1>7, <1>k, <2>1, <3>2, <3>3
    <2>2. ASSUME b = a, Kept(a, from)
          PROVE  Kept(a, to)'
      <3>1. /\ uses[a] \in Reservations /\ uses[a] # None
            /\ uses[a] \in InState(a, from) /\ Owner(uses[a]) = a
        BY <2>2, WorkspaceConstants DEF Kept, InState, Owner
      <3>2. uses'[a] \in InState(a, to)'
        BY <1>7, <2>2, <3>1 DEF Mirror, InState
      <3>3. \A w \in Writes :
               write[w] = [state |-> from, workspace |-> uses[a]] =>
                  write'[w] = [state |-> to, workspace |-> uses'[a]]
        BY <1>7, <2>2, <3>1 DEF Mirror
      <3>q. QED
        BY <2>2, <3>2, <3>3 DEF Kept
    <2>q. QED
      BY <2>1, <2>2
  <1>8. CASE Doubted
    <2> PICK b \in Assignments, doubt \in Doubt : MarkUncertain(b, doubt)
      BY <1>8 DEF Doubted
    <2>1. /\ Mirror(b, "ACTIVE", "UNCERTAIN") /\ uses' = uses
          /\ launch[b] \in {"LAUNCHED", "RESERVED"} /\ launch'[b] \in Doubt
          /\ b # a => launch'[a] = launch[a]
      BY DEF MarkUncertain, Inv, TypeOK
    <2>2. /\ \A s \in Held : b # a /\ Kept(a, s) => Kept(a, s)'
          /\ b = a /\ Kept(a, "ACTIVE") => Kept(a, "UNCERTAIN")'
      BY <1>7, <2>1 DEF Held
    <2>q. QED
      BY <1>0, <2>1, <2>2 DEF Open, Doubt, Held
  <1>9. CASE Settled
    <2> PICK b \in Assignments : ReconcileCancellation(b)
      BY <1>9 DEF Settled
    <2>1. /\ Mirror(b, "UNCERTAIN", "ACTIVE") /\ uses' = uses
          /\ launch'[b] = "CANCELED"
          /\ b # a => launch'[a] = launch[a]
      BY DEF ReconcileCancellation, Inv, TypeOK
    <2>2. \A s \in Held : b # a /\ Kept(a, s) => Kept(a, s)'
      BY <1>7, <2>1 DEF Held
    <2>q. QED
      BY <1>0, <2>1, <2>2 DEF Open, Doubt, Held
  <1>10. UNCHANGED vars => UNCHANGED <<reservations, launch, uses>>
    BY DEF vars, reservations
  <1>q. QED
    BY <1>1, <1>2, <1>3, <1>4, <1>5, <1>6, <1>8, <1>9, <1>10
       DEF Next, ReadWorkspace, ReadWrites, Stop, ExpireLease, RenewWorkspace,
           ReleaseWorkspace, RecoverStaleWorkspace, Given, Doubted, Settled,
           PauseForUsage, ResumeAfterUsageReset

-----------------------------------------------------------------------------

\* The invariant of the reservations holds in every reachable state.
LEMMA Invariance == Spec => []Inv
  <1>1. Inv /\ [Next]_vars => Inv'
    BY StepOwned, StepTyped, StepDoubt, StepAgree, StepAlone, StepKeeps
       DEF Inv
  <1>q. QED
    BY InitInv, <1>1, PTL DEF Spec

\* Records, claims, leases and threads have the values the code gives them.
THEOREM TypeCorrect == Spec => []TypeOK
  <1>1. Inv => TypeOK
    BY DEF Inv
  <1>q. QED
    BY <1>1, Invariance, PTL

\* Two reservations in force on overlapping paths are both readers', for any
\* tree of paths.
THEOREM WritersExclude == Spec => []WritersAlone
  <1>1. Inv => WritersAlone
    BY DEF Inv
  <1>q. QED
    BY <1>1, Invariance, PTL

\* The rows that decide exclusion say what the records say.
THEOREM ClaimsAgree == Spec => []ClaimsMirrorRecords
  <1>1. Inv => ClaimsMirrorRecords
    BY DEF Inv, Agree
  <1>q. QED
    BY <1>1, Invariance, PTL

\* Write reservations in force follow a writer's workspace and share no scope.
THEOREM WritesFollow == Spec => []WritesBelong
  <1>1. Inv => WritesBelong
    BY DEF Inv, Agree
  <1>q. QED
    BY <1>1, Invariance, PTL

\* No release, recovery, reservation or bulk update of any other assignment
\* takes the workspace from under an open attempt.
THEOREM AttemptKeeps == Spec => []AttemptKeepsWorkspace
  <1>1. Inv => AttemptKeepsWorkspace
    BY DEF Inv
  <1>q. QED
    BY <1>1, Invariance, PTL
=============================================================================
