----------------------------- MODULE PassBUsage -----------------------------
(***************************************************************************)
(* One usage pool of Pass B and the assignments that draw on it:           *)
(* reservation or pause, consumption, the observation of a reset, and the  *)
(* resumption of a paused assignment from its checkpoint.                  *)
(*                                                                         *)
(* A method of keeper/pass_b/repository.py is one transaction and one      *)
(* action.  OrchestrationService.reserve_usage reads the pool and writes   *)
(* what it read into the checkpoint before that transaction, so reading is *)
(* an action of its own.  Pools of unknown capacity never pause anybody    *)
(* and are not modelled.                                                   *)
(***************************************************************************)
EXTENDS Naturals

CONSTANTS
    Assignments,   \* identities of assignments whose account uses this pool
    Callers,       \* threads that reserve usage
    Amount,        \* the usage amount of each assignment's profile
    Capacity,      \* UsagePoolRecord.capacity
    Total(_),      \* SELECT COALESCE(SUM(amount),0) over a set of assignments
    None           \* "no checkpoint that still matches", "no assignment"

ASSUME UsageConstants ==
    /\ Amount \in [Assignments -> Nat]
    /\ Capacity \in Nat
    /\ None \notin Assignments \cup Nat

\* What is used of SUM.
ASSUME TotalIsSum ==
    /\ Total({}) = 0
    /\ \A S \in SUBSET Assignments : Total(S) \in Nat
    /\ \A S \in SUBSET Assignments : \A a \in Assignments \ S :
          Total(S \cup {a}) = Total(S) + Amount[a]

VARIABLES
    pool,         \* the UsagePoolRecord
    usage,        \* state of the latest usage reservation of each assignment
    state,        \* AssignmentRecord.state
    claimed,      \* assignments with a launch claim that excludes another one
    checkpoint,   \* generation in the checkpoint whose revisions still match
    caller,       \* what each thread has read and not used yet
    pausedAt      \* history: the pool's generation when an assignment paused

vars == <<pool, usage, state, claimed, checkpoint, caller, pausedAt>>

NoCaller == [job |-> None, gen |-> 0, current |-> FALSE]

Pools == [consumed : Nat, reserved : Nat, remaining : Nat, exhausted : BOOLEAN,
          resettable : BOOLEAN,   \* reset_at is not None
          gen : Nat \ {0}]        \* observation_generation

TypeOK ==
    /\ pool \in Pools
    /\ usage \in [Assignments -> {"NONE", "ACTIVE", "CONSUMED"}]
    /\ state \in [Assignments -> {"READY", "WAITING_FOR_USAGE_RESET",
                                  "LAUNCHED", "DONE"}]
    /\ claimed \subseteq Assignments
    /\ checkpoint \in [Assignments -> Nat \cup {None}]
    /\ caller \in [Callers -> [job : Assignments \cup {None}, gen : Nat,
                               current : BOOLEAN]]
    /\ pausedAt \in [Assignments -> Nat]

\* A provider is registered with what has been observed of its window.
Init ==
    /\ \E used \in 0 .. Capacity, exhausted, scheduled \in BOOLEAN :
          pool = [consumed |-> used, reserved |-> 0,
                  remaining |-> Capacity - used, exhausted |-> exhausted,
                  resettable |-> scheduled, gen |-> 1]
    /\ usage = [a \in Assignments |-> "NONE"]
    /\ state = [a \in Assignments |-> "READY"]
    /\ claimed = {}
    /\ checkpoint = [a \in Assignments |-> None]
    /\ caller = [c \in Callers |-> NoCaller]
    /\ pausedAt = [a \in Assignments |-> 0]

-----------------------------------------------------------------------------

Active == {a \in Assignments : usage[a] = "ACTIVE"}

\* The pool record in the same generation.
Pool(consumed, reserved, remaining, exhausted) ==
    [consumed |-> consumed, reserved |-> reserved, remaining |-> remaining,
     exhausted |-> exhausted, resettable |-> pool.resettable, gen |-> pool.gen]

Less(m, n) == IF m >= n THEN m - n ELSE 0

\* Writing the assignment or its workspace makes revisions read before stale.
Outdated(c, a) ==
    IF caller[c].job = a
      THEN [job |-> a, gen |-> caller[c].gen, current |-> FALSE]
      ELSE caller[c]

Outdate(a) == caller' = [c \in Callers |-> Outdated(c, a)]

\* The coordinator holds an assignment, in whatever state it is, and its
\* workspace; it found no ACTIVE row and reads the pool.
ReadPool(c, a) ==
    /\ caller[c] = NoCaller
    /\ usage[a] # "ACTIVE"
    /\ caller' = [caller EXCEPT ![c] =
                    [job |-> a, gen |-> pool.gen, current |-> TRUE]]
    /\ UNCHANGED <<pool, usage, state, claimed, checkpoint, pausedAt>>

Covers(a) == ~pool.exhausted /\ pool.remaining >= Amount[a]

\* reserve_usage_or_pause with enough left; the unique index over ACTIVE rows
\* refuses a second one.
GrantUsage(c) ==
    LET a == caller[c].job IN
    /\ a # None
    /\ Covers(a)
    /\ usage[a] # "ACTIVE"
    /\ pool' = Pool(pool.consumed, pool.reserved + Amount[a],
                    Less(pool.remaining, Amount[a]), pool.exhausted)
    /\ usage' = [usage EXCEPT ![a] = "ACTIVE"]
    /\ caller' = [caller EXCEPT ![c] = NoCaller]
    /\ UNCHANGED <<state, claimed, checkpoint, pausedAt>>

\* Mutation of Exhaust: the pool is not marked.
LeaveOpen == pool' = pool

Exhaust == pool' = Pool(pool.consumed, pool.reserved, pool.remaining, TRUE)

\* reserve_usage_or_pause with too little left: the assignment waits, and its
\* checkpoint says which generation the caller had read.
PauseForUsage(c) ==
    LET a == caller[c].job IN
    /\ a # None
    /\ ~Covers(a)
    /\ Exhaust
    /\ state' = [state EXCEPT ![a] = "WAITING_FOR_USAGE_RESET"]
    /\ checkpoint' = [checkpoint EXCEPT ![a] =
                        IF caller[c].current THEN caller[c].gen ELSE None]
    /\ caller' = [d \in Callers |->
                    IF d = c THEN NoCaller ELSE Outdated(d, a)]
    /\ pausedAt' = [pausedAt EXCEPT ![a] = pool.gen]
    /\ UNCHANGED <<usage, claimed>>

\* The thread ends, refused by the unique index or for any other reason.
Stop(c) ==
    /\ caller[c] # NoCaller
    /\ caller' = [caller EXCEPT ![c] = NoCaller]
    /\ UNCHANGED <<pool, usage, state, claimed, checkpoint, pausedAt>>

\* An attempt of the assignment is launched with its ACTIVE row, unless the pool
\* was exhausted meanwhile.  Its outcome may stay open for ever.
LaunchAttempt(a) ==
    /\ state[a] = "READY" /\ a \notin claimed
    /\ usage[a] = "ACTIVE" /\ ~pool.exhausted
    /\ state' = [state EXCEPT ![a] = "LAUNCHED"]
    /\ claimed' = claimed \cup {a}
    /\ checkpoint' = [checkpoint EXCEPT ![a] = None]
    /\ Outdate(a)
    /\ UNCHANGED <<pool, usage, pausedAt>>

\* Mutation of Consumed: what is consumed stays reserved as well.
ConsumedTwice(a) == Pool(pool.consumed + Amount[a], pool.reserved,
                         pool.remaining, pool.exhausted)

Consumed(a) == Pool(pool.consumed + Amount[a], Less(pool.reserved, Amount[a]),
                    pool.remaining, pool.exhausted)

\* The attempt is completed, which keeps its launch claim, or cancelled; both
\* consume the reservation (_consume_usage).
FinishAttempt(a) ==
    /\ state[a] = "LAUNCHED"
    /\ state' = [state EXCEPT ![a] = "DONE"]
    /\ IF usage[a] = "ACTIVE"
         THEN /\ pool' = Consumed(a)
              /\ usage' = [usage EXCEPT ![a] = "CONSUMED"]
         ELSE UNCHANGED <<pool, usage>>
    /\ claimed' \in {claimed, claimed \ {a}}
    /\ checkpoint' = [checkpoint EXCEPT ![a] = None]
    /\ Outdate(a)
    /\ UNCHANGED pausedAt

\* renew_workspace advances the revision the checkpoint must match.
RenewWorkspace(a) ==
    /\ checkpoint' = [checkpoint EXCEPT ![a] = None]
    /\ Outdate(a)
    /\ UNCHANGED <<pool, usage, state, claimed, pausedAt>>

\* Active reservations keep their amounts; the rest of what was observed is
\* left.  reset_at becomes None.
ResetPool(used) ==
    LET held == Total(Active)
        left == Capacity - used - held
    IN  [consumed |-> used, reserved |-> held, remaining |-> left,
         exhausted |-> left = 0, resettable |-> FALSE, gen |-> pool.gen + 1]

\* What a validated observation may say was used: used and remaining amounts add
\* up to the capacity.
Observable == 0 .. Capacity

\* Mutation of ObserveUsageReset: the active reservations need not be covered.
\* observe_usage_reset accepts an observation of the next generation.  An older
\* one is refused, so observing and accepting is one step.
ObserveUsageReset(used) ==
    /\ pool.resettable
    /\ used + Total(Active) <= Capacity
    /\ pool' = ResetPool(used)
    /\ UNCHANGED <<usage, state, claimed, checkpoint, caller, pausedAt>>

\* Mutation of Resumable: the exhaustion of the pool is not asked.
ResumableByGeneration(a) ==
    /\ state[a] = "WAITING_FOR_USAGE_RESET"
    /\ checkpoint[a] # None
    /\ pool.gen = checkpoint[a] + 1

Resumable(a) ==
    /\ state[a] = "WAITING_FOR_USAGE_RESET"
    /\ checkpoint[a] # None
    /\ pool.gen = checkpoint[a] + 1
    /\ pool.gen >= 2
    /\ ~pool.exhausted

ResumeAfterUsageReset(a) ==
    /\ Resumable(a)
    /\ state' = [state EXCEPT ![a] = "READY"]
    /\ checkpoint' = [checkpoint EXCEPT ![a] = None]
    /\ Outdate(a)
    /\ UNCHANGED <<pool, usage, claimed, pausedAt>>

Next ==
    \/ \E c \in Callers : \/ \E a \in Assignments : ReadPool(c, a)
                          \/ GrantUsage(c) \/ PauseForUsage(c) \/ Stop(c)
    \/ \E a \in Assignments :
          \/ LaunchAttempt(a) \/ FinishAttempt(a) \/ RenewWorkspace(a)
          \/ ResumeAfterUsageReset(a)
    \/ \E used \in Observable : ObserveUsageReset(used)

Spec == Init /\ [][Next]_vars

\* The observer reports every fresh window, and attempts end.
FairSpec ==
    /\ Spec
    /\ WF_vars(ObserveUsageReset(0))
    /\ \A a \in Assignments : WF_vars(FinishAttempt(a))

-----------------------------------------------------------------------------
(* Properties                                                               *)

\* Reservation, consumption and reset move amounts between the three parts of
\* the pool; the clamps at zero in the code never swallow a difference.
PoolConserved == pool.consumed + pool.reserved + pool.remaining = Capacity

\* The reserved amount is what the ACTIVE rows hold, so a reset that computes it
\* from the rows and a consumption that subtracts from the record agree.
ReservedIsTotal == pool.reserved = Total(Active)

\* While no reset has been accepted since an assignment was paused, the pool it
\* waits for stays exhausted, for everybody.
WaitsForExhaustedPool ==
    \A a \in Assignments :
        state[a] = "WAITING_FOR_USAGE_RESET" /\ pausedAt[a] = pool.gen
            => pool.exhausted

\* A paused assignment resumes only after a reset accepted since its pause,
\* although its checkpoint names a generation read before the pause.
ResumesAfterReset ==
    [][\A a \in Assignments :
          /\ state[a] = "WAITING_FOR_USAGE_RESET" /\ state'[a] = "READY"
          => pausedAt[a] < pool.gen]_vars
=============================================================================
