-------------------------- MODULE PassBUsageProofs --------------------------
(***************************************************************************)
(* Proofs about a usage pool of Pass B, for any capacity, amounts,         *)
(* assignments and threads: nothing is created or lost, the record agrees  *)
(* with the rows, and nobody resumes before a reset.  None of it is        *)
(* inductive alone: consumption subtracts from the record what a row       *)
(* holds, so conservation needs the record and the rows to agree.          *)
(***************************************************************************)
EXTENDS PassBUsage, TLAPS

Ledger == PoolConserved /\ ReservedIsTotal

\* Nobody was paused in a generation that is still to come.
PausedBefore == \A a \in Assignments : pausedAt[a] <= pool.gen

Waiting == PausedBefore /\ WaitsForExhaustedPool

Inv == TypeOK /\ Ledger /\ Waiting

-----------------------------------------------------------------------------

\* A grant adds one amount to the total of the ACTIVE rows.
LEMMA TotalGranted ==
  ASSUME NEW a \in Assignments, usage[a] # "ACTIVE", TypeOK,
         usage' = [usage EXCEPT ![a] = "ACTIVE"]
  PROVE  /\ Total(Active) \in Nat
         /\ Total(Active') = Total(Active) + Amount[a]
  <1>1. Active' = Active \cup {a}
    BY DEF Active, TypeOK
  <1>2. Active \in SUBSET Assignments /\ a \in Assignments \ Active
    BY DEF Active
  <1>q. QED
    BY <1>1, <1>2, TotalIsSum

\* A consumption removes one amount, which the total holds.
LEMMA TotalConsumed ==
  ASSUME NEW a \in Assignments, usage[a] = "ACTIVE", TypeOK,
         usage' = [usage EXCEPT ![a] = "CONSUMED"]
  PROVE  /\ Total(Active') \in Nat
         /\ Total(Active) = Total(Active') + Amount[a]
  <1>1. Active' = Active \ {a} /\ Active = (Active \ {a}) \cup {a}
    BY DEF Active, TypeOK
  <1>2. Active \ {a} \in SUBSET Assignments /\ a \in Assignments \ (Active \ {a})
    BY DEF Active
  <1>q. QED
    BY <1>1, <1>2, TotalIsSum

\* Steps that write no row leave the total as it is.
LEMMA TotalKept ==
  ASSUME UNCHANGED usage
  PROVE  /\ Total(Active) \in Nat
         /\ Total(Active') = Total(Active)
  <1>1. Active' = Active /\ Active \in SUBSET Assignments
    BY DEF Active
  <1>q. QED
    BY <1>1, TotalIsSum

-----------------------------------------------------------------------------

\* The invariant holds for every window in which a provider is registered.
LEMMA InitInv == Init => Inv
  <1> SUFFICES ASSUME Init
               PROVE  Inv
    OBVIOUS
  <1>1. PICK used \in 0 .. Capacity, exhausted \in BOOLEAN, scheduled \in BOOLEAN :
           pool = [consumed |-> used, reserved |-> 0,
                   remaining |-> Capacity - used, exhausted |-> exhausted,
                   resettable |-> scheduled, gen |-> 1]
    BY DEF Init
  <1>2. used \in Nat /\ Capacity - used \in Nat
    BY UsageConstants
  <1>3. pool \in Pools
    BY <1>1, <1>2 DEF Pools
  <1>4. TypeOK
    BY <1>3 DEF Init, TypeOK, NoCaller
  <1>5. Active = {}
    BY DEF Init, Active
  <1>6. Ledger
    BY <1>1, <1>2, <1>5, TotalIsSum, UsageConstants
    DEF Ledger, PoolConserved, ReservedIsTotal
  <1>7. Waiting
    BY <1>1 DEF Init, Waiting, PausedBefore, WaitsForExhaustedPool
  <1>q. QED
    BY <1>4, <1>6, <1>7 DEF Inv

\* Every step keeps the pool, the rows and the waiting assignments in order.
LEMMA StepInv == Inv /\ [Next]_vars => Inv'
  <1> SUFFICES ASSUME Inv, [Next]_vars
               PROVE  Inv'
    OBVIOUS
  <1> USE UsageConstants DEF Inv, TypeOK, Pools, Ledger, Waiting
  <1>1. ASSUME NEW c \in Callers, NEW a \in Assignments, ReadPool(c, a)
        PROVE  Inv'
    <2>1. TypeOK'
      BY <1>1 DEF ReadPool
    <2>2. Ledger'
      BY <1>1, TotalKept DEF ReadPool, PoolConserved, ReservedIsTotal
    <2>3. Waiting'
      BY <1>1 DEF ReadPool, PausedBefore, WaitsForExhaustedPool
    <2>q. QED
      BY <2>1, <2>2, <2>3
  <1>2. ASSUME NEW c \in Callers, GrantUsage(c)
        PROVE  Inv'
    <2>a. PICK a \in Assignments : a = caller[c].job
      BY <1>2 DEF GrantUsage
    <2>b. /\ Amount[a] \in Nat
          /\ pool.remaining >= Amount[a]
          /\ usage[a] # "ACTIVE"
          /\ usage' = [usage EXCEPT ![a] = "ACTIVE"]
          /\ pool' = Pool(pool.consumed, pool.reserved + Amount[a],
                          pool.remaining - Amount[a], pool.exhausted)
      BY <1>2, <2>a DEF GrantUsage, Covers, Less
    <2>1. TypeOK'
      BY <1>2, <2>a, <2>b DEF GrantUsage, Pool, NoCaller
    <2>c. /\ Total(Active) \in Nat
          /\ Total(Active') = Total(Active) + Amount[a]
      BY <2>b, TotalGranted
    <2>2. Ledger'
      BY <2>b, <2>c DEF Pool, PoolConserved, ReservedIsTotal
    <2>3. Waiting'
      BY <1>2, <2>b DEF GrantUsage, Pool, PausedBefore, WaitsForExhaustedPool
    <2>q. QED
      BY <2>1, <2>2, <2>3
  <1>3. ASSUME NEW c \in Callers, PauseForUsage(c)
        PROVE  Inv'
    <2>a. PICK a \in Assignments : a = caller[c].job
      BY <1>3 DEF PauseForUsage
    <2>1. TypeOK'
      BY <1>3, <2>a DEF PauseForUsage, Exhaust, Pool, Outdated, NoCaller
    <2>2. Ledger'
      BY <1>3, TotalKept
      DEF PauseForUsage, Exhaust, Pool, PoolConserved, ReservedIsTotal
    <2>3. Waiting'
      BY <1>3, <2>a
      DEF PauseForUsage, Exhaust, Pool, PausedBefore, WaitsForExhaustedPool
    <2>q. QED
      BY <2>1, <2>2, <2>3
  <1>4. ASSUME NEW c \in Callers, Stop(c)
        PROVE  Inv'
    <2>1. TypeOK'
      BY <1>4 DEF Stop, NoCaller
    <2>2. Ledger'
      BY <1>4, TotalKept DEF Stop, PoolConserved, ReservedIsTotal
    <2>3. Waiting'
      BY <1>4 DEF Stop, PausedBefore, WaitsForExhaustedPool
    <2>q. QED
      BY <2>1, <2>2, <2>3
  <1>5. ASSUME NEW a \in Assignments, LaunchAttempt(a)
        PROVE  Inv'
    <2>1. TypeOK'
      BY <1>5 DEF LaunchAttempt, Outdate, Outdated
    <2>2. Ledger'
      BY <1>5, TotalKept DEF LaunchAttempt, PoolConserved, ReservedIsTotal
    <2>3. Waiting'
      BY <1>5 DEF LaunchAttempt, PausedBefore, WaitsForExhaustedPool
    <2>q. QED
      BY <2>1, <2>2, <2>3
  <1>6. ASSUME NEW a \in Assignments, FinishAttempt(a)
        PROVE  Inv'
    <2>1. CASE usage[a] = "ACTIVE"
      <3>1. /\ usage' = [usage EXCEPT ![a] = "CONSUMED"]
            /\ Amount[a] \in Nat
            /\ pool' = Consumed(a)
        BY <1>6, <2>1 DEF FinishAttempt
      <3>2. /\ Total(Active') \in Nat
            /\ pool.reserved = Total(Active') + Amount[a]
        BY <2>1, <3>1, TotalConsumed DEF ReservedIsTotal
      <3>3. pool' = Pool(pool.consumed + Amount[a], Total(Active'),
                         pool.remaining, pool.exhausted)
        BY <3>1, <3>2 DEF Consumed, Less
      <3>4. TypeOK'
        BY <1>6, <3>1, <3>2, <3>3 DEF FinishAttempt, Pool, Outdate, Outdated
      <3>5. Ledger'
        BY <3>1, <3>2, <3>3 DEF Pool, PoolConserved, ReservedIsTotal
      <3>6. Waiting'
        BY <1>6, <3>3 DEF FinishAttempt, Pool, PausedBefore, WaitsForExhaustedPool
      <3>q. QED
        BY <3>4, <3>5, <3>6
    <2>2. CASE usage[a] # "ACTIVE"
      <3>1. UNCHANGED <<pool, usage>>
        BY <1>6, <2>2 DEF FinishAttempt
      <3>2. TypeOK'
        BY <1>6, <3>1 DEF FinishAttempt, Outdate, Outdated
      <3>3. Ledger'
        BY <3>1, TotalKept DEF PoolConserved, ReservedIsTotal
      <3>4. Waiting'
        BY <1>6, <3>1 DEF FinishAttempt, PausedBefore, WaitsForExhaustedPool
      <3>q. QED
        BY <3>2, <3>3, <3>4
    <2>q. QED
      BY <2>1, <2>2
  <1>7. ASSUME NEW a \in Assignments, RenewWorkspace(a)
        PROVE  Inv'
    <2>1. TypeOK'
      BY <1>7 DEF RenewWorkspace, Outdate, Outdated
    <2>2. Ledger'
      BY <1>7, TotalKept DEF RenewWorkspace, PoolConserved, ReservedIsTotal
    <2>3. Waiting'
      BY <1>7 DEF RenewWorkspace, PausedBefore, WaitsForExhaustedPool
    <2>q. QED
      BY <2>1, <2>2, <2>3
  <1>8. ASSUME NEW a \in Assignments, ResumeAfterUsageReset(a)
        PROVE  Inv'
    <2>1. TypeOK'
      BY <1>8 DEF ResumeAfterUsageReset, Outdate, Outdated
    <2>2. Ledger'
      BY <1>8, TotalKept DEF ResumeAfterUsageReset, PoolConserved, ReservedIsTotal
    <2>3. Waiting'
      BY <1>8 DEF ResumeAfterUsageReset, PausedBefore, WaitsForExhaustedPool
    <2>q. QED
      BY <2>1, <2>2, <2>3
  <1>9. ASSUME NEW used \in Observable, ObserveUsageReset(used)
        PROVE  Inv'
    <2>a. /\ Total(Active) \in Nat
          /\ Total(Active') = Total(Active)
      BY <1>9, TotalKept DEF ObserveUsageReset
    <2>b. /\ used \in Nat
          /\ Capacity - used - Total(Active) \in Nat
          /\ pool' = ResetPool(used)
      BY <1>9, <2>a DEF ObserveUsageReset, Observable
    <2>1. TypeOK'
      BY <1>9, <2>a, <2>b DEF ObserveUsageReset, ResetPool
    <2>2. Ledger'
      BY <2>a, <2>b DEF ResetPool, PoolConserved, ReservedIsTotal
    <2>3. Waiting'
      BY <1>9, <2>b
      DEF ObserveUsageReset, ResetPool, PausedBefore, WaitsForExhaustedPool
    <2>q. QED
      BY <2>1, <2>2, <2>3
  <1>10. CASE UNCHANGED vars
    <2>1. TypeOK'
      BY <1>10 DEF vars
    <2>2. Ledger'
      BY <1>10, TotalKept DEF vars, PoolConserved, ReservedIsTotal
    <2>3. Waiting'
      BY <1>10 DEF vars, PausedBefore, WaitsForExhaustedPool
    <2>q. QED
      BY <2>1, <2>2, <2>3
  <1>q. QED
    BY <1>1, <1>2, <1>3, <1>4, <1>5, <1>6, <1>7, <1>8, <1>9, <1>10 DEF Next

-----------------------------------------------------------------------------
(* The theorems                                                             *)

\* The pool, its rows and the callers have the values the code gives them.
THEOREM TypeCorrect == Spec => []TypeOK
  <1>1. Inv => TypeOK
    BY DEF Inv
  <1>q. QED
    BY <1>1, InitInv, StepInv, PTL DEF Spec

\* Reservations, consumptions and resets neither create nor lose usage.
THEOREM Conservation == Spec => []PoolConserved
  <1>1. Inv => PoolConserved
    BY DEF Inv, Ledger
  <1>q. QED
    BY <1>1, InitInv, StepInv, PTL DEF Spec

\* The reserved amount of the pool record is the total of the ACTIVE rows.
THEOREM RecordMatchesRows == Spec => []ReservedIsTotal
  <1>1. Inv => ReservedIsTotal
    BY DEF Inv, Ledger
  <1>q. QED
    BY <1>1, InitInv, StepInv, PTL DEF Spec

\* A pool an assignment waits for is exhausted until its next reset.
THEOREM WaitingPool == Spec => []WaitsForExhaustedPool
  <1>1. Inv => WaitsForExhaustedPool
    BY DEF Inv, Waiting
  <1>q. QED
    BY <1>1, InitInv, StepInv, PTL DEF Spec

\* Only a resumption makes a waiting assignment READY, and it is refused while
\* the pool is exhausted, hence until a reset later than the pause.
LEMMA StepResumes ==
  ASSUME Inv, [Next]_vars, NEW a \in Assignments,
         state[a] = "WAITING_FOR_USAGE_RESET", state'[a] = "READY"
  PROVE  pausedAt[a] < pool.gen
  <1>1. state[a] # state'[a]
    OBVIOUS
  <1>2. ResumeAfterUsageReset(a)
    BY <1>1 DEF Next, vars, Inv, TypeOK, ReadPool, GrantUsage, PauseForUsage, Stop,
       LaunchAttempt, FinishAttempt, RenewWorkspace, ResumeAfterUsageReset,
       ObserveUsageReset
  <1>3. pool.gen \in Nat /\ pausedAt[a] \in Nat /\ ~pool.exhausted
    BY <1>2 DEF ResumeAfterUsageReset, Resumable, Inv, TypeOK, Pools
  <1>q. QED
    BY <1>3 DEF Inv, Waiting, PausedBefore, WaitsForExhaustedPool

\* A paused assignment resumes only after a reset accepted since its pause.
THEOREM ResumedAfterReset == Spec => ResumesAfterReset
  <1> DEFINE Resumes ==
        \A a \in Assignments :
          /\ state[a] = "WAITING_FOR_USAGE_RESET" /\ state'[a] = "READY"
          => pausedAt[a] < pool.gen
  <1>1. Inv /\ [Next]_vars => [Resumes]_vars
    BY StepResumes
  <1>q. QED
    BY <1>1, InitInv, StepInv, PTL DEF Spec, ResumesAfterReset
=============================================================================
