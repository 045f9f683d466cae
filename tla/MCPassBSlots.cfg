\* One coordinator that may die at any step, beside cancellations, restarts and
\* lease expiry; two assignments share a session with two slots.  No symmetry,
\* for liveness.
SPECIFICATION FairSpec
CONSTANTS
    a1 = a1
    a2 = a2
    s1 = s1
    r1 = r1
    r2 = r2
    t1 = t1
    t2 = t2
    t3 = t3
    Assignments = {a1, a2}
    Attempts = {t1, t2}
    Runners = {r1}
    Sessions = {s1}
    SessionOf <- OneSession
    Limit <- TwoLimit
    None = None
CHECK_DEADLOCK FALSE
INVARIANTS
    SessionAccounting
    StoppedNeverCompletes
    DoneHoldsNoUsage
PROPERTIES
    EveryAttemptSettles
