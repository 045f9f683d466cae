\* Two coordinators drive the same assignment; three attempts are enough for a
\* first attempt that fails, one that is cancelled and one that follows.
SPECIFICATION Spec
CONSTANTS
    a1 = a1
    a2 = a2
    s1 = s1
    r1 = r1
    r2 = r2
    t1 = t1
    t2 = t2
    t3 = t3
    Assignments = {a1}
    Attempts = {t1, t2, t3}
    Runners = {r1, r2}
    Sessions = {s1}
    SessionOf <- SingleAssignment
    Limit <- TwoLimit
    None = None
SYMMETRY AttemptRunnerSymmetry
CHECK_DEADLOCK FALSE
INVARIANTS
    OneLaunchPerAssignment
    OpenOutcomeKeepsResources
PROPERTIES
    UncertainAttemptIsKept
    ImplementsOneShotLaunch
