SPECIFICATION Spec
CONSTANTS
    r1 = r1
    r2 = r2
    a1 = a1
    a2 = a2
    t1 = t1
    t2 = t2
    w1 = w1
    None = None
    Threads = {t1, t2}
    MaxGeneration = 2
    Attempts = {a1, a2}
    Registrations = {r1, r2}
    RegistrationOf <- SharedRegistration
    WorkspaceOf <- SharedWorkspace
    Reviewers = {}
INVARIANTS
    QualifiedIsBound
    RunIsRecorded
    OneLaunchPerWorkspace
CONSTRAINT Calm
SYMMETRY Symmetry
