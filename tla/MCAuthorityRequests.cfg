SPECIFICATION FairSpec
CONSTANTS
    r1 = r1
    r2 = r2
    a1 = a1
    a2 = a2
    t1 = t1
    t2 = t2
    w1 = w1
    None = None
    Threads = {t1, t2}
    MaxGeneration = 1
    Attempts = {a1}
    Registrations = {r1}
    RegistrationOf <- OneRegistration
    WorkspaceOf <- OneWorkspace
    Reviewers = {a1}
INVARIANTS
    ClaimNeedsAuthorization
PROPERTIES
    FencedIsFrozen
    OutcomeStands
    LockIsReleased
    CancellationReturns
