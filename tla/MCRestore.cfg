SPECIFICATION Spec
CONSTANTS
    a1 = a1
    a2 = a2
    o1 = o1
    o2 = o2
    None = None
    Attempts = {a1, a2}
    Operations = {o1, o2}
    Backups = 1
INVARIANTS
    AuthorizationIsExact
    InterruptedIsRecoverable
    LedgerOutlivesBackups
SYMMETRY Symmetry
CHECK_DEADLOCK FALSE
