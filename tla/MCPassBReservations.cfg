\* Two producers whose directories overlap, and a reviewer of the inner one.
SPECIFICATION Spec
CONSTANTS
    a1 = a1
    a2 = a2
    v1 = v1
    c1 = c1
    c2 = c2
    r1 = r1
    r2 = r2
    w1 = w1
    w2 = w2
    Assignments = {a1, a2, v1}
    Reservations = {r1, r2}
    Writes = {w1, w2}
    Callers = {c1, c2}
    ReadOnly = {v1}
    Paths <- ProjectPaths
    Directory <- Directories
    Scopes <- ScopeSets
    None = None
SYMMETRY Symmetry
CHECK_DEADLOCK FALSE
INVARIANTS
    WritersAlone
    ClaimsMirrorRecords
    AttemptKeepsWorkspace
