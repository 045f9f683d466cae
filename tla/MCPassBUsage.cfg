\* Two assignments that fit into the pool together only while it is unused.
SPECIFICATION Spec
CONSTANTS
    a1 = a1
    a2 = a2
    c1 = c1
    c2 = c2
    Assignments = {a1, a2}
    Callers = {c1, c2}
    Amount <- TwoAmounts
    Capacity = 3
    Total <- SumOfAmounts
    None = None
SYMMETRY CallerSymmetry
INVARIANTS
    PoolConserved
    WaitsForExhaustedPool
PROPERTIES
    ResumesAfterReset
