CONSTANTS
    s1 = s1  s2 = s2
    a1 = a1  a2 = a2  a3 = a3  a4 = a4  a5 = a5  a6 = a6
    x1 = x1  x2 = x2  y1 = y1  p1 = p1  p2 = p2
    None = None
    Steps = {s1, s2}
    Before <- InOrder
    Assignments = {a1, a2, a3, a4, a5}
    Sessions = {x1, x2, y1}
    ProviderOf <- TwoProviders
SPECIFICATION Spec
INVARIANTS OneCurrentAssignment ReviewedWorkStands CompletionIsExact
PROPERTY PlanIsReviewed
SYMMETRY Symmetry
CHECK_DEADLOCK FALSE
