SPECIFICATION Spec
CONSTANTS
    w1 = w1
    w2 = w2
    Workers = {w1, w2}
    Plans = {1}
    LastStage = 1
    Limit = 1
    MaxRetries = 1
    MaxAttempts = 3
INVARIANTS
    TypeOK
    OneOpenAttempt
    SpendingIsAccounted
    CompletedIsReviewed
    CanceledIsStill
SYMMETRY Symmetry
CHECK_DEADLOCK FALSE
