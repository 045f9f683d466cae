SPECIFICATION FairSpec
CONSTANTS
    e1 = e1
    e2 = e2
    Executions = {e1, e2}
    Wishes <- EverythingOrPart
    MaxCalls <- Calls
    MaxRestarts = 1
    None = None
INVARIANTS
    CommitIsEarned
    CompletedIsDelivered
    ProvidersAlone
PROPERTY UnattendedIsRecovered
CHECK_DEADLOCK FALSE
