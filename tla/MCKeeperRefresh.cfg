SPECIFICATION Spec
CONSTANTS
    e1 = e1
    e2 = e2
    Executions = {e1, e2}
    Wishes <- Everything
    MaxCalls <- Calls
    MaxRestarts = 1
    None = None
INVARIANT InterruptedIsPaused
CHECK_DEADLOCK FALSE
