CONSTANTS
    Panes = {v1, v2}
    MaxAttempt = 1
    None = None
SPECIFICATION Spec
INVARIANTS PendingForRetry
CHECK_DEADLOCK FALSE
