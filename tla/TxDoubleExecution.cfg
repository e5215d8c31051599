SPECIFICATION Spec
CONSTANTS
    Ops = {p1}
    MaxRetries = 2
    GraceChecks = 3
    RetryDelay = FALSE
    HasTimeout = FALSE
    MaxForeign = 0
    Faults = {"slow"}
INVARIANT NoDoubleExecution
CHECK_DEADLOCK FALSE
