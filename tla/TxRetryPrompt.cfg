SPECIFICATION Spec
CONSTANTS
    Ops = {p1, p2}
    MaxRetries = 1
    GraceChecks = 1
    RetryDelay = FALSE
    HasTimeout = FALSE
    MaxForeign = 1
    Faults = {"lag"}
SYMMETRY Symmetry
INVARIANTS NoDoubleExecution FailureIsFinal
CHECK_DEADLOCK FALSE
