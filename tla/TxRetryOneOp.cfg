SPECIFICATION FairSpec
CONSTANTS
    Ops = {p1}
    MaxRetries = 2
    GraceChecks = 2
    RetryDelay = TRUE
    HasTimeout = TRUE
    MaxForeign = 1
    Faults = {"slow", "flaky", "lag", "ante"}
INVARIANTS TypeOK AtMostOnceUnlessAbandoned SuccessIsExecuted
PROPERTIES NoRetryPastDeadline EveryFutureResolves ImplementsContract
CHECK_DEADLOCK FALSE
