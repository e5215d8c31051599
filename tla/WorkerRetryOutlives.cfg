SPECIFICATION Spec
CONSTANTS
    NRuns = 2
    NSteps = 2
    NSubs = 2
    NTasks = 4
    NEvents = 1
    MaxFaults = 4
    Overlap = FALSE
INVARIANT RetryEndsWithWorker
CHECK_DEADLOCK FALSE
