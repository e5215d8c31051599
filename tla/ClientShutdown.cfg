SPECIFICATION Spec
CONSTANTS
    Ops = {1, 2}
    Callers = {1}
    Closers = {1, 2}
    Simulate = TRUE
    MaxConns = 2
    MaxFaults = 1
INVARIANTS
    TypeOK
    ClosedIsQuiet
    ConnectionsEnd
PROPERTIES
    WaitersAnswered
CHECK_DEADLOCK FALSE
