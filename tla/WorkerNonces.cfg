CONSTANTS
    rep = rep
    inf = inf
    Callers <- MCCallers
    OpenedBefore <- MCOpenedBefore
    Workers = {rep, inf}
    Sequential = {rep}
    AutoStakers = {inf}
    MaxUnfulfilled = 2
    Windows <- MCWindows
    MaxNonce = 3
    MaxEvents = 1
    MaxFaults = 1
SPECIFICATION Spec
INVARIANTS TypeOK NoBundleLost
PROPERTIES NeverResubmitted HandedSequenceFresh OpenNoncesAnswered
CHECK_DEADLOCK FALSE
