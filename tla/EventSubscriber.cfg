SPECIFICATION FairSpec
CONSTANTS
    s1 = s1
    s2 = s2
    hb = hb
    Subs = {s1, s2}
    Generic = {s2}
    QueryOf <- DistinctQueries
    Heartbeat = TRUE
    HeartbeatId = hb
    ServerCap = 2
    MaxFaults = 2
    MaxEvents = 1
INVARIANTS TypeOK AgreementAtRest 
PROPERTIES WatchdogOnlyWhenDeaf HeldBecomesActive
CHECK_DEADLOCK FALSE
