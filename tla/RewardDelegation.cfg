SPECIFICATION Spec
CONSTANTS
    a = a
    b1 = b1
    b2 = b2
    c = c
    x = x
    Settlements = {a, b1, b2, c, x}
    Blocks <- MCBlocks
    Wire <- MCWire
    Truth <- MCTruth
    Role = "forecaster"
    Topic = 5
    Wallet = "us"
    Reserve = 1
    InitialBalance = 0
    Ttl = 1
    MaxClock = 3
    MaxReplays = 2
    MaxFaults = 3
    MaxSpend = 1
INVARIANTS TypeOK OnceUnlessLate ReserveKept NoRewardDropped
CHECK_DEADLOCK FALSE
