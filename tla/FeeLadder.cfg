SPECIFICATION FairSpec
CONSTANTS
    Ops = {p1}
    MaxRetries = 2
    GasUses = {15, 25, 300}
    AnteGas = 14
    GasAdjustment = 12
    BaseGas = 10
    SimFloor = 20
    TierMultiplier = 15
    Congestion = {10, 20}
    PriceOf <- MovingPrice
    StaticPrice = 1
    MaxFees = 400
INVARIANTS TypeOK FeeWithinCap HeadroomKept RetryUsesRefreshedPrice
PROPERTIES GasGrows LadderEnds
CHECK_DEADLOCK FALSE
