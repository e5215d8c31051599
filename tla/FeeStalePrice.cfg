SPECIFICATION Spec
CONSTANTS
    Ops = {p1, p2}
    MaxRetries = 1
    GasUses = {25}
    AnteGas = 2
    GasAdjustment = 12
    BaseGas = 25
    SimFloor = 20
    TierMultiplier = 15
    Congestion = {10}
    PriceOf <- MovingPrice
    StaticPrice = 2
    MaxFees = 1000
SYMMETRY Symmetry
INVARIANT RetryUsesRefreshedPrice
CHECK_DEADLOCK FALSE
