SPECIFICATION Spec
CONSTANTS
    r1 = r1
    r2 = r2
    i1 = i1
    f1 = f1
    Inferers = {i1}
    Forecasters = {f1}
    Reputers = {r1, r2}
    Account <- MCAccount
    Topic <- MCTopic
    Nonces = {1, 2}
    Values <- MCValues
    Withheld <- MCWithheld
    Loss <- MCLoss
    Predictions <- MCPredictions
    Forecasts <- MCForecasts
    MinStake = 3
    InitialStake = 1
    SanityCheckEnabled = TRUE
    MaxRevisions = 1
    MaxFaults = 2
    MaxAttempts = 2
INVARIANTS
    TypeOK
    OneTruthPerBundle
    CanonicalText
    TopUpExact
CHECK_DEADLOCK FALSE
