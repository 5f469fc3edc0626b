SPECIFICATION Spec
CHECK_DEADLOCK FALSE
CONSTANTS
    primary = primary
    secondary = secondary
    RAY = 10
    WAD = 10
    PERCENTAGE_FACTOR = 10
    MILLION = 10
    MAX_UINT256 = 1000
    warning = 15
    danger = 12
    highUtilization = 7
    criticalUtilization = 9
    utilizationJump = 3
    lowLiquidityShare = 3
    staleWarningShare = 8
    largeDebtUsd = 100
    largeShareOfBorrows = 2
    Scale = 10
    BPS = 100
    MAX_ANSWER = 10000
    heartbeat = 4
    keeperEvery = 2
    Configs <- MCConfigs
    Input = {20}
    Start = 10
    MaxTime = 16
    MaxClicks = 2
    MaxFailures = 1
INVARIANTS
    KeptFresh
    HaltsAreSeen
    ConfirmedPricesHold
