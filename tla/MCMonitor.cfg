SPECIFICATION FairSpec
CONSTANTS
    weth = weth
    dai = dai
    alice = alice
    bob = bob
    RAY = 10
    WAD = 10
    PERCENTAGE_FACTOR = 10
    MILLION = 10
    MAX_UINT256 = 1000
    warning = 15
    danger = 12
    highUtilization = 7
    criticalUtilization = 9
    utilizationJump = 3
    lowLiquidityShare = 3
    staleWarningShare = 8
    largeDebtUsd = 100
    largeShareOfBorrows = 2
    markets <- One
    Account = {alice}
    Utilizations = {0, 8}
    heartbeat = 1
    Healths <- MCHealths
    Blocks = {1, 2}
    MaxChanges = 2
    MaxFailures = 1
    Restarts = TRUE
INVARIANTS
    AlertsMatchLevels
    SnapshotComplete
PROPERTIES
    AlertsSettle
    StaleFeedsRevive
