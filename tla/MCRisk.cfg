SPECIFICATION Spec
CONSTANTS
    alice = alice
    bob = bob
    weth = weth
    dai = dai
    RAY = 10
    WAD = 100
    PERCENTAGE_FACTOR = 10
    SECONDS_PER_YEAR = 2
    Asset <- MCAsset
    Unit <- MCUnit
    User <- MCUser
    Beneficiaries <- MCBeneficiaries
    CLOSE_FACTOR_HF_THRESHOLD = 95
    SMALL_POSITION_VALUE = 4
    MIN_LEFTOVER_VALUE = 2
    MaxUint = 1000
    Amounts <- MCAmounts
    Prices <- MCPrices
    Configs <- MCConfigs
    RateModels <- MCRateModels
    Pauses = {}
    GracePeriods = {}
    InitialWallet <- MCInitialWallet
    Listed <- MCAsset
    InitialConfig <- MCInitialConfig
    InitialRateModel <- MCInitialRateModel
    MaxTime = 1
    Dust = 0
    MILLION = 1000
    MAX_UINT256 = 100000
    warning = 150
    danger = 120
    highUtilization = 7
    criticalUtilization = 9
    utilizationJump = 3
    lowLiquidityShare = 3
    staleWarningShare = 8
    largeDebtUsd = 100
    largeShareOfBorrows = 200
    Typed = {1, 2}
INVARIANTS
    BitmapInSync
    NoNakedDebt
    SubmittableAccepted
    CandidatesTakeable
    PagesMatchPool
PROPERTIES
    HealthyStaysHealthy
    ProjectionMatches
CHECK_DEADLOCK FALSE
