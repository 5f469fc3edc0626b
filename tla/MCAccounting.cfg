SPECIFICATION Spec
CONSTANTS
    alice = alice
    bob = bob
    dai = dai
    RAY = 10
    WAD = 100
    PERCENTAGE_FACTOR = 10
    SECONDS_PER_YEAR = 1
    Asset <- MCAsset
    Unit <- MCUnit
    User <- MCUser
    Beneficiaries <- MCBeneficiaries
    CLOSE_FACTOR_HF_THRESHOLD = 95
    SMALL_POSITION_VALUE = 2
    MIN_LEFTOVER_VALUE = 1
    MaxUint = 1000
    Amounts <- MCAmounts
    Prices <- MCPrices
    Configs <- MCConfigs
    RateModels <- MCRateModels
    Pauses = {}
    GracePeriods = {}
    InitialWallet <- MCInitialWallet
    Listed <- MCAsset
    InitialConfig <- MCInitialConfig
    InitialRateModel <- MCInitialRateModel
    MaxTime = 3
    Dust = 0
SYMMETRY Symmetry
INVARIANTS
    TypeOK
    TotalsMatch
    CashMatchesTokens
    ViewsMatchAccrue
    Solvent
PROPERTIES
    RoundingFavoursPool
    LossWaterfall
CHECK_DEADLOCK FALSE
