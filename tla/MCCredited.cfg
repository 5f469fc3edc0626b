SPECIFICATION Spec
CONSTANTS
    alice = alice
    bob = bob
    dai = dai
    RAY = 100
    WAD = 100
    PERCENTAGE_FACTOR = 10
    SECONDS_PER_YEAR = 1
    Asset <- MCAsset
    Unit <- MCUnit
    User <- MCUser
    Beneficiaries <- MCBeneficiaries
    CLOSE_FACTOR_HF_THRESHOLD = 95
    SMALL_POSITION_VALUE = 2
    MIN_LEFTOVER_VALUE = 1
    MaxUint = 1000
    Amounts <- MCAmounts
    Prices <- MCPrices
    Configs <- MCConfigs
    RateModels <- MCRateModels
    Pauses = {}
    GracePeriods = {}
    InitialWallet <- MCInitialWallet
    Listed <- MCAsset
    InitialConfig <- MCInitialConfig
    InitialRateModel <- MCInitialRateModel
    MaxTime = 4
    Dust = 0
SYMMETRY Symmetry
INVARIANTS
    CreditedAtMostCharged
CHECK_DEADLOCK FALSE
