SPECIFICATION VaultSpec
CONSTANTS
    alice = alice
    bob = bob
    dai = dai
    vault = vault
    underlying = dai
    Offset = 10
    Parts = {7}
    RAY = 10
    WAD = 100
    PERCENTAGE_FACTOR = 10
    SECONDS_PER_YEAR = 1
    Asset <- MCAsset
    Unit <- MCUnit
    User <- MCUser
    Beneficiaries <- MCBeneficiaries
    CLOSE_FACTOR_HF_THRESHOLD = 95
    SMALL_POSITION_VALUE = 2
    MIN_LEFTOVER_VALUE = 1
    MaxUint = 1000
    Amounts <- MCAmounts
    Prices <- MCPrices
    Configs <- MCConfigs
    RateModels <- MCRateModels
    Pauses = {FALSE, TRUE}
    GracePeriods = {1}
    InitialWallet <- MCInitialWallet
    Listed = {}
    InitialConfig <- MCInitialConfig
    InitialRateModel <- MCInitialRateModel
    MaxTime = 3
    Dust = 0
INVARIANTS
    ExitsStayOpen
    LimitsHonoured
PROPERTIES
    EmergencyMatrix
    CallsNeverPay
    ConfigNotRetroactive
CHECK_DEADLOCK FALSE
