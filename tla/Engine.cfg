SPECIFICATION EngineSpec
CONSTANTS
    E1 = 1
    E2 = 2
    E3 = 3
    E4 = 4
    E5 = 10
    E6 = 11
    FinalBlock = 13
    PreminedSupply = 40
    SupplyCap = 188
    BaseBlock = 0
    Horizon = 14
    DurationLimit = 2
    DifficultyBoundDivisor = 8
    MaxFactor = 3
    MinimumDifficulty = 12
    HomesteadBlock = 2
    ByzantiumBlock = 4
    GasLimitBoundDivisor = 4
    MinGasLimit = 9
    MaxGasLimit = 40
    AllowedFuture = 1
    Word64 = 128
    Word256 = 4096
    maxUncles = 2
    UncleDepth = 3
    FamilyDepth = 3
    GasCeil = 8
    PeerCeil = 40
    RootNumber = {0, 9}
    RootDifficulty = 16
    RootGasLimit = 10
    Delays = {0, 1, 12}
    MaxBlocks = 5
    MaxTime = 12
    None = None
CHECK_DEADLOCK FALSE
INVARIANTS
    ReportedSupplyIsIssuedSupply
    SupplyNeverExceedsCap
    MinedBlocksVerify
    UnclesOnce
    CalculatorsAgree
