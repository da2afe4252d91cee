SPECIFICATION Spec
CONSTANTS
    E1 = 4000000
    E2 = 8000000
    E3 = 16000000
    E4 = 32000000
    E5 = 64000000
    E6 = 128000000
    FinalBlock = 1290406400
    PreminedSupply = 64000000
    SupplyCap = 2122806400
    BaseBlock = 1290406390
    Horizon = 1290406410
INVARIANT FullIssuanceAtFinalBlock
