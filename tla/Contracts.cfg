SPECIFICATION ContractsSpec
CONSTANTS
    Wallet = {alice, bob}
    Payee = {alice}
    Salt = {s, t}
    SubnetId = {1, 2}
    Endpoint = {e, f}
    None = None
    Funds = 2
    MINIMUM_STAKE = 1
    MaxBlock = 1
    MaxTime = 1
    MaxNonce = 2
    MaxReward = 1
SYMMETRY SaltsAndEndpoints
INVARIANTS
    OneAccountPerWallet
    Solvent
    OwnershipIndexed
    StakesBacked
