SPECIFICATION TokenSpec
CONSTANTS
    Wallet = {alice, bob}
    Payee = {alice}
    None = None
    This = This
    MaxUint = 7
    Approvals <- FewApprovals
    Funds = 2
    MaxReward = 1
INVARIANTS
    Backed
    SpendingWithinApproval
