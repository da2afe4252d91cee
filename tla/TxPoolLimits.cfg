SPECIFICATION Spec
CONSTANTS
    Addr = {"a", "b"}
    Tx = {"a0", "a1", "a1x", "a2", "b0", "b1"}
    Sender <- TxSender
    Nonce <- TxNonce
    Price <- TxPrice
    Cost <- TxCost
    Block <- Still
    Genesis = "g"
    BlockParent <- NoParent
    BlockTxs <- NoTxs
    Balance <- Rich
    None = None
    GlobalSlots = 2
    GlobalQueue = 1
    AccountSlots = 1
    AccountQueue = 1
    PriceBump = 10
    ReorgLimit = 64
    Prices = {10, 20}
    MaxHeads = 0
    MaxRewinds = 0
    MaxPriceSets = 1
    MaxCalls = 4
CHECK_DEADLOCK FALSE
PROPERTIES
    LocalsAreKept
    LimitsRestored
