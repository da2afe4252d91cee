SPECIFICATION FairSpec
CONSTANTS
    Addr = {"a", "b"}
    Tx = {"a0", "a1", "a1x", "b0"}
    Sender <- TxSender
    Nonce <- TxNonce
    Price <- TxPrice
    Cost <- TxCost
    Block <- Fork
    Genesis = "g"
    BlockParent <- ForkParent
    BlockTxs <- ForkTxs
    Balance <- Rich
    None = None
    GlobalSlots = 8
    GlobalQueue = 8
    AccountSlots = 8
    AccountQueue = 8
    PriceBump = 10
    ReorgLimit = 64
    Prices = {10}
    MaxHeads = 2
    MaxRewinds = 1
    MaxPriceSets = 0
    MaxCalls = 2
CHECK_DEADLOCK FALSE
INVARIANTS
    LookupMatchesLists
    PendingIsProcessable
    PendingIsAnnounced
PROPERTIES
    NextOnStateIsPromoted
