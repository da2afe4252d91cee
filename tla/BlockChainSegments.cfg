SPECIFICATION FairSpec
CONSTANTS
    Block <- ClockBlocks
    Genesis = "g"
    None = None
    Parent <- ClockParent
    Number <- Heights
    TD <- ClockTD
    Time <- ClockTime
    Tx <- TwoTxs
    Txs <- ClockTxs
    BadHeader = {}
    BadState = {"b2"}
    TriesInMemory = 1
    AllowedFuture = 2
    MaxTimeFuture = 3
    MaxChain = 2
    MaxCrashes = 0
    MaxStops = 0
    MaxRewinds = 0
    MaxClock = 2
INVARIANTS
    NothingCanonicalAboveHead
    CanonicalTxsIndexed
PROPERTIES
    
    LockIsReleased
    FutureBlocksDrain
