SPECIFICATION Spec
CONSTANTS
    Block <- EvenBlocks
    Genesis = "g"
    None = None
    Parent <- EvenParent
    Number <- Heights
    TD <- EvenTD
    Time <- Heights
    Tx <- TwoTxs
    Txs <- EvenTxs
    BadHeader = {"c2"}
    BadState = {}
    TriesInMemory = 2
    AllowedFuture = 9
    MaxTimeFuture = 9
    MaxChain = 1
    MaxCrashes = 1
    MaxStops = 1
    MaxRewinds = 1
    MaxClock = 0
INVARIANTS
    NoDanglingBlocks
    CanonicalChain
    HeadHasState
