SPECIFICATION BlockFetcherSpec
CONSTANTS
    x = x
    b = b
    c = c
    Peer = {p, q}
    Block = {x, b, c}
    Heard = {b, c}
    Number <- Numbers
    Parent <- Parents
    EmptyBlock = {c}
    Genesis = Genesis
    NoPeer = NoPeer
    hashLimit = 1
    blockLimit = 1
    maxUncleDist = 0
    maxQueueDist = 2
    MaxWaiting = 2
INVARIANTS
    QueuedOnce
    AllowanceReturns
PROPERTIES
    AnnouncedIsRequested
