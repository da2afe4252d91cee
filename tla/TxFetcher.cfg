CONSTANTS
    Peers = {p1, p2}
    Hashes = {h1, h2}
    MaxTxAnnounces = 2
    MaxTxRetrievals = 2
    None = None
SPECIFICATION Spec
INVARIANTS StageExclusive SlotsMatchStages
PROPERTIES QueuedIsRequested ImplementsRetrieval
