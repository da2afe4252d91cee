CONSTANTS
    StaleThreshold = 1
    MaxUncles = 1
    AdjustCap = 1
    ResultCap = 2
    MaxTxs = 1
    MaxLate = 1
    MaxEvents = 3
    None = None
SPECIFICATION Spec
INVARIANTS RunsWhenWanted 
PROPERTIES WorkFollowsHead
CHECK_DEADLOCK FALSE
