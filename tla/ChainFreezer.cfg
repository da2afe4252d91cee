CONSTANTS
    MaxFileSize = 3
    BufferLimit = 2
    LastFile = 4
    Kind <- MCKind
    Size <- MCSize
    Threshold = 1
    BatchLimit = 2
    DeepRaces = FALSE
    MaxHead = 4
    MaxRewinds = 1
    MaxSides = 2
    MaxFaults = 1
    TornWrites = FALSE
    None = None
SPECIFICATION Spec
INVARIANTS ChainReadable TablesAgree AlwaysOpens OnlyLateOrphans
PROPERTIES FreezerCatchesUp
CHECK_DEADLOCK FALSE
