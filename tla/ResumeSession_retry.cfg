SPECIFICATION Spec
CONSTANTS
    MaxFrame = 3
    FrameBytes = 2
    TornBytes = 1
    MaxSpoolBytes = 4
    SizeMod = 64
    Retries = TRUE
    ForeignReply = TRUE
    SocketCap = 1
    MaxCrash = 1
INVARIANTS
    ReplaySkipsDurable
    SpoolWithinLimit
PROPERTIES
    RemovalFreesSpace
