SPECIFICATION Spec
CONSTANTS
    MaxFrame = 1
    FrameBytes = 2
    TornBytes = 1
    MaxSpoolBytes = 0
    SizeMod = 64
    Retries = FALSE
    ForeignReply = FALSE
    SocketCap = 2
    MaxCrash = 0
PROPERTIES
    DurableBeforeForget
