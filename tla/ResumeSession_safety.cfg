SPECIFICATION Spec
CONSTANTS
    MaxFrame = 2
    FrameBytes = 2
    TornBytes = 1
    MaxSpoolBytes = 0
    SizeMod = 64
    Retries = FALSE
    ForeignReply = FALSE
    SocketCap = 3
    MaxCrash = 1
INVARIANTS
    TypeOK
    NoLossBeforeHandover
    ConnectedMeansReady
    NothingLeftBehind
    FramesAfterHandshake
PROPERTIES
    ReplyPrunesDurable
    ImplementsDelivery
