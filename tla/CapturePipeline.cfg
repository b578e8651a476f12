SPECIFICATION FairSpec
CONSTANTS
    Buffers = {b1, b2, b3, b4}
    QueueCapacity = 2
    MaxFrames = 5
INVARIANTS
    ImagesIntact
    PoolNeverDry
    StopIsClean
PROPERTIES
    SentInOrder
    StopReturns
CHECK_DEADLOCK FALSE
