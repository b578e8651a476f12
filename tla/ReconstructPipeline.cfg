SPECIFICATION SFairSpec
CONSTANTS
    Workers = {w1, w2}
    Producer = producer
    Accumulator = accumulator
    None = none
    MaxFrames = 4
    RawCapacity = 1
    SignalCapacity = 1
INVARIANTS
    FramesAccountedFor
    WholeScanOrNothing
PROPERTIES
    EveryFrameReachesImage
    ImplementsReconstruction
CHECK_DEADLOCK FALSE
