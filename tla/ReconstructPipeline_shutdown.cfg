SPECIFICATION FairSpec
CONSTANTS
    Workers = {w1}
    Producer = producer
    Accumulator = accumulator
    None = none
    MaxFrames = 1
    RawCapacity = 1
    SignalCapacity = 1
PROPERTIES
    ShutdownCompletes
CHECK_DEADLOCK FALSE
