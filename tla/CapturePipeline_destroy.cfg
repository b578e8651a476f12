SPECIFICATION Spec
CONSTANTS
    Buffers = {b1, b2, b3}
    QueueCapacity = 1
    MaxFrames = 1
INVARIANTS
    BuffersReturnToPool
CHECK_DEADLOCK FALSE
