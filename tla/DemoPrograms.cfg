SPECIFICATION FairSpec
CONSTANTS
    Segments = 3
    Threads = {t1, t2, t3, t4}
    ClientBuffers = {b1, b2}
    MaxFails = 1
    Producer = producer
    DemoBuffers = {b1, b2, b3}
    NoBuffer = none
    MaxFrames = 5
INVARIANTS
    ImagesSharp
    SegmentsInOrder
    PoolConsistent
    NoLostWakeup
    DemoDelivers
PROPERTIES
    ProgramsEnd
CHECK_DEADLOCK FALSE
