SPECIFICATION FairSpec
CONSTANTS
    MaxFrame = 3
    Sizes = {1, 4, 5}
    FragmentSize = 2
    CountMod = 8
    MaxBytes = 5
    WireCap = 3
    Base = 7
    Magic = 1275
    Samples <- LimitsAndUnequal
    MaxMessages = 2
    CutPoints = {11, 20, 28, 47}
    MaxFrames = 3
    QueueCapacity = 1
    MaxRuns = 2
    None = none
INVARIANTS
    ServerInStep
    ParsersExact
    DatasetReadable
    SendsWhatIsListed
PROPERTIES
    ImplementsStream
    
    SenderEnds
CHECK_DEADLOCK FALSE
