SPECIFICATION Spec
CONSTANTS
    FrameWidth = 3
    FrameHeight = 3
    BlockSize = 2
    BorderWidth = 1
    Radius = 1
    SpotCentres <- CornerAndMiddle
    MaxValue = 1
    SpotFrames = 2
    Samples = {1, 2}
    Intensities = {0, 1, 3}
    Unit = 2
    PictureWidth = 2
    PictureHeight = 2
    ImageWidth = 5
    ImageHeight = 3
    MinArea = 2
    Workers = {w1, w2}
    ScanPositions = 2
    MaxClock = 2
    Attempts = {a1, a2}
    NoAttempt = none
    MaxSeq = 1
    MaxFrameIndex = 2
    MaxCrash = 2
INVARIANTS
    
    PictureCorrect
    PathCorrect
    TimesCorrect
    
PROPERTIES
    ResumesNewest
CHECK_DEADLOCK FALSE
