SPECIFICATION Spec
CONSTANTS
    Segments = 1
INVARIANTS
    ShutterClosedAfterCapture
CHECK_DEADLOCK FALSE
