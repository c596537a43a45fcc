CONSTANTS
    Lengths = {2}
    FrameMax = 3
    HighWatermark = 3
    LowWatermark = 0
    EarlyLimit = 2
    MayExit = FALSE
    MayClose = FALSE
    MaxBytes = 4
    MaxInFlight = 1
    MaxConnections = 1
    MaxRequests = 1
SPECIFICATION Spec
INVARIANTS
    FramesFollow
CHECK_DEADLOCK FALSE
