CONSTANTS
    Lengths = {1}
    FrameMax = 2
    HighWatermark = 2
    LowWatermark = 0
    EarlyLimit = 4
    MayExit = TRUE
    MayClose = FALSE
    MaxBytes = 3
    MaxInFlight = 3
    MaxConnections = 1
    MaxRequests = 2
SPECIFICATION Spec
PROPERTIES
    ExitStands
CHECK_DEADLOCK FALSE
