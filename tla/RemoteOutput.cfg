\* One terminal: two resumes, or an exit and a close.
CONSTANTS
    Lengths = {2}
    FrameMax = 3
    HighWatermark = 3
    LowWatermark = 0
    EarlyLimit = 2
    MayExit = FALSE
    MayClose = FALSE
    MaxBytes = 4
    MaxInFlight = 1
    MaxConnections = 2
    MaxRequests = 3
SPECIFICATION MCSpec
INVARIANT StreamFollows
PROPERTIES
    CursorsAreTaken
    ResumedOutputArrives
CHECK_DEADLOCK FALSE
