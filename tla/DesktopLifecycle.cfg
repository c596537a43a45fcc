CONSTANTS
    l1 = l1
    g1 = g1
    LocalTerminals = {l1}
    GatewayTerminals = {g1}
    NativeCodes = {7}
    MaxActivity = 1
    Faults = {"append", "save", "listener"}
    ShutdownMayFail = TRUE
    MaxStarts = 2
SPECIFICATION FairSpec
INVARIANT QuitIsClean
PROPERTIES
    RowsOutliveCrashes
    QuitEnds
CHECK_DEADLOCK FALSE
