CONSTANTS
    g1 = g1
    LocalTerminals = {}
    GatewayTerminals = {g1}
    NativeCodes = {7}
    MaxActivity = 0
    Faults = {}
    ShutdownMayFail = FALSE
    MaxStarts = 1
SPECIFICATION Spec
INVARIANTS
    QuitLeavesNoProcess
CHECK_DEADLOCK FALSE
