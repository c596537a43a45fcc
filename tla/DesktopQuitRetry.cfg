CONSTANTS
    l1 = l1
    LocalTerminals = {l1}
    GatewayTerminals = {}
    NativeCodes = {7}
    MaxActivity = 1
    Faults = {"append"}
    ShutdownMayFail = FALSE
    MaxStarts = 1
SPECIFICATION RetrySpec
PROPERTIES
    RetryQuits
CHECK_DEADLOCK FALSE
