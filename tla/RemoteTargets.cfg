SPECIFICATION FairSpec
CONSTANTS
    MaxAttempts = 2
    MaxActivations = 2
    MaxTerminals = 1
INVARIANTS
    ShownIsConnected
    NothingLingers
PROPERTY CallsEnd
CHECK_DEADLOCK FALSE
