SPECIFICATION Spec
CONSTANTS
    MaxAttempts = 2
    MaxActivations = 2
    MaxTerminals = 0
INVARIANT
    OneConnection
CHECK_DEADLOCK FALSE
