SPECIFICATION Spec
CONSTANTS
    MaxAttempts = 1
    MaxActivations = 1
    MaxTerminals = 1
INVARIANT
    CloseIsShown
CHECK_DEADLOCK FALSE
