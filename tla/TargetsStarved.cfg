SPECIFICATION RefreshedSpec
CONSTANTS
    MaxAttempts = 2
    MaxActivations = 1
    MaxTerminals = 2
PROPERTY
    ResumeReaches
CHECK_DEADLOCK FALSE
