\* Two attempts, of any kind.
SPECIFICATION Spec
CONSTANTS
    Attempts = {1, 2}
    Modes = {"auth", "existing", "full"}
    LoginTtl = 2
    CodeTtl = 1
    MaxTime = 2
INVARIANTS
    CompletedIsConsumed
    PortFollowsAttempt
PROPERTIES
    DecidedStands
    LoginEnds
CHECK_DEADLOCK FALSE
