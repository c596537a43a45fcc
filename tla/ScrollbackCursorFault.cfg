CONSTANTS
    Lengths = {1}
    ByteLimit = 6
    InlineCursors = TRUE
    Faults = {"cursors"}
    MaxTasks = 3
    MaxQueued = 2
    MaxCrashes = 0
SPECIFICATION Spec
INVARIANTS
    SequencesIncrease
CHECK_DEADLOCK FALSE
