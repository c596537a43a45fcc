\* Both kinds of records.
CONSTANTS
    Lengths = {1, 4, 6}
    ByteLimit = 6
    InlineCursors = FALSE
    Faults = {"append", "compaction", "retain"}
    MaxTasks = 4
    MaxQueued = 2
    MaxCrashes = 1
SPECIFICATION MCSpec
INVARIANTS
    TasksAreSerial
    ReadsTheStream
PROPERTY CallsSettle
CHECK_DEADLOCK FALSE
