\* One terminal over either repository, with every fault.
CONSTANTS
    t1 = t1
    Terminals = {t1}
    NativeCodes = {0, 7}
    MaxOutput = 2
    MaxResize = 2
    SqliteRepository = FALSE
    Faults = {"save", "update", "append", "pty", "listener"}
SPECIFICATION MCSpec
INVARIANTS
    NoFalseExit
    OutputKept
    EndedOnce
    ShippedAgrees
PROPERTIES
    KeepsContract
    EveryCloseEnds
