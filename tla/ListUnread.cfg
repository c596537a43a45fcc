\* A first list that fails leaves running terminals unlisted: AllAreListed fails.
CONSTANTS
    Terminals = {t1, t2}
    PageSize = 1
    MaxOutput = 2
    MaxActs = 2
    MaxFaults = 1
SPECIFICATION Spec
SYMMETRY TerminalSymmetry
INVARIANT
    AllAreListed
CHECK_DEADLOCK FALSE
