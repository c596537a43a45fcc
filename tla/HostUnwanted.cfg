CONSTANTS
    s1 = s1
    Sessions = {s1}
    MaxLogins = 2
    MaxActivations = 2
    Faults = {}
SPECIFICATION Spec
INVARIANTS
    OnlineIsWanted
CHECK_DEADLOCK FALSE
