CONSTANTS
    s1 = s1
    Sessions = {s1}
    MaxLogins = 2
    MaxActivations = 2
    Faults = {"window", "listener"}
SPECIFICATION FairSpec
INVARIANTS
    LogoutStands
    ShownIsHeld
PROPERTY ActivationEnds
