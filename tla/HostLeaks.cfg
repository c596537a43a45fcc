CONSTANTS
    s1 = s1
    Sessions = {s1}
    MaxLogins = 1
    MaxActivations = 2
    Faults = {"listener"}
SPECIFICATION Spec
INVARIANTS
    IdleServesNobody
CHECK_DEADLOCK FALSE
