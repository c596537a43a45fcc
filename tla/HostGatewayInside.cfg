\* One request of one session.
CONSTANTS
    c1 = c1
    c2 = c2
    c3 = c3
    Calls = {c1}
    Terminals = {t1}
    Sessions = {1}
    OpsOf <- ThreeCalls
    Scopes = {"launch"}
SPECIFICATION Spec
INVARIANTS
    LaunchesInside
CHECK_DEADLOCK FALSE
