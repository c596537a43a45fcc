\* One device, two sessions, three requests; the scopes do not cover the runtimes.
CONSTANTS
    c1 = c1
    c2 = c2
    c3 = c3
    Calls = {c1, c2, c3}
    Terminals = {t1, t2}
    Sessions = {1, 2}
    OpsOf <- ThreeCalls
    Scopes = {"roots", "list", "launch", "attach", "write", "detach"}
SPECIFICATION Spec
SYMMETRY TerminalSymmetry
INVARIANTS
    AnswersFit
    LaunchesFit
    WritesInOrder
CHECK_DEADLOCK FALSE
