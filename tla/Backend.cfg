\* One host and two browsers that ask for, decide and use a session.
SPECIFICATION Spec
CONSTANTS
    Hosts = {h}
    Browsers = {b, c}
    Sessions = {s1}
    Workers = {"first", "second"}
    OpsOf <- AnyAndApproval
    PresenceLease = 1
    SessionLease = 2
    MaxSessionLease = 3
    SignalLease = 1
    TurnLease = 1
    MaxTime = 2
    MaxDisables = 1
    MaxSignals = 1
    ClaimedExpiries = {1, 3}
SYMMETRY BrowsersAlike
INVARIANTS
    DecisionIsTheHosts
    SessionServices
PROPERTIES
    RevocationIsFinal
    DecisionStands
CHECK_DEADLOCK FALSE
