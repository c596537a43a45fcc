\* A host rejects the session it is asked for.
SPECIFICATION Spec
CONSTANTS
    Hosts = {h}
    Browsers = {b}
    Sessions = {s1}
    Workers = {"first"}
    OpsOf <- AnyAndApproval
    PresenceLease = 1
    SessionLease = 2
    MaxSessionLease = 3
    SignalLease = 2
    TurnLease = 1
    MaxTime = 2
    MaxDisables = 1
    MaxSignals = 1
    ClaimedExpiries = {1}
INVARIANT
    RejectionIsStored
CHECK_DEADLOCK FALSE
