\* An end that cannot be stored leaves the setup of its terminal admitted: EndReleasesSetup fails.
CONSTANTS
    Terminals = {t1, t2}
    PageSize = 1
    MaxOutput = 2
    MaxActs = 2
    MaxFaults = 1
SPECIFICATION Spec
SYMMETRY TerminalSymmetry
INVARIANT
    EndReleasesSetup
CHECK_DEADLOCK FALSE
