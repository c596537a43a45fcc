\* Two remote devices: the list of targets fails to load after one was chosen.
CONSTANTS
    Remotes = {d1, d2}
    MaxActs = 7
    MaxLosses = 1
SPECIFICATION Spec
SYMMETRY RemoteSymmetry
INVARIANTS
    LaunchesWhereChosen
CHECK_DEADLOCK FALSE
