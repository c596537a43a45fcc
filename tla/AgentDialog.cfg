\* Two remote devices.
CONSTANTS
    Remotes = {d1, d2}
    MaxActs = 6
    MaxLosses = 1
SPECIFICATION Spec
SYMMETRY RemoteSymmetry
INVARIANTS
    TypeOK
    DirectoriesBelong
CHECK_DEADLOCK FALSE
