\* Two remote devices: the folder of one arrives in the folder dialog of the other.
CONSTANTS
    Remotes = {d1, d2}
    MaxActs = 8
    MaxLosses = 0
SPECIFICATION Spec
SYMMETRY RemoteSymmetry
INVARIANTS
    FolderFitsDevice
CHECK_DEADLOCK FALSE
