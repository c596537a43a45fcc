\* Two terminals in any state when the window opens, two chunks, pages of one: a full page
\* has another one behind it.
CONSTANTS
    Terminals = {t1, t2}
    PageSize = 1
    MaxOutput = 2
    MaxActs = 2
    MaxFaults = 1
SPECIFICATION Spec
SYMMETRY TerminalSymmetry
INVARIANTS
    ScreenFollows
    ScreenCatchesUp
    ListAgrees
    SetupIsReleased
CHECK_DEADLOCK FALSE
