\* A browser and a desktop host that gather one candidate each.
CONSTANTS
    BrowserEnds = {"client"}
    Candidates <- OneCandidate
SPECIFICATION Spec
INVARIANTS
    SignalsInOrder
    CandidatesFollow
PROPERTIES
    ClosedIsQuiet
    NegotiationEnds
CHECK_DEADLOCK FALSE
