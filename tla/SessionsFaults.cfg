CONSTANTS
    p1 = p1
    p2 = p2
    Request = {p1, p2}
    IdleTTL = 1
    MaxTTL = 2
    Leeway = 1
    LoginSequences <- RenkuOnly
    Missing = {}
    CancelAllowed = FALSE
    FaultsAllowed = TRUE
    MaxSessions = 1
    MaxStates = 0
    MaxTime = 5
SPECIFICATION Spec
SYMMETRY Symm
INVARIANTS WithinMaxTTL NoImmortalSession
