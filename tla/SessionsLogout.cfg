CONSTANTS
    p1 = p1
    p2 = p2
    Request = {p1, p2}
    IdleTTL = 1
    MaxTTL = 2
    Leeway = 1
    LoginSequences <- RenkuOnly
    Missing = {}
    CancelAllowed = FALSE
    FaultsAllowed = FALSE
    MaxSessions = 2
    MaxStates = 2
    MaxTime = 2
SPECIFICATION Spec
INVARIANT LogoutSticks
