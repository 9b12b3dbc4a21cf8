CONSTANTS
    p1 = p1
    p2 = p2
    Request = {p1}
    IdleTTL = 1
    MaxTTL = 2
    Leeway = 1
    LoginSequences <- BothProviders
    Missing = {"renku", "gitlab"}
    CancelAllowed = FALSE
    FaultsAllowed = FALSE
    MaxSessions = 3
    MaxStates = 4
    MaxTime = 4
SPECIFICATION Spec
INVARIANTS PendingStateStored LogoutSticks
