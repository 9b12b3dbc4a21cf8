CONSTANTS
    p1 = p1
    p2 = p2
    Request = {p1, p2}
    Margin = 1
    Leeway = 0
    AccessLife = 1
    RefreshLife = 0
    IDLife = 3
    Rotates = TRUE
    Reissues = TRUE
    JWTOnRefresh = {TRUE, FALSE}
    IDTokenOnRefresh = {FALSE}
    CancelAllowed = TRUE
    FaultsAllowed = TRUE
    MaxGen = 3
    MaxTime = 3
SPECIFICATION Spec
SYMMETRY Symm
INVARIANTS TypeOK NoImmortalToken StrandedOnlyByLoss HandIsExclusive
PROPERTY LifeOfRefreshTokens
