CONSTANTS
    p1 = p1
    p2 = p2
    Request = {p1, p2}
    Margin = 1
    Leeway = 0
    AccessLife = 1
    RefreshLife = 1
    IDLife = 1
    Rotates = TRUE
    Reissues = TRUE
    JWTOnRefresh = {TRUE}
    IDTokenOnRefresh = {TRUE, FALSE}
    CancelAllowed = TRUE
    FaultsAllowed = FALSE
    MaxGen = 2
    MaxTime = 4
SPECIFICATION FairSpec
INVARIANT CancelNeverStrands
PROPERTIES EveryRequestEnds StrandedUserRecovers
