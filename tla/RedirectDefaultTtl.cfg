CONSTANTS
    p1 = p1
    p2 = p2
    p3 = p3
    k1 = k1
    k2 = k2
    Nobody = nobody
    Request = {p1, p2}
    Key = {k1}
    ConfiguredTtl = 0
    DefaultTtl = 2
    CancelAllowed = FALSE
    FaultsAllowed = FALSE
    MaxVersion = 2
    MaxTime = 3
SPECIFICATION Spec
PROPERTY DefaultTtlApplies
