CONSTANTS
    p1 = p1
    p2 = p2
    p3 = p3
    k1 = k1
    k2 = k2
    Nobody = nobody
    Request = {p1, p2}
    Key = {k1, k2}
    ConfiguredTtl = 2
    DefaultTtl = 2
    CancelAllowed = TRUE
    FaultsAllowed = FALSE
    MaxVersion = 2
    MaxTime = 4
SPECIFICATION FairSpec
INVARIANTS TypeOK NeverBackInTime
PROPERTIES RefetchedOnlyWhenStale EveryLookupEnds AtomicLookups
