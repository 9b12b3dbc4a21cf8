CONSTANTS
    c1 = c1
    Configured <- TTLs
    MaxTime = 4
    DefaultIdle = 1
    DefaultMax = 2
    Client = {c1}
    Layerings <- EveryLayering
    MaxQueued = 1
SPECIFICATION StartupSpec
INVARIANTS TypeOK AsConfigured StartupTypeOK EncryptedAsAsked SafeInProduction SameProviders CleanExit
PROPERTY ShutdownEnds
