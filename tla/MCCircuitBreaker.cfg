SPECIFICATION FairSpec
CONSTANTS
    c1 = c1
    c2 = c2
    Callers <- TwoCallers
    failure_threshold = 2
    recovery_timeout = 1
    StartupInitialized = TRUE
    MaxSteps = 1
    MaxCancels = 1
    U64 = 65536
INVARIANT SlotAccounting
INVARIANT SlotExclusive
PROPERTY Recovers
PROPERTY ClosesWhenUplinkIsBack
