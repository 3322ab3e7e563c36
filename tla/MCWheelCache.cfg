SPECIFICATION FairSpec
CONSTANTS
    BackoffLimit = 1
    MaxRefresh = 3
    MaxFault = 1
    MaxCrash = 1
INVARIANTS
    TypeOK
    OkFromOwnPod
    CleanUnlessInterrupted
PROPERTIES
    RefreshReturns
    KeepsContract
CHECK_DEADLOCK FALSE
