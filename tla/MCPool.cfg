SPECIFICATION PoolLiveSpec
CONSTANTS
    Requests = {r1, r2}
    Size = 1
    MaxAttempts = 2
INVARIANTS
    LeaseInv
    HonestResult
PROPERTIES
    LaunchesHeed
    EveryRunReturns
    ShutdownEndsRuns
CHECK_DEADLOCK FALSE
