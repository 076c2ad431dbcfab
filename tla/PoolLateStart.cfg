SPECIFICATION PoolSpec
CONSTANTS
    Requests = {r1}
    Size = 1
    MaxAttempts = 1
INVARIANTS
    DrainedMeansIdle
CHECK_DEADLOCK FALSE
