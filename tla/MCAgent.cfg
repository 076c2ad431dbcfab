SPECIFICATION LiveSpec
CONSTANTS
    Files = {f}
    None = None
    Batches <- MCBatches
    MaxTurns = 2
    PreserveLast = 2
    MaxReconnects = 1
    MaxStallRetries = 1
    MaxEmptyTurns = 2
    FailureStopAt = 2
    MaxNudges = 1
    MaxParallel = 2
    MaxNotes = 1
INVARIANTS
    HistoryPaired
    RunsInOrder
    ErrorsReachModel
    TextOnce
PROPERTIES
    RunReturns
CHECK_DEADLOCK FALSE
