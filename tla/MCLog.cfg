SPECIFICATION LiveSpec
CONSTANTS
    Callers = {c1, c2}
    MaxBatch = 2
    Titles = {a}
    MaxIssued = 3
INVARIANTS
    SequencesRise
    AckedReadable
    RecordedOnce
PROPERTIES
    EveryCallReturns
CHECK_DEADLOCK FALSE
