SPECIFICATION Spec
CONSTANTS
    Callers = {c1, c2}
    MaxBatch = 2
    Titles = {a}
    MaxIssued = 4
SYMMETRY Symmetry
INVARIANTS
    EveryAckedRecovered
CHECK_DEADLOCK FALSE
