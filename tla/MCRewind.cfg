SPECIFICATION Spec
CONSTANTS
    Files = {f}
    Contents = {a, b}
    Execs = {x}
    Turns = {t, u}
    MaxIssued = 3
INVARIANTS
    RewindExact
    CheckpointsResolve
    ForkCarriesBlobs
SYMMETRY Symmetry
CHECK_DEADLOCK FALSE
