SPECIFICATION Spec
CONSTANTS
    Files = {f}
    Contents = {a, b}
    Execs = {x}
    Turns = {t, u}
    MaxIssued = 3
INVARIANT
    ForkResolves
SYMMETRY Symmetry
CHECK_DEADLOCK FALSE
