SPECIFICATION RegistrySpec
CONSTANTS
    Ids = {a, b, c}
    Connections = {c1, c2, c3, c4}
    MaxSessions = 1
    MaxStarts = 4
SYMMETRY Symmetry
INVARIANTS
    EveryoneToldOutcome
CHECK_DEADLOCK FALSE
