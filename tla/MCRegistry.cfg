SPECIFICATION RegistrySpec
CONSTANTS
    Ids = {a, b, c, d}
    Connections = {c1, c2, c3, c4}
    MaxSessions = 2
    MaxStarts = 5
SYMMETRY Symmetry
PROPERTIES
    SessionsRetained
CHECK_DEADLOCK FALSE
