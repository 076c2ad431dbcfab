SPECIFICATION Spec
CONSTANTS
    Senders = {a, b}
    Readers = {r, q}
    None = None
    MaxMessages = 2
    MaxFaults = 1
SYMMETRY Symmetry
INVARIANTS
    NeverStolen
CHECK_DEADLOCK FALSE
