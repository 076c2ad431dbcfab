SPECIFICATION Spec
CONSTANTS
    Schedulers = {s, q}
    Commands = {c}
    MaxTime = 2
    MaxCommands = 0
    MaxFaults = 0
INVARIANTS
    NeverDoubleFires
CHECK_DEADLOCK FALSE
