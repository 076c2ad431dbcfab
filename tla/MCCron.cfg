SPECIFICATION LiveSpec
CONSTANTS
    Schedulers = {s, q}
    Commands = {c}
    MaxTime = 1
    MaxCommands = 2
    MaxFaults = 1
INVARIANTS
    OncePerSlot
    CommandsHold
PROPERTIES DueFires
CHECK_DEADLOCK FALSE
