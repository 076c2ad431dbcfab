SPECIFICATION Spec
CONSTANTS
    Tasks = {t}
    Stops = {s}
    Polls = {p}
    MaxOutput = 1
INVARIANTS
    ExitNotUndone
CHECK_DEADLOCK FALSE
