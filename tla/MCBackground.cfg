SPECIFICATION Spec
CONSTANTS
    Tasks = {t}
    Stops = {s}
    Polls = {p}
    MaxOutput = 1
INVARIANTS
    RunningWatched
    HonestAccount
PROPERTIES
    ExitAccounted
CHECK_DEADLOCK FALSE
