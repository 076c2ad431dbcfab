SPECIFICATION StreamSpec
CONSTANTS
    Clients = {c1}
    MaxBuffer = 2
    ChanCap = 1
    MaxLines = 1
INVARIANT EndTellsOutcome
CHECK_DEADLOCK FALSE
