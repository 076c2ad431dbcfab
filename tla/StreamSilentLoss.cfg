SPECIFICATION StreamSpec
CONSTANTS
    Clients = {c1, c2}
    MaxBuffer = 2
    ChanCap = 1
    MaxLines = 3
INVARIANT NothingLostSilently
CHECK_DEADLOCK FALSE
