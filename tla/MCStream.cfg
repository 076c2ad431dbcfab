SPECIFICATION FairSpec
CONSTANTS
    Clients = {c1}
    MaxBuffer = 3
    ChanCap = 2
    MaxLines = 8
INVARIANTS
    StreamContiguous
    HonestEnd
PROPERTIES
    StreamsEnd
CHECK_DEADLOCK FALSE
