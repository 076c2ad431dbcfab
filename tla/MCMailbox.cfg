SPECIFICATION LiveSpec
CONSTANTS
    Senders = {a}
    Readers = {r, q}
    None = None
    MaxMessages = 2
    MaxFaults = 2
INVARIANTS
    OneHolder
    MessagesKept
PROPERTIES
    EveryCallReturns
CHECK_DEADLOCK FALSE
