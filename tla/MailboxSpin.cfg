SPECIFICATION LiveSpec
CONSTANTS
    Senders = {a}
    Readers = {r, q}
    None = None
    MaxMessages = 2
    MaxFaults = 1
PROPERTIES
    TimesOut
CHECK_DEADLOCK FALSE
