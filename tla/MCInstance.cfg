SPECIFICATION InstanceLiveSpec
CONSTANTS
    Daemons = {d1, d2}
    Previous = d0
INVARIANTS
    OneHolderInTurn
    SocketKept
PROPERTIES
    ShutdownEndsServe
CHECK_DEADLOCK FALSE
