SPECIFICATION InstanceSpec
CONSTANTS
    Daemons = {d1, d2}
    Previous = d0
SYMMETRY Symmetry
INVARIANTS
    OneHolder
CHECK_DEADLOCK FALSE
