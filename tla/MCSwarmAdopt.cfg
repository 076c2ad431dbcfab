SPECIFICATION Spec
CONSTANTS
    MaxIds = 3
    Teams = {t1, t2}
    NoTeam = NoTeam
    Orchestrators = {orch}
    Jobs = {}
    Adopters = {adopter}
    Callers = {orch, adopter}
    NoCaller = NoCaller
    MaxTeamSize = 1
    MaxRestarts = 0
SYMMETRY TeamSymmetry
INVARIANTS
    SlotInv
    NoStrandedTask
    HonestStatus
PROPERTIES
    KeepsBoard
CHECK_DEADLOCK FALSE
