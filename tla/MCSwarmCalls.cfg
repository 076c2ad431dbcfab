SPECIFICATION LiveSpec
CONSTANTS
    MaxIds = 3
    Teams = {t1}
    NoTeam = NoTeam
    Orchestrators = {orch}
    Jobs = {job}
    Adopters = {}
    Callers = {orch, job}
    NoCaller = NoCaller
    MaxTeamSize = 1
    MaxRestarts = 1
PROPERTIES
    EveryTaskSettles
    CollectReturns
    CloseSettlesAll
CHECK_DEADLOCK FALSE
