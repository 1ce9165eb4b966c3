SPECIFICATION AgentSpec
CONSTANTS
    N = 1
    None = None
    HasWorkflow = FALSE
    MaxUpdates = 2
    AgeCap = 2
    MaxBase = 5
    MaxHeads = 6
    MaxTrouble = 3
    Commit <- MCCommit
    Confirmed <- MCConfirmed
    CheckRun <- MCCheckRun
    BaseRun <- MCBaseRun
    Limit <- MCAgentLimit
INVARIANT StillBusyAfterLimit
CHECK_DEADLOCK FALSE
