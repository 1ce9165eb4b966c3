SPECIFICATION AllSpec
CONSTANTS
    N = 2
    None = None
    HasWorkflow = TRUE
    MaxUpdates = 2
    AgeCap = 1
    MaxBase = 4
    MaxHeads = 4
    MaxTrouble = 1
    Commit <- MCCommit
    Confirmed <- MCConfirmed
    CheckRun <- MCCheckRun
    BaseRun <- MCBaseRun
    Limit <- MCLimit
INVARIANTS NeverStranded DoneWasTested QueueLandsConfirmed
PROPERTIES StopEndsSending Settles ImplementsRun
CHECK_DEADLOCK FALSE
