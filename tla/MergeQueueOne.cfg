SPECIFICATION AllSpec
CONSTANTS
    N = 1
    None = None
    HasWorkflow = FALSE
    MaxUpdates = 2
    AgeCap = 1
    MaxBase = 4
    MaxHeads = 5
    MaxTrouble = 2
    Commit <- MCCommit
    Confirmed <- MCConfirmed
    CheckRun <- MCCheckRun
    BaseRun <- MCBaseRun
    Limit <- MCLimit
INVARIANTS TypeOK AllTypeOK SentAtMost InOrder DoneWasTested NightlyFirst DryRunStopsFirst QueueLandsConfirmed MergesOwnHead
PROPERTIES ImplementsRun
CHECK_DEADLOCK FALSE
