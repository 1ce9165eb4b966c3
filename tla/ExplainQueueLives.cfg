SPECIFICATION FairSpec
CONSTANTS
    w1 = w1
    w2 = w2
    c1 = c1
    c2 = c2
    c3 = c3
    Worktree = {w1, w2}
    Column <- MCTwo
    Of <- MCTwoOf
    MaxRuns = 2
INVARIANTS CleansAlone StoppedForGood BarTellsTruth
PROPERTIES RunsEnd
CHECK_DEADLOCK FALSE
