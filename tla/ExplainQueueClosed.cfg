SPECIFICATION Spec
CONSTANTS
    w1 = w1
    w2 = w2
    c1 = c1
    c2 = c2
    c3 = c3
    Worktree = {w1, w2}
    Column <- MCTwo
    Of <- MCTwoOf
    MaxRuns = 1
INVARIANT ClosedStops
CHECK_DEADLOCK FALSE
