SPECIFICATION Spec
CONSTANTS
    w1 = w1
    w2 = w2
    c1 = c1
    c2 = c2
    c3 = c3
    Worktree = {w1}
    Column <- MCThree
    Of <- MCSameOf
    MaxRuns = 3
INVARIANTS OneRun NeverIdle
PROPERTIES InTurn
SYMMETRY MCColumns
CHECK_DEADLOCK FALSE
