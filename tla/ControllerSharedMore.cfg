SPECIFICATION Spec
CONSTANTS
    n1 = n1
    n2 = n2
    p1 = p1
    p2 = p2
    r1 = r1
    Nirux = {n1, n2}
    Project = {p1, p2}
    Repository = {r1}
    Boards <- BoardsTogether
    None = None
    DryRun = FALSE
    MaxStarts = 2
    MaxCrashes = 1
    MaxQuits = 1
    MaxFails = 1
    MaxMoves = 0
    MaxTrouble = 3
    MaxBehind = 1
SYMMETRY SameProcesses
CHECK_DEADLOCK FALSE

INVARIANTS TypeOK QuitSaysSent
