SPECIFICATION Spec
CONSTANTS
    n1 = n1
    n2 = n2
    p1 = p1
    r1 = r1
    r2 = r2
    Nirux = {n1, n2}
    Project = {p1}
    Repository = {r1, r2}
    Boards <- BoardsTogether
    None = None
    DryRun = FALSE
    MaxStarts = 2
    MaxCrashes = 0
    MaxQuits = 0
    MaxFails = 0
    MaxMoves = 1
    MaxTrouble = 3
    MaxBehind = 1
SYMMETRY SameProcesses
CHECK_DEADLOCK FALSE
INVARIANTS OnlyKilledInterrupted

