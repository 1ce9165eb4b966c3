SPECIFICATION Spec
CONSTANTS
    Child = {k1}
    Parent = {p1}
    Asked = {t1}
    Told = {}
    Nothing = Nothing
    MaxMade = 3
    MaxTurns = 0
    MaxCrashes = 0
    MaxFailures = 0
    MaxToggles = 0
    MaxBack = 0
INVARIANTS StillQueued
CHECK_DEADLOCK FALSE
