SPECIFICATION FairSpec
CONSTANTS
    Child = {k1}
    Parent = {p1}
    Asked = {t1}
    Told = {t1}
    Nothing = Nothing
    MaxMade = 2
    MaxTurns = 2
    MaxCrashes = 1
    MaxFailures = 1
    MaxToggles = 0
    MaxBack = 0
PROPERTIES NotTwice ComesUp
CHECK_DEADLOCK FALSE
