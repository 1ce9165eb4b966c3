SPECIFICATION Spec
CONSTANTS
    Child = {k1}
    Parent = {p1}
    Asked = {t1}
    Told = {}
    Nothing = Nothing
    MaxMade = 4
    MaxTurns = 0
    MaxCrashes = 0
    MaxFailures = 0
    MaxToggles = 1
    MaxBack = 1
INVARIANTS AnsweredOnce
PROPERTIES NeverReopened
CHECK_DEADLOCK FALSE
