SPECIFICATION Spec
CONSTANTS
    MaxIds = 3
    MaxEvents = 3
    EarlierPages = 0
CHECK_DEADLOCK FALSE
INVARIANTS TypeOK AllAnswered
