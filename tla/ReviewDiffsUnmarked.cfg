SPECIFICATION Spec
CONSTANTS
    Files = {1}
    Long = {}
    Noted = 1
    Opened = {1}
    MaxVersion = 1
    MaxEvents = 4
CHECK_DEADLOCK FALSE
INVARIANTS MarkAsWritten
