SPECIFICATION Spec
CONSTANTS
    Files = {"a", "b"}
    Modes = {"head"}
    Restored <- AtLaunch
    MaxText = 2
    MaxEvents = 4
CHECK_DEADLOCK FALSE
INVARIANTS TypeOK
