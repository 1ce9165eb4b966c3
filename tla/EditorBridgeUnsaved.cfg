SPECIFICATION Spec
CONSTANTS
    Files = {"a", "b"}
    Modes = {"head"}
    Restored <- AtLaunch
    MaxText = 2
    MaxEvents = 2
INVARIANTS UnsavedIsUnsaved
CHECK_DEADLOCK FALSE
