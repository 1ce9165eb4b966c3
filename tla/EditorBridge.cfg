SPECIFICATION Spec
CONSTANTS
    Files = {"a", "b"}
    Modes = {"head"}
    Restored <- AtLaunch
    MaxText = 2
    MaxEvents = 4
INVARIANTS SameTab DiffIsOfItsFile UnsavedIsKnown CleanIsOnDisk HandedIsActive
CHECK_DEADLOCK FALSE
