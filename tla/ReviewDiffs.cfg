SPECIFICATION Spec
CONSTANTS
    Files = {1, 2}
    Long = {2}
    Noted = 1
    Opened = {1, 2}
    MaxVersion = 2
    MaxEvents = 3
CHECK_DEADLOCK FALSE
INVARIANTS NeverAnothersLines MarksWhatWasSeen OpenRowsCurrent MarkSettles ClicksAnswered
