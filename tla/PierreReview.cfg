SPECIFICATION Spec
CONSTANTS
    MaxCommentRows = 3
    Files = {"f"}
    Hunks <- SmallHunks
    Keys = {"k1", "k2", "gone"}
    Drawable = {"k1", "k2"}
    Places <- SmallPlaces
    Ranges <- SmallRanges
    MaxListed = 3
INVARIANTS ListedInOrder HeightsAreCurrent HearsTheUser
PROPERTIES FocusStays
CHECK_DEADLOCK FALSE
