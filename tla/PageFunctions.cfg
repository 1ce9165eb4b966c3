SPECIFICATION Spec
CONSTANTS
    MaxTable = 9
    MaxCommentRows = 3
    MaxDepth = 2
    TextLines = {1, 2}
    SourceLines <- SmallSource
    MaxTextLines = 4
    MaxHunkLines = 4
    MaxHunks = 2
    MaxSourceLines = 4
INVARIANTS DiffIsRight MarkersAreGits RowsAreShown RangesEitherWay ReadsEachLineOnce
CHECK_DEADLOCK FALSE
