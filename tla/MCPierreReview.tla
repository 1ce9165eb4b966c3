--------------------------- MODULE MCPierreReview ---------------------------
EXTENDS PierreReview

\* A line unchanged, numbered 3 in the base and 1 in the working tree, and one added.
SmallHunks ==
    <<[oldStart |-> 3, newStart |-> 1,
       lines |-> <<[kind |-> "context", cr |-> FALSE], [kind |-> "added", cr |-> FALSE]>>]>>

\* The unchanged line under both its numbers, and the added one: two annotations move
\* from line to line and share one, a third has no element.
SmallPlaces == [k1 |-> {<<"deletions", 3>>, <<"additions", 1>>, <<"additions", 2>>},
                k2 |-> {<<"additions", 1>>, <<"additions", 2>>}, gone |-> {<<"additions", 1>>}]
\* Dragged upwards; by the base's number; to a line that isn't shown.
SmallRanges == {<<<<"additions", 2>>, <<"additions", 1>>>>, <<<<"deletions", 3>>, <<"additions", 2>>>>,
                <<<<"additions", 1>>, <<"additions", 7>>>>}
=============================================================================
