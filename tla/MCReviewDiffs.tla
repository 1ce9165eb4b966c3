--------------------------- MODULE MCReviewDiffs ---------------------------
EXTENDS ReviewDiffs
============================================================================
