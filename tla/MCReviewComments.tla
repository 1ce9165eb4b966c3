--------------------------- MODULE MCReviewComments ---------------------------
(***************************************************************************)
(* Small instances of ReviewComments for TLC.                              *)
(***************************************************************************)
EXTENDS ReviewComments
=============================================================================
