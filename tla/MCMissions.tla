------------------------------ MODULE MCMissions ------------------------------
(***************************************************************************)
(* Small instances of Missions for TLC. The model values come from the cfg *)
(* files.                                                                  *)
(***************************************************************************)
EXTENDS Missions
=============================================================================
