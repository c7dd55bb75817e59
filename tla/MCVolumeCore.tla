---------------------------- MODULE MCVolumeCore ----------------------------
(* Model-checking instance of VolumeCore: one step up, one step down. *)
EXTENDS VolumeCore

MCSteps == {-1, 1}
=============================================================================
