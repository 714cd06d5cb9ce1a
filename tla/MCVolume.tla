------------------------------ MODULE MCVolume ------------------------------
(* Model-checking instance of the volume indices. *)
EXTENDS VolumeIndex
=============================================================================
