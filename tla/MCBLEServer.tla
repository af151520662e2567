------------------------------ MODULE MCBLEServer ------------------------------
(***************************************************************************)
(* BLEServer alone, for the run in which the tasks' starts strand it.       *)
(***************************************************************************)
EXTENDS BLEServer

MCDurations == {0}
================================================================================
