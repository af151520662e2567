------------------------------- MODULE MCBLEScan -------------------------------
(***************************************************************************)
(* Instances of BLEScan for TLC.  The two devices are interchangeable.      *)
(***************************************************************************)
EXTENDS BLEScan, TLC

CONSTANTS d1, d2

MCDevices == {d1, d2}
MCOneDevice == {d1}

Symmetry == Permutations(MCDevices)
================================================================================
