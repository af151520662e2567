-------------------------------- MODULE ModeGate --------------------------------
(***************************************************************************)
(* What the configuration-mode machinery promises its user (README.md,      *)
(* section iotsaConfigMod.h): a special mode is first requested over the    *)
(* network, and only a mode that was requested can later be entered; an     *)
(* unused request disappears and a mode that was entered ends in normal     *)
(* mode.  The one exception is a device on its factory network, which goes  *)
(* to configuration mode when it is given the WiFi network to join.         *)
(***************************************************************************)
CONSTANTS Modes, Normal, Config

VARIABLES
  mode,      \* the mode the device is in
  pending,   \* the modes that a proof of physical access could switch to
  factory    \* whether the device is on its factory network

gateVars == <<mode, pending, factory>>

GateInit ==
  /\ mode = Normal
  /\ pending = {}
  /\ factory \in BOOLEAN

\* The user asks for a mode over the network.
Request ==
  \E m \in Modes \ {Normal} :
    /\ m \in pending'
    /\ pending' \subseteq pending \cup {m}
    /\ UNCHANGED mode

\* A request is cancelled, replaced or forgotten.
Withdraw ==
  /\ pending' \subseteq pending
  /\ UNCHANGED mode

\* The user demonstrates physical access: a requested mode starts.
Enter ==
  /\ mode' \in pending
  /\ pending' \subseteq pending

Revert ==
  /\ mode' = Normal
  /\ pending' \subseteq pending

SetUpNewDevice ==
  /\ factory
  /\ mode' = Config
  /\ UNCHANGED pending

GateNext ==
  /\ Request \/ Withdraw \/ Enter \/ Revert \/ SetUpNewDevice
  /\ factory' \in BOOLEAN

GateSpec == GateInit /\ [][GateNext]_gateVars
================================================================================
