------------------------------ MODULE MCIotsaWifi ------------------------------
(***************************************************************************)
(* Instances of IotsaWifi for TLC: one network to join, one host name, one  *)
(* timeout of one tick, and the requests that touch the mode or the radio.  *)
(***************************************************************************)
EXTENDS IotsaWifi

CONSTANTS h0, s1

EmptyRequest == [wifiDisabled |-> None, requestedMode |-> None, hostName |-> None,
                 modeTimeout |-> None, wifiDisabledOnBoot |-> None, reboot |-> FALSE]
EmptyForm == [hostName |-> None, rebootTimeout |-> None, wifiDisabledOnBoot |-> None,
              mode |-> None, factoryreset |-> FALSE]

MCHostNames == {h0}
MCTimeouts == {1}
MCSsids == {s1}

\* The mode that opens the device's own network, and both radio modes, each also set
\* for the next boot.
MCRequests ==
  {[EmptyRequest EXCEPT !.requestedMode = "CONFIG"]}
  \cup {[EmptyRequest EXCEPT !.wifiDisabled = d, !.wifiDisabledOnBoot = d] : d \in BOOLEAN}
MCForms == {[EmptyForm EXCEPT !.factoryreset = TRUE]}

\* The radio, or its setting, is switched off and on.
MCRadioRequests ==
  {[EmptyRequest EXCEPT !.wifiDisabledOnBoot = d] : d \in BOOLEAN}
  \cup {[EmptyRequest EXCEPT !.wifiDisabled = d, !.requestedMode = "CONFIG"] : d \in BOOLEAN}

MCNoForms == {}

\* One reset of each kind: the code only tells the kinds apart.
MCUserCauses == {"power"}
MCOtherCauses == {"softwareReboot"}
================================================================================
