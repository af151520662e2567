----------------------------- MODULE MCIotsaConfig -----------------------------
(***************************************************************************)
(* Instances of IotsaConfig for TLC: two host names, timeouts of one and    *)
(* two ticks, and the request bodies and forms that differ in what they do. *)
(***************************************************************************)
EXTENDS IotsaConfig

CONSTANTS h0, h1

MCHostNames == {h0, h1}
MCTimeouts == {1, 2}

\* A PUT body or a form without any argument, from which the others are made.
EmptyRequest == [wifiDisabled |-> None, requestedMode |-> None, hostName |-> None,
                 modeTimeout |-> None, wifiDisabledOnBoot |-> None, reboot |-> FALSE]
EmptyForm == [hostName |-> None, rebootTimeout |-> None, wifiDisabledOnBoot |-> None,
              mode |-> None, factoryreset |-> FALSE]

MCRequests ==
  {[EmptyRequest EXCEPT !.requestedMode = m] : m \in {"NORMAL", "CONFIG", "FACTORY_RESET"}}
  \cup {[EmptyRequest EXCEPT !.wifiDisabled = d, !.hostName = h1] : d \in BOOLEAN}
  \cup {[EmptyRequest EXCEPT !.requestedMode = "OTA", !.modeTimeout = 1],
        [EmptyRequest EXCEPT !.modeTimeout = 2, !.reboot = TRUE]}

MCForms ==
  {[EmptyForm EXCEPT !.mode = m] : m \in {"NORMAL", "INVALID"}}
  \cup {[EmptyForm EXCEPT !.hostName = h0, !.factoryreset = TRUE],
        [EmptyForm EXCEPT !.rebootTimeout = 1, !.mode = "CONFIG"]}

\* One reset of each kind: the code only tells the kinds apart.
MCUserCauses == {"power"}
MCOtherCauses == {"softwareReboot"}
================================================================================
