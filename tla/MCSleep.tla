-------------------------------- MODULE MCSleep --------------------------------
(***************************************************************************)
(* Instances of Sleep for TLC: the ways to sleep, and what can be added to  *)
(* them.                                                                    *)
(***************************************************************************)
EXTENDS Sleep

LightSleep ==
  [sleepMode |-> "LIGHT", wakeDuration |-> 1, bootExtraWakeDuration |-> 0,
   activityExtraWakeDuration |-> 0, watchdogDuration |-> 1,
   disableSleepOnWiFi |-> FALSE, disableWiFiOnSleep |-> TRUE]

DeepSleep ==
  [LightSleep EXCEPT !.sleepMode = "DEEP", !.wakeDuration = 0, !.bootExtraWakeDuration = 1,
                     !.disableSleepOnWiFi = TRUE, !.disableWiFiOnSleep = FALSE]

\* A delay differs from light sleep in that the host task runs on meanwhile.
Delay ==
  [LightSleep EXCEPT !.sleepMode = "DELAY", !.activityExtraWakeDuration = 1,
                     !.disableWiFiOnSleep = FALSE]

MCSettings == {LightSleep, DeepSleep}
MCAllSettings == {LightSleep, DeepSleep, Delay}
================================================================================
