---------------------------- MODULE IotsaWifiProofs ----------------------------
(***************************************************************************)
(* Proofs about IotsaWifi, for all networks, timeouts and requests and      *)
(* whether or not radio calls may fail: the device implements IotsaConfig,  *)
(* so that everything proved of that module holds of the device.            *)
(***************************************************************************)
EXTENDS IotsaWifi, IotsaConfigProofs

(* What the radio calls leave behind. *)

LEMMA SearchDeadlines ==
  /\ Off \in {Off} \cup (0 .. After(SearchTime)) \cup (0 .. After(ApTime))
  /\ After(SearchTime) \in {Off} \cup (0 .. After(SearchTime)) \cup (0 .. After(ApTime))
  /\ After(ApTime) \in {Off} \cup (0 .. After(SearchTime)) \cup (0 .. After(ApTime))
  /\ \A d \in {Off} \cup (0 .. After(SearchTime)) \cup (0 .. After(ApTime)) :
       Ticked(d) \in {Off} \cup (0 .. After(SearchTime)) \cup (0 .. After(ApTime))
  BY WifiAssumption DEF After, Off, Ticked

\* A search starts in SEARCHING, with a deadline.
LEMMA SearchStartedState ==
  ASSUME NEW w \in RadioState
  PROVE  SearchStarted(w) \in RadioState /\ SearchStarted(w).mode = "SEARCHING"
  BY SearchDeadlines DEF SearchStarted, RadioState, WifiModes

\* Starting the station leaves the mode alone or begins a search.
LEMMA StartStationState ==
  ASSUME NEW w \in RadioState, NEW net, NEW v \in StartStation(w, net)
  PROVE  v \in RadioState /\ v.mode \in {w.mode, "SEARCHING"}
  <1> DEFINE on == [w EXCEPT !.radio = @ \cup {"STA"}]
             begun == {[on EXCEPT !.link = l] : l \in {"down", w.link}}
  <1>1. on \in RadioState /\ on.mode = w.mode
    BY DEF RadioState
  <1>2. ASSUME NEW l \in {"down", w.link}
        PROVE  [on EXCEPT !.link = l] \in RadioState /\ [on EXCEPT !.link = l].mode = w.mode
    BY <1>1 DEF RadioState
  <1>3. \A b \in begun : b \in RadioState /\ b.mode = w.mode
    BY <1>2
  <1>4. v = w \/ v \in begun \/ \E b \in begun : v = SearchStarted(b)
    BY DEF StartStation, OrFails
  <1> QED
    BY <1>3, <1>4, SearchStartedState

LEMMA StopStationState ==
  ASSUME NEW w \in RadioState, NEW v \in StopStation(w)
  PROVE  v \in RadioState /\ v.mode = w.mode
  BY DEF StopStation, OrFails, RadioState

\* Starting or stopping the private network sets the mode it is given, or fails.
LEMMA StartAPState ==
  ASSUME NEW w \in RadioState, NEW m \in WifiModes, NEW v \in StartAP(w, m)
  PROVE  v \in RadioState /\ v.mode \in {w.mode, m}
  <1> DEFINE on == [w EXCEPT !.radio = @ \cup {"AP"}]
  <1>1. on \in RadioState /\ on.mode = w.mode
    BY DEF RadioState
  <1>2. v = w \/ v = on \/ v = [on EXCEPT !.mode = m]
    BY DEF StartAP, OrFails
  <1> QED
    BY <1>1, <1>2 DEF RadioState

LEMMA StopAPState ==
  ASSUME NEW w \in RadioState, NEW m \in WifiModes, NEW v \in StopAP(w, m)
  PROVE  v \in RadioState /\ v.mode \in {w.mode, m}
  BY DEF StopAP, OrFails, RadioState

\* A mode switch ends in the mode that was asked for, in a search, or, from normal
\* mode without a network, in factory mode.
LEMMA GotoModeState ==
  ASSUME NEW w \in RadioState, NEW net, NEW config \in BOOLEAN,
         NEW x \in GotoMode(w, net, config)
  PROVE  /\ x \in RadioState
         /\ w.mode = "NORMAL" => x.mode \in {"FACTORY", "SEARCHING", "NORMAL"}
  <1> DEFINE m == IF w.mode = "NORMAL" /\ net = NoSsid THEN "FACTORY" ELSE w.mode
             v == [w EXCEPT !.mode = m, !.enabled = (m # "DISABLED")]
             withAP == IF config /\ "AP" \notin v.radio THEN StartAP(v, "SEARCHING")
                       ELSE {v}
  <1>1. m \in WifiModes /\ (w.mode = "NORMAL" => m \in {"FACTORY", "NORMAL"})
    BY DEF RadioState, WifiModes
  <1>2. v \in RadioState /\ v.mode = m
    BY <1>1 DEF RadioState
  <1>3. CASE m = "DISABLED"
    <2>1. PICK y \in StopStation(v) : x \in StopAP(y, "DISABLED")
      BY <1>3 DEF GotoMode
    <2> QED
      BY <1>1, <1>2, <1>3, <2>1, StopStationState, StopAPState DEF WifiModes
  <1>4. CASE m = "FACTORY"
    <2>1. PICK y \in StopStation(v) : x \in StartAP(y, "FACTORY")
      BY <1>4 DEF GotoMode
    <2>2. y \in RadioState /\ y.mode = "FACTORY"
      BY <1>2, <1>4, <2>1, StopStationState
    <2> QED
      BY <2>1, <2>2, StartAPState DEF WifiModes
  <1>5. CASE m \notin {"DISABLED", "FACTORY"}
    <2>1. PICK y \in withAP : x \in StartStation(y, net)
      BY <1>5 DEF GotoMode
    <2>2. y = v \/ y \in StartAP(v, "SEARCHING")
      BY <2>1
    <2>3. "SEARCHING" \in WifiModes
      BY DEF WifiModes
    <2>4. y \in RadioState /\ y.mode \in {m, "SEARCHING"}
      <3> HIDE DEF v, m
      <3> QED
        BY <1>2, <2>2, <2>3, StartAPState
    <2> QED
      BY <1>1, <2>1, <2>4, StartStationState
  <1> QED
    BY <1>3, <1>4, <1>5

LEMMA FollowStatusState ==
  ASSUME NEW w \in RadioState, NEW net, NEW config \in BOOLEAN,
         NEW x \in FollowStatus(w, net, config)
  PROVE  x \in RadioState
  <1> DEFINE joined == [w EXCEPT !.search = Off, !.mode = "NORMAL"]
             failed == [w EXCEPT !.search = After(ApTime), !.mode = "NOTFOUND"]
  <1>1. joined \in RadioState /\ failed \in RadioState
    BY SearchDeadlines DEF RadioState, WifiModes
  <1>2. \/ x = w
        \/ x = SearchStarted(w)
        \/ x \in StartStation(w, net)
        \/ x = joined
        \/ x \in StopAP(joined, "NORMAL")
        \/ \E y \in StopStation(failed) : x \in StartAP(y, "NOTFOUND")
    BY DEF FollowStatus
  <1>3. "NORMAL" \in WifiModes /\ "NOTFOUND" \in WifiModes
    BY DEF WifiModes
  <1> QED
    BY <1>1, <1>2, <1>3, SearchStartedState, StartStationState, StopStationState,
       StartAPState, StopAPState

--------------------------------------------------------------------------------
(* Every step of the device is a step of IotsaConfig. *)

RadioTyped == ssid \in Ssids \cup {NoSsid} /\ Radio \in RadioState

\* What the WiFi module does at boot is what IotsaConfig allows of it.
LEMMA WifiSetupBoots ==
  ASSUME WifiSetup
  PROVE  WifiModeAtBoot /\ Radio' \in RadioState
  <1>1. \A m \in WifiModes : RadioOff(m) \in RadioState /\ RadioOff(m).mode = m
    BY SearchDeadlines DEF RadioOff, RadioState
  <1>2. "NORMAL" \in WifiModes /\ "DISABLED" \in WifiModes
    BY DEF WifiModes
  <1>3. PICK w \in IF phase' = "factoryReset" \/ settings'.wifiDisabledOnBoot
                  THEN {RadioOff("DISABLED")}
                  ELSE GotoMode(RadioOff("NORMAL"), ssid', configurationMode' = "CONFIG") :
             RadioBecomes(w)
    BY DEF WifiSetup
  <1>4. /\ w \in RadioState
        /\ w.mode \in IF phase' = "factoryReset" \/ settings'.wifiDisabledOnBoot
                     THEN {"DISABLED"} ELSE {"FACTORY", "SEARCHING", "NORMAL"}
    <2>1. CASE phase' = "factoryReset" \/ settings'.wifiDisabledOnBoot
      BY <1>1, <1>2, <1>3, <2>1
    <2>2. CASE ~(phase' = "factoryReset" \/ settings'.wifiDisabledOnBoot)
      <3>1. w \in GotoMode(RadioOff("NORMAL"), ssid', configurationMode' = "CONFIG")
        BY <1>3, <2>2
      <3>2. (configurationMode' = "CONFIG") \in BOOLEAN
        OBVIOUS
      <3> QED
        BY <1>1, <1>2, <2>2, <3>1, <3>2, GotoModeState
    <2> QED
      BY <2>1, <2>2
  <1>5. Radio' = w
    BY <1>3, <1>4 DEF RadioBecomes, Radio, RadioState
  <1> QED
    BY <1>3, <1>4, <1>5 DEF WifiModeAtBoot, RadioBecomes

LEMMA WifiLoopIsStep ==
  ASSUME RadioTyped, WifiLoop
  PROVE  WifiLoopStep /\ Radio' \in RadioState
  <1> DEFINE start == IF Passed(wantWifiModeSwitchAt)
                      THEN GotoMode(Radio, ssid, InConfigurationMode) ELSE {Radio}
  <1>1. PICK w \in start :
          /\ \E v \in FollowStatus(w, ssid, InConfigurationMode) : RadioBecomes(v)
          /\ rebootAt' = IF GivesUp(w) /\ w.link = "idle" THEN After(RebootDelay)
                         ELSE rebootAt
    BY DEF WifiLoop
  <1>2. InConfigurationMode \in BOOLEAN /\ Radio \in RadioState
    BY DEF InConfigurationMode, RadioTyped
  <1>3. w \in RadioState
    BY <1>1, <1>2, GotoModeState
  <1>4. PICK v \in FollowStatus(w, ssid, InConfigurationMode) : RadioBecomes(v)
    BY <1>1
  <1>5. v \in RadioState
    BY <1>2, <1>3, <1>4, FollowStatusState
  <1>6. Radio' = v /\ wifiMode' \in WifiModes
    BY <1>4, <1>5 DEF RadioBecomes, Radio, RadioState
  <1>7. rebootAt' \in {rebootAt, After(RebootDelay)}
    BY <1>1
  <1> QED
    BY <1>5, <1>6, <1>7 DEF WifiLoop, WifiLoopStep

LEMMA DeviceBootStep ==
  ASSUME RadioTyped,
         \/ \E cause \in BootCauses : DeviceReset(cause)
         \/ DevicePowerLossWhileSaving
         \/ DeviceLoop
         \/ FormatDone
  PROVE  Next /\ RadioTyped'
  <1>1. WifiModeAtBoot /\ Radio' \in RadioState
    BY WifiSetupBoots DEF DeviceReset, DevicePowerLossWhileSaving, DeviceLoop,
                          FormatDone, DeviceFactoryResetDone
  <1>2. ssid' \in Ssids \cup {NoSsid}
    BY DEF DeviceReset, DevicePowerLossWhileSaving, DeviceLoop, FormatDone,
           DeviceFactoryResetDone, RadioTyped
  <1>3. CASE \E cause \in BootCauses : DeviceReset(cause)
    <2>1. PICK cause \in BootCauses : DeviceReset(cause)
      BY <1>3
    <2>2. Reset(cause)
      BY <1>1, <2>1 DEF DeviceReset, Reset
    <2> QED
      BY <1>1, <1>2, <2>2 DEF Next, UserStep, ConfigUserStep, RadioTyped
  <1>4. CASE DevicePowerLossWhileSaving
    <2>1. "power" \in BootCauses
      BY ConfigAssumption DEF BootCauses
    <2>2. PowerLossWhileSaving \/ Reset("power")
      BY <1>1, <1>4 DEF DevicePowerLossWhileSaving, PowerLossWhileSaving, Reset
    <2> QED
      BY <1>1, <1>2, <2>1, <2>2 DEF Next, UserStep, ConfigUserStep, RadioTyped
  <1>5. CASE DeviceLoop
    <2>1. ConfigLoop
      BY <1>1, <1>5 DEF DeviceLoop, ConfigLoop
    <2> QED
      BY <1>1, <1>2, <2>1 DEF Next, DeviceStep, ConfigStep, RadioTyped
  <1>6. CASE FormatDone
    <2>1. \E cause \in BootCauses : FactoryResetDone(cause)
      BY <1>1, <1>6 DEF FormatDone, DeviceFactoryResetDone, FactoryResetDone
    <2> QED
      BY <1>1, <1>2, <2>1 DEF Next, DeviceStep, ConfigStep, RadioTyped
  <1> QED
    BY <1>3, <1>4, <1>5, <1>6

\* The requests, and the switch of the config module, leave the radio to the next
\* loop(): they write the mode it is to follow.
LEMMA DeviceRequestStep ==
  ASSUME IInv, RadioTyped, ConfigUserRequest \/ DeviceConfigModLoop
  PROVE  Next /\ RadioTyped'
  <1>1. Next
    BY DEF ConfigUserRequest, DeviceConfigModLoop, Next, UserStep, ConfigUserStep,
           DeviceStep, ConfigStep
  <1>2. wifiMode' \in WifiModes
    BY <1>1, NextIInv DEF IInv, TypeOK
  <1> QED
    BY <1>1, <1>2 DEF ConfigUserRequest, DeviceConfigModLoop, RadioTyped, radioVars,
                      Radio, RadioState

LEMMA DeviceStepIsConfigStep ==
  ASSUME IInv, RadioTyped, [DeviceNext]_deviceVars
  PROVE  [Next]_configVars /\ RadioTyped'
  <1>1. CASE \/ \E cause \in BootCauses : DeviceReset(cause)
             \/ DevicePowerLossWhileSaving \/ DeviceLoop \/ FormatDone
    BY <1>1, DeviceBootStep
  <1>2. CASE ConfigUserRequest \/ DeviceConfigModLoop
    BY <1>2, DeviceRequestStep
  <1>3. CASE \E net \in Ssids \cup {NoSsid} : SaveWifiConfig(net)
    BY <1>3 DEF SaveWifiConfig, WifiConfigSaved, Next, UserStep, RadioTyped, Radio,
                radioVars
  <1>4. CASE WifiLoop
    BY <1>4, WifiLoopIsStep DEF Next, DeviceStep, RadioTyped, WifiLoop
  <1>5. CASE DeviceTick
    <2>1. searchTimeoutAt \in {Off} \cup (0 .. After(SearchTime)) \cup (0 .. After(ApTime))
      BY DEF RadioTyped, Radio, RadioState
    <2>2. Ticked(searchTimeoutAt)
            \in {Off} \cup (0 .. After(SearchTime)) \cup (0 .. After(ApTime))
      BY <2>1, SearchDeadlines
    <2> QED
      BY <1>5, <2>2 DEF DeviceTick, Tick, Next, DeviceStep, RadioTyped, Radio, RadioState
  <1>6. CASE LinkUp \/ LinkLost
    BY <1>6 DEF LinkUp, LinkLost, configVars, RadioTyped, Radio, RadioState, wifiVars
  <1>7. CASE UNCHANGED deviceVars
    BY <1>7 DEF deviceVars, configVars, wifiVars, radioVars, RadioTyped, Radio
  <1> QED
    BY <1>1, <1>2, <1>3, <1>4, <1>5, <1>6, <1>7 DEF DeviceNext, DeviceUserStep

LEMMA DeviceInitIsConfigInit == DeviceInit => Init /\ RadioTyped
  BY SearchDeadlines DEF DeviceInit, Init, RadioTyped, Radio, RadioState, WifiModes

LEMMA DeviceInvariance == DeviceSpec => [](IInv /\ RadioTyped)
  <1>1. DeviceInit => IInv /\ RadioTyped
    BY DeviceInitIsConfigInit, InitIInv
  <1>2. IInv /\ RadioTyped /\ [DeviceNext]_deviceVars => IInv' /\ RadioTyped'
    BY DeviceStepIsConfigStep, NextIInv
  <1> QED
    BY <1>1, <1>2, PTL DEF DeviceSpec

--------------------------------------------------------------------------------
(* The device. *)

\* In every reachable state the radio is in one of its modes, with a deadline no
\* further away than a search or a stay on the private network lasts, however the
\* radio calls fail.
THEOREM DeviceTypeCorrect == DeviceSpec => []WifiTypeOK
  BY DeviceInvariance, PTL DEF WifiTypeOK, RadioTyped, IInv

\* The device with its WiFi module implements the configuration object's view of
\* it, so that every theorem about Spec is one about the device.
THEOREM DeviceImplementsConfig == DeviceSpec => ImplementsConfig
  <1>1. IInv /\ RadioTyped /\ [DeviceNext]_deviceVars => [Next]_configVars
    BY DeviceStepIsConfigStep
  <1>2. DeviceInit => Init
    BY DeviceInitIsConfigInit
  <1> QED
    BY <1>1, <1>2, DeviceInvariance, PTL DEF DeviceSpec, Spec, ImplementsConfig

\* In particular the device is in no special mode that nobody at the device asked
\* for, changes no setting outside the modes for it, and keeps its requests from
\* outliving their deadlines, whatever its radio does.
THEOREM DeviceIsGuarded ==
  DeviceSpec =>
    EntryNeedsPhysicalAccess /\ SettingsGuarded /\ []FlashedRequestExpires
  BY DeviceImplementsConfig, EntryNeedsAccess, SettingsAreGuarded,
     FlashedRequestsExpire, PTL DEF ImplementsConfig

--------------------------------------------------------------------------------
(* With a radio that obeys, no search lasts for ever. *)

Timed(w) == w.mode \in {"SEARCHING", "NOTFOUND"} => Armed(w.search)

LEMMA ArmedDeadlines ==
  /\ Armed(After(SearchTime)) /\ Armed(After(ApTime))
  /\ \A d \in {Off} \cup (0 .. After(SearchTime)) \cup (0 .. After(ApTime)) :
       Armed(d) => Armed(Ticked(d))
  BY WifiAssumption DEF Armed, After, Off, Ticked

LEMMA StartStationTimed ==
  ASSUME RadioMayFail = FALSE, NEW w \in RadioState, Timed(w),
         NEW net, NEW v \in StartStation(w, net)
  PROVE  Timed(v)
  <1> DEFINE on == [w EXCEPT !.radio = @ \cup {"STA"}]
             begun == {[on EXCEPT !.link = l] : l \in {"down", w.link}}
  <1>1. ASSUME NEW b \in begun
        PROVE  Timed(b) /\ Timed(SearchStarted(b))
    <2>1. PICK l \in {"down", w.link} : b = [on EXCEPT !.link = l]
      OBVIOUS
    <2>2. b.mode = w.mode /\ b.search = w.search
      BY <2>1 DEF RadioState
    <2>3. SearchStarted(b).search = After(SearchTime)
      BY <2>1 DEF SearchStarted, RadioState
    <2> QED
      BY <2>2, <2>3, ArmedDeadlines DEF Timed
  <1>2. v \in begun \/ \E b \in begun : v = SearchStarted(b)
    BY DEF StartStation, OrFails
  <1> QED
    BY <1>1, <1>2

\* Calls that change the mode, and the radio, but not the deadline.
LEMMA StopStationSearch ==
  ASSUME RadioMayFail = FALSE, NEW w \in RadioState, NEW v \in StopStation(w)
  PROVE  v \in RadioState /\ v.search = w.search
  BY DEF StopStation, OrFails, RadioState

LEMMA AccessPointSearch ==
  ASSUME RadioMayFail = FALSE, NEW w \in RadioState, NEW m \in WifiModes,
         NEW v \in StartAP(w, m) \cup StopAP(w, m)
  PROVE  v.search = w.search /\ v.mode = m
  BY DEF StartAP, StopAP, OrFails, RadioState

\* Starting the private network of configuration mode begins a search, which a
\* station that has a network to join gives a deadline.
LEMMA GotoModeTimed ==
  ASSUME RadioMayFail = FALSE, NEW w \in RadioState, Timed(w),
         NEW net, NEW config \in BOOLEAN, NEW x \in GotoMode(w, net, config)
  PROVE  Timed(x)
  <1> DEFINE m == IF w.mode = "NORMAL" /\ net = NoSsid THEN "FACTORY" ELSE w.mode
             v == [w EXCEPT !.mode = m, !.enabled = (m # "DISABLED")]
             withAP == IF config /\ "AP" \notin v.radio THEN StartAP(v, "SEARCHING")
                       ELSE {v}
  <1>1. m \in WifiModes
    BY DEF RadioState, WifiModes
  <1>2. v \in RadioState /\ v.mode = m /\ v.search = w.search
    BY <1>1 DEF RadioState
  <1>3. {"DISABLED", "FACTORY", "SEARCHING"} \subseteq WifiModes
    BY DEF WifiModes
  <1>4. CASE m = "DISABLED"
    <2>1. PICK y \in StopStation(v) : x \in StopAP(y, "DISABLED")
      BY <1>4 DEF GotoMode
    <2>2. y \in RadioState
      BY <1>2, <2>1, StopStationState
    <2>3. x.mode = "DISABLED"
      BY <1>3, <2>1, <2>2, AccessPointSearch
    <2> QED
      BY <2>3 DEF Timed
  <1>5. CASE m = "FACTORY"
    <2>1. PICK y \in StopStation(v) : x \in StartAP(y, "FACTORY")
      BY <1>5 DEF GotoMode
    <2>2. y \in RadioState
      BY <1>2, <2>1, StopStationState
    <2>3. x.mode = "FACTORY"
      BY <1>3, <2>1, <2>2, AccessPointSearch
    <2> QED
      BY <2>3 DEF Timed
  <1>6. CASE m \notin {"DISABLED", "FACTORY"}
    <2>1. PICK y \in withAP : x \in StartStation(y, net)
      BY <1>6 DEF GotoMode
    <2>2. y = v \/ y \in StartAP(v, "SEARCHING")
      BY <2>1
    <2>3. y \in RadioState /\ y.search = w.search /\ y.mode \in {m, "SEARCHING"}
      <3> HIDE DEF v, m
      <3> QED
        BY <1>2, <1>3, <2>2, AccessPointSearch, StartAPState
    <2>4. CASE net = NoSsid
      <3>1. Armed(w.search)
        BY <1>6, <2>4 DEF Timed, RadioState, WifiModes
      <3>2. Timed(y)
        BY <2>3, <3>1 DEF Timed
      <3> QED
        BY <2>1, <2>3, <3>2, StartStationTimed
    <2>5. CASE net # NoSsid
      <3>1. PICK l \in {"down", y.link} :
              x = SearchStarted([[y EXCEPT !.radio = @ \cup {"STA"}] EXCEPT !.link = l])
        BY <2>1, <2>5 DEF StartStation, OrFails
      <3>2. x.search = After(SearchTime)
        BY <2>3, <3>1 DEF SearchStarted, RadioState
      <3> QED
        BY <3>2, ArmedDeadlines DEF Timed
    <2> QED
      BY <2>4, <2>5
  <1> QED
    BY <1>4, <1>5, <1>6

LEMMA FollowStatusTimed ==
  ASSUME RadioMayFail = FALSE, NEW w \in RadioState, Timed(w),
         NEW net, NEW config \in BOOLEAN, NEW x \in FollowStatus(w, net, config)
  PROVE  Timed(x)
  <1> DEFINE joined == [w EXCEPT !.search = Off, !.mode = "NORMAL"]
             failed == [w EXCEPT !.search = After(ApTime), !.mode = "NOTFOUND"]
  <1>1. /\ joined \in RadioState /\ joined.mode = "NORMAL"
        /\ failed \in RadioState /\ failed.search = After(ApTime)
        /\ "NORMAL" \in WifiModes /\ "NOTFOUND" \in WifiModes
    BY SearchDeadlines DEF RadioState, WifiModes
  <1>2. CASE x = w \/ x \in StartStation(w, net)
    BY <1>2, StartStationTimed
  <1>3. CASE x = SearchStarted(w)
    BY <1>3, ArmedDeadlines DEF SearchStarted, RadioState, Timed
  <1>4. CASE x = joined \/ x \in StopAP(joined, "NORMAL")
    <2>1. x.mode = "NORMAL"
      <3> HIDE DEF joined
      <3> QED
        BY <1>1, <1>4, AccessPointSearch
    <2> QED
      BY <2>1 DEF Timed
  <1>5. CASE \E y \in StopStation(failed) : x \in StartAP(y, "NOTFOUND")
    <2> HIDE DEF failed
    <2>1. PICK y \in StopStation(failed) : x \in StartAP(y, "NOTFOUND")
      BY <1>5
    <2>2. y \in RadioState /\ y.search = After(ApTime)
      BY <1>1, <2>1, StopStationSearch
    <2>3. x.search = After(ApTime)
      BY <1>1, <2>1, <2>2, AccessPointSearch
    <2> QED
      BY <2>3, ArmedDeadlines DEF Timed
  <1> QED
    BY <1>2, <1>3, <1>4, <1>5 DEF FollowStatus

LEMMA SearchIsTimedStep ==
  ASSUME RadioMayFail = FALSE, IInv, RadioTyped, SearchIsTimed, [DeviceNext]_deviceVars
  PROVE  SearchIsTimed'
  <1>1. Timed(Radio) /\ Radio \in RadioState
    BY DEF RadioTyped, SearchIsTimed, Timed, Radio
  <1>2. \A w \in RadioState : RadioBecomes(w) /\ Timed(w) => SearchIsTimed'
    BY DEF RadioBecomes, SearchIsTimed, Timed
  <1>3. CASE \/ \E cause \in BootCauses : DeviceReset(cause)
             \/ DevicePowerLossWhileSaving \/ DeviceLoop \/ FormatDone
    <2>1. WifiSetup
      BY <1>3 DEF DeviceReset, DevicePowerLossWhileSaving, DeviceLoop, FormatDone,
                  DeviceFactoryResetDone
    <2>2. /\ RadioOff("DISABLED") \in RadioState /\ Timed(RadioOff("DISABLED"))
          /\ RadioOff("NORMAL") \in RadioState /\ Timed(RadioOff("NORMAL"))
      BY SearchDeadlines DEF RadioOff, RadioState, WifiModes, Timed
    <2>3. (configurationMode' = "CONFIG") \in BOOLEAN
      OBVIOUS
    <2>4. \A w \in GotoMode(RadioOff("NORMAL"), ssid', configurationMode' = "CONFIG") :
            w \in RadioState /\ Timed(w)
      BY <2>2, <2>3, GotoModeState, GotoModeTimed
    <2> QED
      BY <1>2, <2>1, <2>2, <2>4 DEF WifiSetup
  <1>4. CASE WifiLoop
    <2>1. InConfigurationMode \in BOOLEAN
      BY DEF InConfigurationMode
    <2>2. PICK w \in IF Passed(wantWifiModeSwitchAt)
                    THEN GotoMode(Radio, ssid, InConfigurationMode) ELSE {Radio} :
            \E v \in FollowStatus(w, ssid, InConfigurationMode) : RadioBecomes(v)
      BY <1>4 DEF WifiLoop
    <2>3. w \in RadioState /\ Timed(w)
      BY <1>1, <2>1, <2>2, GotoModeState, GotoModeTimed
    <2>4. PICK v \in FollowStatus(w, ssid, InConfigurationMode) : RadioBecomes(v)
      BY <2>2
    <2>5. v \in RadioState /\ Timed(v)
      BY <2>1, <2>3, <2>4, FollowStatusState, FollowStatusTimed
    <2> QED
      BY <1>2, <2>4, <2>5
  <1>5. CASE ConfigUserRequest
    <2>1. searchTimeoutAt' = searchTimeoutAt
          /\ wifiMode' \in {wifiMode, "DISABLED", "NORMAL"}
      BY <1>5 DEF ConfigUserRequest, radioVars, AllowRequestedConfigurationMode,
                  ExtendCurrentMode, RequestReboot, PutConfig, WebConfig, wifiVars
    <2> QED
      BY <2>1 DEF SearchIsTimed
  <1>6. CASE \/ DeviceConfigModLoop \/ LinkUp \/ LinkLost \/ UNCHANGED deviceVars
             \/ \E net \in Ssids \cup {NoSsid} : SaveWifiConfig(net)
    BY <1>6 DEF DeviceConfigModLoop, ConfigModLoop, LinkUp, LinkLost, SaveWifiConfig,
                WifiConfigSaved, deviceVars, configVars, wifiVars, radioVars,
                SearchIsTimed
  <1>7. CASE DeviceTick
    <2>1. wifiMode' = wifiMode /\ searchTimeoutAt' = Ticked(searchTimeoutAt)
      BY <1>7 DEF DeviceTick, Tick
    <2>2. searchTimeoutAt \in {Off} \cup (0 .. After(SearchTime)) \cup (0 .. After(ApTime))
      BY DEF RadioTyped, Radio, RadioState
    <2> QED
      BY <2>1, <2>2, ArmedDeadlines DEF SearchIsTimed
  <1> QED
    BY <1>3, <1>4, <1>5, <1>6, <1>7 DEF DeviceNext, DeviceUserStep

\* As long as the radio calls succeed, loop() never searches for a network, and
\* never waits on its private one, without the deadline that ends it.
THEOREM SearchesAreTimed == RadioMayFail = FALSE => (DeviceSpec => []SearchIsTimed)
  <1> SUFFICES ASSUME RadioMayFail = FALSE PROVE DeviceSpec => []SearchIsTimed
    OBVIOUS
  <1>1. DeviceInit => SearchIsTimed
    BY DEF DeviceInit, Init, SearchIsTimed
  <1>2. /\ IInv /\ RadioTyped /\ SearchIsTimed /\ [DeviceNext]_deviceVars
        => SearchIsTimed'
    BY SearchIsTimedStep
  <1> QED
    BY <1>1, <1>2, DeviceInvariance, PTL DEF DeviceSpec

--------------------------------------------------------------------------------
(* With a radio that obeys, the radio is what the modes ask for. *)

\* A device that is to be reached on its own network has one, even while a switch
\* is waiting to be carried out.
OwnNetwork(w) == w.mode \in {"FACTORY", "NOTFOUND"} => "AP" \in w.radio

\* What holds once no switch is waiting.  Normal mode excludes the private network
\* outside configuration mode whether or not the station is connected: that it is
\* connected is left out, since the status may change at any time.
Settled(w, config) ==
  /\ w.mode = "DISABLED" => w.radio = {}
  /\ w.enabled = (w.mode # "DISABLED")
  /\ config /\ w.mode # "DISABLED" => "AP" \in w.radio
  /\ w.mode = "NORMAL" /\ ~config => "AP" \notin w.radio

RadioInv ==
  /\ OwnNetwork(Radio)
  /\ ~SwitchPending => Settled(Radio, InConfigurationMode)

\* What each of the radio calls does when it succeeds.
LEMMA StartStationRadio ==
  ASSUME RadioMayFail = FALSE, NEW w \in RadioState, NEW net,
         NEW v \in StartStation(w, net)
  PROVE  /\ v.radio = w.radio \cup {"STA"} /\ v.enabled = w.enabled
         /\ net = NoSsid => v.mode = w.mode
         /\ net # NoSsid => v.mode = "SEARCHING"
  <1> DEFINE on == [w EXCEPT !.radio = @ \cup {"STA"}]
             begun == {[on EXCEPT !.link = l] : l \in {"down", w.link}}
  <1>1. ASSUME NEW b \in begun
        PROVE  /\ b.radio = w.radio \cup {"STA"} /\ b.enabled = w.enabled
               /\ b.mode = w.mode
               /\ SearchStarted(b).radio = w.radio \cup {"STA"}
               /\ SearchStarted(b).enabled = w.enabled
               /\ SearchStarted(b).mode = "SEARCHING"
    <2>1. PICK l \in {"down", w.link} : b = [on EXCEPT !.link = l]
      OBVIOUS
    <2> QED
      BY <2>1 DEF SearchStarted, RadioState
  <1>2. \/ net = NoSsid /\ v \in begun
        \/ net # NoSsid /\ \E b \in begun : v = SearchStarted(b)
    BY DEF StartStation, OrFails
  <1> QED
    BY <1>1, <1>2

LEMMA StopStationRadio ==
  ASSUME RadioMayFail = FALSE, NEW w \in RadioState, NEW v \in StopStation(w)
  PROVE  v.radio = w.radio \ {"STA"} /\ v.enabled = w.enabled
  BY DEF StopStation, OrFails, RadioState

LEMMA StartAPRadio ==
  ASSUME RadioMayFail = FALSE, NEW w \in RadioState, NEW m \in WifiModes,
         NEW v \in StartAP(w, m)
  PROVE  v.radio = w.radio \cup {"AP"} /\ v.enabled = w.enabled /\ v.mode = m
  BY DEF StartAP, OrFails, RadioState

LEMMA StopAPRadio ==
  ASSUME RadioMayFail = FALSE, NEW w \in RadioState, NEW m \in WifiModes,
         NEW v \in StopAP(w, m)
  PROVE  v.radio = w.radio \ {"AP"} /\ v.enabled = w.enabled /\ v.mode = m
  BY DEF StopAP, OrFails, RadioState

\* A mode switch settles the radio, whatever it was before.
LEMMA GotoModeSettles ==
  ASSUME RadioMayFail = FALSE, NEW w \in RadioState, OwnNetwork(w),
         NEW net, NEW config \in BOOLEAN, NEW x \in GotoMode(w, net, config)
  PROVE  OwnNetwork(x) /\ Settled(x, config)
  <1> DEFINE m == IF w.mode = "NORMAL" /\ net = NoSsid THEN "FACTORY" ELSE w.mode
             v == [w EXCEPT !.mode = m, !.enabled = (m # "DISABLED")]
             withAP == IF config /\ "AP" \notin v.radio THEN StartAP(v, "SEARCHING")
                       ELSE {v}
  <1>1. m \in WifiModes
    BY DEF RadioState, WifiModes
  <1>2. /\ v \in RadioState /\ v.mode = m /\ v.radio = w.radio
        /\ v.enabled = (m # "DISABLED")
    BY <1>1 DEF RadioState
  <1>3. CASE m = "DISABLED"
    <2>1. PICK y \in StopStation(v) : x \in StopAP(y, "DISABLED")
      BY <1>3 DEF GotoMode
    <2> HIDE DEF v, m
    <2>2. y \in RadioState
      BY <1>2, <2>1, StopStationState
    <2>3. /\ x.mode = "DISABLED" /\ x.radio = y.radio \ {"AP"}
          /\ x.enabled = y.enabled /\ "DISABLED" \in WifiModes
      BY <1>1, <1>3, <2>1, <2>2 DEF StopAP, OrFails, RadioState
    <2>4. y.radio = v.radio \ {"STA"} /\ y.enabled = v.enabled
      BY <1>2, <2>1, StopStationRadio
    <2>5. x.radio = {}
      BY <1>2, <2>3, <2>4 DEF RadioState
    <2>6. x.enabled = (x.mode # "DISABLED")
      BY <1>2, <1>3, <2>3, <2>4
    <2> QED
      BY <2>3, <2>5, <2>6 DEF OwnNetwork, Settled
  <1>4. CASE m = "FACTORY"
    <2>1. PICK y \in StopStation(v) : x \in StartAP(y, "FACTORY")
      BY <1>4 DEF GotoMode
    <2> HIDE DEF v, m
    <2>2. y \in RadioState
      BY <1>2, <2>1, StopStationState
    <2>3. /\ x.mode = "FACTORY" /\ x.radio = y.radio \cup {"AP"}
          /\ x.enabled = y.enabled
      BY <1>1, <1>4, <2>1, <2>2 DEF StartAP, OrFails, RadioState
    <2>4. y.enabled = v.enabled
      BY <1>2, <2>1, StopStationRadio
    <2>5. x.enabled = (x.mode # "DISABLED")
      BY <1>2, <1>4, <2>3, <2>4
    <2> QED
      BY <2>3, <2>5 DEF OwnNetwork, Settled
  <1>5. CASE m \notin {"DISABLED", "FACTORY"}
    <2>1. PICK y \in withAP : x \in StartStation(y, net)
      BY <1>5 DEF GotoMode
    <2>2. \/ y = v /\ (config => "AP" \in v.radio)
          \/ y \in StartAP(v, "SEARCHING")
      BY <2>1
    <2>3. "SEARCHING" \in WifiModes
      BY DEF WifiModes
    <2>4. m = "NORMAL" => net # NoSsid
      BY <1>5
    <2>5. m = "NOTFOUND" => "AP" \in w.radio
      BY DEF OwnNetwork
    <2> HIDE DEF v, m
    <2>6. /\ y \in RadioState /\ y.enabled = v.enabled
          /\ y.mode \in {m, "SEARCHING"}
          /\ config => "AP" \in y.radio
          /\ y.mode = "NOTFOUND" => "AP" \in y.radio
      <3>1. CASE y = v /\ (config => "AP" \in v.radio)
        BY <1>2, <2>5, <3>1
      <3>2. CASE y \in StartAP(v, "SEARCHING")
        <4>1. /\ y.radio = v.radio \cup {"AP"} /\ y.enabled = v.enabled
              /\ y.mode = "SEARCHING"
          BY <1>2, <2>3, <3>2 DEF StartAP, OrFails, RadioState
        <4>2. y \in RadioState
          BY <1>2, <2>3, <3>2, StartAPState
        <4> QED
          BY <4>1, <4>2
      <3> QED
        BY <2>2, <3>1, <3>2
    <2>7. /\ x.radio = y.radio \cup {"STA"} /\ x.enabled = y.enabled
          /\ net = NoSsid => x.mode = y.mode
          /\ net # NoSsid => x.mode = "SEARCHING"
      <3>1. y \in RadioState /\ x \in StartStation(y, net)
        BY <2>1, <2>6
      <3> QED
        BY <3>1, StartStationRadio
    <2>8. x.mode \in {m, "SEARCHING"} /\ x.mode # "NORMAL"
      BY <2>4, <2>6, <2>7
    <2>9. x.enabled = (x.mode # "DISABLED")
      BY <1>2, <1>5, <2>6, <2>7
    <2> QED
      BY <1>5, <2>6, <2>7, <2>8, <2>9 DEF OwnNetwork, Settled
  <1> QED
    BY <1>3, <1>4, <1>5

\* Following the status of the station keeps it settled.
LEMMA FollowStatusSettles ==
  ASSUME RadioMayFail = FALSE, NEW w \in RadioState, OwnNetwork(w),
         NEW net, NEW config \in BOOLEAN, NEW x \in FollowStatus(w, net, config)
  PROVE  OwnNetwork(x) /\ (Settled(w, config) => Settled(x, config))
  <1> DEFINE joined == [w EXCEPT !.search = Off, !.mode = "NORMAL"]
             failed == [w EXCEPT !.search = After(ApTime), !.mode = "NOTFOUND"]
  <1>1. /\ joined \in RadioState /\ joined.mode = "NORMAL"
        /\ joined.radio = w.radio /\ joined.enabled = w.enabled
        /\ failed \in RadioState /\ failed.enabled = w.enabled
    BY SearchDeadlines DEF RadioState, WifiModes
  <1>2. CASE x = w
    BY <1>2
  <1>3. CASE w.mode = "NORMAL" /\ x = SearchStarted(w)
    <2>1. x.mode = "SEARCHING" /\ x.radio = w.radio /\ x.enabled = w.enabled
      BY <1>3 DEF SearchStarted, RadioState
    <2> QED
      BY <1>3, <2>1 DEF OwnNetwork, Settled
  <1>4. CASE w.mode = "NOTFOUND" /\ x \in StartStation(w, net)
    <2>1. /\ x.radio = w.radio \cup {"STA"} /\ x.enabled = w.enabled
          /\ x.mode \in {"NOTFOUND", "SEARCHING"}
      BY <1>4, StartStationRadio
    <2>2. "AP" \in x.radio
      BY <1>4, <2>1 DEF OwnNetwork
    <2> QED
      BY <1>4, <2>1, <2>2 DEF OwnNetwork, Settled
  <1>5. CASE /\ w.mode = "SEARCHING"
             /\ (config /\ x = joined) \/ (~config /\ x \in StopAP(joined, "NORMAL"))
    <2> HIDE DEF joined
    <2>1. /\ x.mode = "NORMAL" /\ x.enabled = w.enabled
          /\ x.radio = IF config THEN w.radio ELSE w.radio \ {"AP"}
      <3>1. "NORMAL" \in WifiModes
        BY DEF WifiModes
      <3>2. CASE config
        BY <1>1, <1>5, <3>2
      <3>3. CASE ~config
        BY <1>1, <1>5, <3>1, <3>3 DEF StopAP, OrFails, RadioState
      <3> QED
        BY <3>2, <3>3
    <2> QED
      BY <1>5, <2>1 DEF OwnNetwork, Settled
  <1>6. CASE /\ w.mode = "SEARCHING"
             /\ \E y \in StopStation(failed) : x \in StartAP(y, "NOTFOUND")
    <2> HIDE DEF failed
    <2>1. PICK y \in StopStation(failed) : x \in StartAP(y, "NOTFOUND")
      BY <1>6
    <2>2. y \in RadioState /\ y.enabled = w.enabled
      BY <1>1, <2>1, StopStationState, StopStationRadio
    <2>3. /\ x.mode = "NOTFOUND" /\ x.radio = y.radio \cup {"AP"}
          /\ x.enabled = w.enabled
      <3>1. "NOTFOUND" \in WifiModes
        BY DEF WifiModes
      <3> QED
        BY <2>1, <2>2, <3>1 DEF StartAP, OrFails, RadioState
    <2> QED
      BY <1>6, <2>3 DEF OwnNetwork, Settled
  <1>7. \/ x = w
        \/ w.mode = "NORMAL" /\ x = SearchStarted(w)
        \/ w.mode = "NOTFOUND" /\ x \in StartStation(w, net)
        \/ /\ w.mode = "SEARCHING"
           /\ (config /\ x = joined) \/ (~config /\ x \in StopAP(joined, "NORMAL"))
        \/ /\ w.mode = "SEARCHING"
           /\ \E y \in StopStation(failed) : x \in StartAP(y, "NOTFOUND")
    <2>1. CASE w.mode = "SEARCHING" /\ w.link = "connected"
      <3>1. CASE config
        <4>1. FollowStatus(w, net, config) = {joined}
          BY <2>1, <3>1 DEF FollowStatus, RetryDue, GivesUp
        <4>2. x = joined
          BY <4>1
        <4>3. (config /\ x = joined) \/ (~config /\ x \in StopAP(joined, "NORMAL"))
          BY <3>1, <4>2
        <4> QED
          BY <2>1, <4>3
      <3>2. CASE ~config
        <4>1. FollowStatus(w, net, config) = StopAP(joined, "NORMAL")
          BY <2>1, <3>2 DEF FollowStatus, RetryDue, GivesUp
        <4> QED
          BY <2>1, <3>2, <4>1
      <3> QED
        BY <3>1, <3>2
    <2>2. CASE ~(w.mode = "SEARCHING" /\ w.link = "connected")
      BY <2>2 DEF FollowStatus, RetryDue, GivesUp
    <2> QED
      BY <2>1, <2>2
  <1> HIDE DEF joined, failed
  <1> QED
    BY <1>2, <1>3, <1>4, <1>5, <1>6, <1>7

LEMMA RadioInvStep ==
  ASSUME RadioMayFail = FALSE, IInv, RadioTyped, RadioInv, [DeviceNext]_deviceVars
  PROVE  RadioInv'
  <1>1. /\ Radio \in RadioState /\ OwnNetwork(Radio)
        /\ InConfigurationMode \in BOOLEAN
    BY DEF RadioTyped, RadioInv, InConfigurationMode
  <1>2. ASSUME NEW w \in RadioState, RadioBecomes(w)
        PROVE  Radio' = w
    BY <1>2 DEF RadioBecomes, Radio, RadioState
  <1>3. CASE \/ \E cause \in BootCauses : DeviceReset(cause)
             \/ DevicePowerLossWhileSaving \/ DeviceLoop \/ FormatDone
    <2> DEFINE config == (configurationMode' = "CONFIG")
    <2>1. WifiSetup
      BY <1>3 DEF DeviceReset, DevicePowerLossWhileSaving, DeviceLoop, FormatDone,
                  DeviceFactoryResetDone
    <2>2. /\ RadioOff("DISABLED") \in RadioState
          /\ OwnNetwork(RadioOff("DISABLED")) /\ Settled(RadioOff("DISABLED"), config)
          /\ RadioOff("NORMAL") \in RadioState /\ OwnNetwork(RadioOff("NORMAL"))
      BY SearchDeadlines DEF RadioOff, RadioState, WifiModes, OwnNetwork, Settled
    <2>3. config \in BOOLEAN
      OBVIOUS
    <2>4. \A w \in GotoMode(RadioOff("NORMAL"), ssid', config) :
            w \in RadioState /\ OwnNetwork(w) /\ Settled(w, config)
      BY <2>2, <2>3, GotoModeState, GotoModeSettles
    <2>5. PICK w \in RadioState : RadioBecomes(w) /\ OwnNetwork(w) /\ Settled(w, config)
      BY <2>1, <2>2, <2>4 DEF WifiSetup
    <2>6. Radio' = w /\ InConfigurationMode' = config
      BY <1>2, <2>5 DEF InConfigurationMode
    <2> QED
      BY <2>5, <2>6 DEF RadioInv
  <1>4. CASE WifiLoop
    <2>1. PICK w \in IF Passed(wantWifiModeSwitchAt)
                    THEN GotoMode(Radio, ssid, InConfigurationMode) ELSE {Radio} :
            \E v \in FollowStatus(w, ssid, InConfigurationMode) : RadioBecomes(v)
      BY <1>4 DEF WifiLoop
    <2>2. /\ w \in RadioState /\ OwnNetwork(w)
          /\ ~SwitchPending' => Settled(w, InConfigurationMode)
      <3>1. CASE Passed(wantWifiModeSwitchAt)
        BY <1>1, <2>1, <3>1, GotoModeState, GotoModeSettles
      <3>2. CASE ~Passed(wantWifiModeSwitchAt)
        <4>1. w = Radio /\ (~SwitchPending' => ~SwitchPending)
          BY <1>4, <2>1, <3>2 DEF WifiLoop, SwitchPending
        <4> QED
          BY <1>1, <4>1 DEF RadioInv
      <3> QED
        BY <3>1, <3>2
    <2>3. PICK v \in FollowStatus(w, ssid, InConfigurationMode) : RadioBecomes(v)
      BY <2>1
    <2>4. /\ v \in RadioState /\ OwnNetwork(v)
          /\ Settled(w, InConfigurationMode) => Settled(v, InConfigurationMode)
      BY <1>1, <2>2, <2>3, FollowStatusState, FollowStatusSettles
    <2>5. Radio' = v
      BY <1>2, <2>3, <2>4
    <2>6. InConfigurationMode' = InConfigurationMode
      BY <1>4 DEF WifiLoop, modeVars, InConfigurationMode
    <2> QED
      BY <2>2, <2>4, <2>5, <2>6 DEF RadioInv
  <1>5. CASE ConfigUserRequest
    <2>1. UNCHANGED radioVars
      BY <1>5 DEF ConfigUserRequest
    <2>2. \/ UNCHANGED <<wifiMode, configurationMode, wantWifiModeSwitchAt, phase>>
          \/ SwitchPending' /\ wifiMode' \in {wifiMode, "DISABLED", "NORMAL"}
      <3>1. Armed(After(0)) /\ Armed(After(RadioDelay))
        BY ConfigAssumption DEF Armed, After, Off
      <3>2. CASE AllowRequestedConfigurationMode
        BY <3>1, <3>2 DEF AllowRequestedConfigurationMode, SwitchPending
      <3>3. CASE ExtendCurrentMode \/ RequestReboot
        BY <3>3 DEF ExtendCurrentMode, RequestReboot, wifiVars, modeVars
      <3>4. ASSUME NEW req \in Requests, PutConfig(req)
            PROVE  \/ UNCHANGED <<wifiMode, configurationMode, wantWifiModeSwitchAt, phase>>
                   \/ /\ wantWifiModeSwitchAt' = After(RadioDelay)
                      /\ wifiMode' \in {wifiMode, "DISABLED", "NORMAL"}
        <4>1. CASE req.wifiDisabled = None
          <5>1. None # TRUE
            BY ConfigAssumption
          <5> QED
            BY <3>4, <4>1, <5>1 DEF PutConfig
        <4>2. CASE req.wifiDisabled # None
          BY <3>4, <4>2 DEF PutConfig
        <4> QED
          BY <4>1, <4>2
      <3>5. CASE \E form \in Forms : WebConfig(form)
        BY <3>5 DEF WebConfig, wifiVars
      <3> QED
        BY <1>5, <3>1, <3>2, <3>3, <3>4, <3>5 DEF ConfigUserRequest, SwitchPending
    <2> QED
      BY <2>1, <2>2 DEF RadioInv, Radio, radioVars, OwnNetwork, InConfigurationMode,
                        SwitchPending
  <1>6. CASE \/ DeviceConfigModLoop
             \/ \E net \in Ssids \cup {NoSsid} : SaveWifiConfig(net)
    <2>1. UNCHANGED <<wifiMode, radioVars>> /\ wantWifiModeSwitchAt' = After(0)
      BY <1>6 DEF DeviceConfigModLoop, ConfigModLoop, EndConfigurationMode,
                  SaveWifiConfig, WifiConfigSaved
    <2>2. SwitchPending'
      BY <2>1 DEF SwitchPending, Armed, After, Off
    <2> QED
      BY <2>1, <2>2 DEF RadioInv, Radio, radioVars, OwnNetwork
  <1>7. CASE DeviceTick
    <2>1. /\ UNCHANGED <<wifiMode, radio, wifiEnabled, configurationMode, phase>>
          /\ wantWifiModeSwitchAt' = Ticked(wantWifiModeSwitchAt)
      BY <1>7 DEF DeviceTick, Tick
    <2>2. Armed(wantWifiModeSwitchAt) => Armed(wantWifiModeSwitchAt')
      BY <2>1 DEF IInv, TypeOK, Deadline, Armed, Ticked, Off, After
    <2>3. ~SwitchPending' => ~SwitchPending
      BY <2>1, <2>2 DEF SwitchPending
    <2> QED
      BY <2>1, <2>3 DEF RadioInv, Radio, OwnNetwork, Settled, InConfigurationMode
  <1>8. CASE LinkUp \/ LinkLost \/ UNCHANGED deviceVars
    <2>1. UNCHANGED <<wifiMode, radio, wifiEnabled, configurationMode, phase,
                      wantWifiModeSwitchAt>>
      BY <1>8 DEF LinkUp, LinkLost, deviceVars, configVars, modeVars, wifiVars, radioVars
    <2> QED
      BY <2>1 DEF RadioInv, Radio, OwnNetwork, Settled, InConfigurationMode, SwitchPending
  <1> QED
    BY <1>3, <1>4, <1>5, <1>6, <1>7, <1>8 DEF DeviceNext, DeviceUserStep

LEMMA RadioInvariance ==
  ASSUME RadioMayFail = FALSE
  PROVE  DeviceSpec => []RadioInv
  <1>1. DeviceInit => RadioInv
    BY DEF DeviceInit, Init, RadioInv, Radio, OwnNetwork, Settled, InConfigurationMode
  <1>2. IInv /\ RadioTyped /\ RadioInv /\ [DeviceNext]_deviceVars => RadioInv'
    BY RadioInvStep
  <1> QED
    BY <1>1, <1>2, DeviceInvariance, PTL DEF DeviceSpec

\* As long as the radio calls succeed, a device in one of its private modes runs
\* its own network and a disabled radio is off, in whatever order requests wrote
\* the mode and loop() followed it.
THEOREM RadioFollowsMode == RadioMayFail = FALSE => (DeviceSpec => []RadioMatchesMode)
  <1> SUFFICES ASSUME RadioMayFail = FALSE PROVE DeviceSpec => []RadioMatchesMode
    OBVIOUS
  <1>1. RadioInv => RadioMatchesMode
    BY DEF RadioInv, OwnNetwork, Settled, Radio, RadioMatchesMode
  <1> QED
    BY <1>1, RadioInvariance, PTL

\* And its own network is on in configuration mode, and off in normal mode without
\* it.
THEOREM ApFollowsConfigurationMode ==
  RadioMayFail = FALSE => (DeviceSpec => []ApMatchesConfigurationMode)
  <1> SUFFICES ASSUME RadioMayFail = FALSE
               PROVE  DeviceSpec => []ApMatchesConfigurationMode
    OBVIOUS
  <1>1. RadioInv => ApMatchesConfigurationMode
    BY DEF RadioInv, OwnNetwork, Settled, Radio, ApMatchesConfigurationMode
  <1> QED
    BY <1>1, RadioInvariance, PTL
================================================================================
