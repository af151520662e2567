------------------------------- MODULE IotsaWifi -------------------------------
(***************************************************************************)
(* The WiFi module (iotsaWifi.cpp) together with the configuration object   *)
(* it shares wifiMode, wantWifiModeSwitchAtMillis and the configuration     *)
(* mode with.  loop() of the module carries out requested mode switches and *)
(* follows the station's status; handlers change the network to join.       *)
(*                                                                          *)
(* The radio calls change several things one after another and may fail on  *)
(* the way, so each is an operator from the state of the radio (a record w) *)
(* to the set of states it may leave behind, and a handler composes them.   *)
(***************************************************************************)
EXTENDS IotsaConfig

CONSTANTS
  Ssids, NoSsid,   \* names of networks, and the empty name
  SearchTime,      \* IOTSA_WIFI_TIMEOUT: how long to search for the network
  ApTime,          \* how long to run the private network before a new search
  RadioMayFail     \* whether WiFi.mode(), softAP() and begin() may fail

VARIABLES
  ssid,            \* the network in wifi.cfg, which every handler saves to
  radio,           \* WiFi.getMode(): which of "AP" and "STA" are on
  link,            \* WiFi.status(): "connected", "down" or "idle"
  searchTimeoutAt,
  wifiEnabled

radioVars == <<radio, link, searchTimeoutAt, wifiEnabled>>
deviceVars == <<configVars, ssid, radioVars>>

ASSUME WifiAssumption ==
  /\ NoSsid \notin Ssids
  /\ SearchTime \in Nat
  /\ ApTime \in Nat
  /\ RadioMayFail \in BOOLEAN

--------------------------------------------------------------------------------
(* The radio. *)

RadioState == [mode : WifiModes, radio : SUBSET {"AP", "STA"},
               link : {"connected", "down", "idle"},
               search : {Off} \cup (0 .. After(SearchTime)) \cup (0 .. After(ApTime)),
               enabled : BOOLEAN]

\* A call that may fail half way and then leaves w behind.
OrFails(w) == IF RadioMayFail THEN {w} ELSE {}

\* Variant: the search has no deadline.
SearchStartedUntimed(w) == [w EXCEPT !.mode = "SEARCHING", !.search = Off]

SearchStarted(w) == [w EXCEPT !.mode = "SEARCHING", !.search = After(SearchTime)]

\* _wifiStartStation(): begin() refuses an empty network name, and may fail for
\* other reasons; the status may still be the old one when it returns.
StartStation(w, net) ==
  LET on == [w EXCEPT !.radio = @ \cup {"STA"}]
      begun == {[on EXCEPT !.link = l] : l \in {"down", w.link}}
  IN OrFails(w)
     \cup (IF RadioMayFail \/ net = NoSsid THEN begun ELSE {})
     \cup (IF net = NoSsid THEN {}
           ELSE {SearchStarted(b) : b \in begun})

\* Variant: the station is disconnected but not switched off.
StationDisconnected(w) == {[w EXCEPT !.link = "idle"]}

StopStation(w) ==
  {[w EXCEPT !.radio = @ \ {"STA"}, !.link = "idle"]} \cup OrFails(w)

StartAP(w, m) ==
  LET on == [w EXCEPT !.radio = @ \cup {"AP"}]
  IN {[on EXCEPT !.mode = m]} \cup OrFails(w) \cup OrFails(on)

StopAP(w, m) ==
  {[w EXCEPT !.radio = @ \ {"AP"}, !.mode = m]} \cup OrFails(w)

\* _wifiGotoMode(): make the radio do what wifiMode and the configuration mode
\* ask for.  A device that should be in normal mode but knows no network goes to
\* factory mode.
GotoMode(w, net, config) ==
  LET m == IF w.mode = "NORMAL" /\ net = NoSsid THEN "FACTORY" ELSE w.mode
      v == [w EXCEPT !.mode = m, !.enabled = (m # "DISABLED")]
      withAP == IF config /\ "AP" \notin v.radio THEN StartAP(v, "SEARCHING") ELSE {v}
  IN CASE m = "DISABLED" -> UNION {StopAP(x, "DISABLED") : x \in StopStation(v)}
       [] m = "FACTORY" -> UNION {StartAP(x, "FACTORY") : x \in StopStation(v)}
       [] OTHER -> UNION {StartStation(x, net) : x \in withAP}

\* The search for the network has lasted long enough.
GivesUp(w) == w.mode = "SEARCHING" /\ w.link # "connected" /\ Passed(w.search)

\* Variant: only a station that reports a lost connection tries again.
RetryDueIfDown(w) == w.mode = "NOTFOUND" /\ Passed(w.search) /\ w.link = "down"

\* The private network has been up long enough to try the station again.
RetryDue(w) == w.mode = "NOTFOUND" /\ Passed(w.search)

\* The second half of loop(): what the status of the station means in this mode.
FollowStatus(w, net, config) ==
  LET joined == [w EXCEPT !.search = Off, !.mode = "NORMAL"]
      failed == [w EXCEPT !.search = After(ApTime), !.mode = "NOTFOUND"]
  IN CASE w.mode = "NORMAL" /\ w.link # "connected" ->
            {SearchStarted(w)}
       [] RetryDue(w) -> StartStation(w, net)
       [] w.mode = "SEARCHING" /\ w.link = "connected" ->
            IF config THEN {joined} ELSE StopAP(joined, "NORMAL")
       [] GivesUp(w) -> UNION {StartAP(x, "NOTFOUND") : x \in StopStation(failed)}
       [] OTHER -> {w}

--------------------------------------------------------------------------------
(* Setup and loop. *)

Radio == [mode |-> wifiMode, radio |-> radio, link |-> link,
          search |-> searchTimeoutAt, enabled |-> wifiEnabled]

RadioBecomes(w) ==
  /\ wifiMode' = w.mode
  /\ radio' = w.radio
  /\ link' = w.link
  /\ searchTimeoutAt' = w.search
  /\ wifiEnabled' = w.enabled

RadioOff(mode) == [mode |-> mode, radio |-> {}, link |-> "idle", search |-> Off,
                   enabled |-> FALSE]

\* Variant: the setting wifiDisabledOnBoot is not looked at.
WifiSetupAlways ==
  \E w \in GotoMode(RadioOff("NORMAL"), ssid', configurationMode' = "CONFIG") :
    RadioBecomes(w)

\* setup(), after that of the config module, unless that one never returned.
WifiSetup ==
  \E w \in IF phase' = "factoryReset" \/ settings'.wifiDisabledOnBoot
           THEN {RadioOff("DISABLED")}
           ELSE GotoMode(RadioOff("NORMAL"), ssid', configurationMode' = "CONFIG") :
    RadioBecomes(w)

WifiLoop ==
  /\ phase = "running"
  /\ wantWifiModeSwitchAt' = IF Passed(wantWifiModeSwitchAt) THEN Off
                             ELSE wantWifiModeSwitchAt
  /\ \E w \in IF Passed(wantWifiModeSwitchAt)
              THEN GotoMode(Radio, ssid, InConfigurationMode) ELSE {Radio} :
       /\ \E v \in FollowStatus(w, ssid, InConfigurationMode) : RadioBecomes(v)
       /\ rebootAt' = IF GivesUp(w) /\ w.link = "idle" THEN After(RebootDelay)
                      ELSE rebootAt
  /\ UNCHANGED <<phase, bootCause, modeVars, settings, flash, ssid>>

\* The form on /wificonfig, or PUT /api/wificonfig.
SaveWifiConfig(net) ==
  /\ WifiConfigSaved
  /\ ssid' = net
  /\ UNCHANGED radioVars

\* The actions of IotsaConfig, with the WiFi module's own setup and variables.
DeviceReset(cause) == Boot(flash, cause) /\ ssid' = ssid /\ WifiSetup
DevicePowerLossWhileSaving ==
  /\ phase = "running"
  /\ \/ Boot(EmptyFile, "power") /\ ssid' = ssid     \* config.cfg is lost
     \/ Boot(flash, "power") /\ ssid' = NoSsid       \* wifi.cfg is lost
  /\ WifiSetup
DeviceFactoryResetDone(cause) ==
  /\ phase = "factoryReset"
  /\ Boot(EmptyFile, cause) /\ ssid' = NoSsid /\ WifiSetup
DeviceLoop ==
  /\ phase = "running" /\ Passed(rebootAt)
  /\ Boot(flash, "softwareReboot") /\ ssid' = ssid /\ WifiSetup

DeviceTick ==
  /\ Tick
  /\ searchTimeoutAt' = Ticked(searchTimeoutAt)
  /\ UNCHANGED <<ssid, radio, link, wifiEnabled>>

--------------------------------------------------------------------------------
(* The network around the device. *)

LinkUp ==
  /\ "STA" \in radio /\ ssid # NoSsid
  /\ link # "connected"
  /\ link' = "connected"
  /\ UNCHANGED <<configVars, ssid, radio, searchTimeoutAt, wifiEnabled>>

LinkLost ==
  /\ "STA" \in radio
  /\ link' \in {"down", "idle"} \ {link}
  /\ UNCHANGED <<configVars, ssid, radio, searchTimeoutAt, wifiEnabled>>

--------------------------------------------------------------------------------

\* Switched on for the first time: no file, so no network, so factory mode.
DeviceInit ==
  /\ Init
  /\ ssid = NoSsid
  /\ radio = {"AP"} /\ link = "idle"
  /\ searchTimeoutAt = Off
  /\ wifiEnabled = TRUE

\* Steps of the configuration object that leave the radio alone.
ConfigUserRequest ==
  /\ \/ AllowRequestedConfigurationMode
     \/ ExtendCurrentMode
     \/ RequestReboot
     \/ \E req \in Requests : PutConfig(req)
     \/ \E form \in Forms : WebConfig(form)
  /\ UNCHANGED <<ssid, radioVars>>

DeviceUserStep ==
  \/ \E cause \in BootCauses : DeviceReset(cause)
  \/ DevicePowerLossWhileSaving
  \/ ConfigUserRequest
  \/ \E net \in Ssids \cup {NoSsid} : SaveWifiConfig(net)

DeviceConfigModLoop == ConfigModLoop /\ UNCHANGED <<ssid, radioVars>>
FormatDone == \E cause \in BootCauses : DeviceFactoryResetDone(cause)

DeviceNext ==
  \/ DeviceUserStep
  \/ DeviceLoop
  \/ DeviceConfigModLoop
  \/ WifiLoop
  \/ FormatDone
  \/ DeviceTick
  \/ LinkUp
  \/ LinkLost

DeviceSpec == DeviceInit /\ [][DeviceNext]_deviceVars

\* loop() runs on and time passes.  Of the network it is assumed that it answers
\* some search, if the device keeps searching.
DeviceFairness ==
  /\ WF_deviceVars(DeviceLoop)
  /\ WF_deviceVars(DeviceConfigModLoop)
  /\ WF_deviceVars(WifiLoop)
  /\ WF_deviceVars(FormatDone)
  /\ WF_deviceVars(DeviceTick)
  /\ SF_deviceVars(LinkUp)

FairDeviceSpec == DeviceSpec /\ DeviceFairness

--------------------------------------------------------------------------------
(* Correctness.  A switch that was asked for is still to be carried out. *)

SwitchPending == phase = "factoryReset" \/ Armed(wantWifiModeSwitchAt)

WifiTypeOK ==
  /\ TypeOK
  /\ ssid \in Ssids \cup {NoSsid}
  /\ Radio \in RadioState

\* In both private modes the device can be reached on its own network, and a
\* disabled radio is really off, once requested switches have been made
\* (README.md:490).  The mode is also written by requests that do not touch the
\* radio, so this is about every order of requests and loop() calls.
RadioMatchesMode ==
  ~SwitchPending =>
    /\ wifiMode \in {"FACTORY", "NOTFOUND"} => "AP" \in radio
    /\ wifiMode = "DISABLED" => radio = {}
    /\ wifiEnabled = (wifiMode # "DISABLED")

\* "AP enabled while in configuration mode" (CHANGELOG.md:102), and not longer:
\* connected to its network and out of configuration mode, the device runs no
\* private network of its own.
ApMatchesConfigurationMode ==
  ~SwitchPending =>
    /\ InConfigurationMode /\ wifiMode # "DISABLED" => "AP" \in radio
    /\ wifiMode = "NORMAL" /\ link = "connected" /\ ~InConfigurationMode =>
         "AP" \notin radio

\* The device never searches, or waits on its private network, without a deadline
\* that ends it: loop() ignores a deadline of 0.
SearchIsTimed ==
  wifiMode \in {"SEARCHING", "NOTFOUND"} => Armed(searchTimeoutAt)

\* A network that was configured and that answers is joined in the end, whatever
\* failed before and however often the connection was lost, and nothing but the
\* station is left on; except that a device that is still in factory mode stays
\* there until it is reset.
JoinsNetwork ==
  (<>[][~DeviceUserStep /\ ~LinkLost]_deviceVars) =>
    <>[]( \/ wifiMode \in {"DISABLED", "FACTORY"}
          \/ ssid = NoSsid
          \/ wifiMode = "NORMAL" /\ link = "connected" /\ radio = {"STA"} )

\* The device does what IotsaConfig says of it, its steps included that IotsaConfig
\* only sees as steps of some WiFi module: all that is checked or proved of
\* IotsaConfig holds here.
ImplementsConfig == Spec
================================================================================
