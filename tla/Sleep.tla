--------------------------------- MODULE Sleep ---------------------------------
(***************************************************************************)
(* The battery module (iotsaBattery.cpp): it decides when the device        *)
(* sleeps, switches WiFi off before it, guards loop() with a watchdog       *)
(* timer, and carries out commands that are written over BLE.  What holds   *)
(* off sleep is kept by iotsaConfig: a counter of reasons not to sleep, and *)
(* a time before which the device may not sleep.                            *)
(*                                                                          *)
(* The task that runs loop() goes through the steps of step; the host task  *)
(* of the BLE stack delivers connections and commands between them.  Both   *)
(* step the counter without a lock: ++ and -- are a read and a write, and   *)
(* what the other task wrote in between is lost.  The other modules' loop() *)
(* is the step "others", in which time passes and requests arrive: a pass   *)
(* through all modules is taken to be shorter than the second that a WiFi   *)
(* switch is put off.                                                       *)
(*                                                                          *)
(* Advertising is in BLEServer, the WiFi radio in IotsaWifi (here it does   *)
(* as it is told).  Left out: voltage levels and the pin that disables sleep,*)
(* requests that name a time to postpone sleep by, CPU frequencies, the power*)
(* domains of hibernation and the wake-up sources.                          *)
(***************************************************************************)
EXTENDS Deadlines

CONSTANTS
  Settings,         \* the settings that are tried, records of SettingsType
  MaxCentrals,      \* centrals that can be connected at the same time
  SwitchDelay,      \* from deciding about WiFi to the switch: 1000 ms
  PostponeTime,     \* by which sleep is postponed for that: 2000 ms
  RebootDelay,      \* before a reboot asked for over BLE: 1000 ms
  LongAwake,        \* beyond what the settings ask for, awake is not told apart
  MaxScans,         \* scans by a BLE client module in the device: a bound
  DetachesWatchdog  \* ESP_ARDUINO_VERSION_MAJOR > 2

VARIABLES
  step,             \* where loop() is; "asleep" is inside the sleep function
  settings,         \* the module's settings, in memory and in battery.cfg
  awake,            \* millis() - millisAtWakeup, up to a bound; Unset if that is 0
  didWakeFromSleep,
  postponeSleepTime,  \* postponeSleepMillis
  pauseSleepCount,
  centrals,         \* centrals that are connected
  scansEnded,       \* ends of scans, since the boot
  loopRead,         \* of the counter by loop(), with the step "count" to write it
  collided,         \* since the boot one task wrote the counter over a write of the other
  doSoftReboot,
  rebootAt,
  configMode,       \* iotsaConfig.inConfigurationMode()
  wifiMode,         \* "DISABLED" or "ENABLED", for any other mode
  wantWifiSwitchAt,
  wifiEnabled,
  haveDisabledWiFi,
  wifiWanted,       \* since boot the WiFi mode or the configuration mode was changed
  watchdog,         \* "none", "armed", "disarmed" or "detached"
  deferred          \* sleep was put off for WiFi, after the watchdog was stopped

wakeVars == <<step, awake, didWakeFromSleep>>
countVars == <<pauseSleepCount, centrals, scansEnded, loopRead, collided>>
holdVars == <<postponeSleepTime, countVars>>
commandVars == <<doSoftReboot, rebootAt, configMode>>
wifiVars == <<wifiMode, wantWifiSwitchAt, wifiEnabled, haveDisabledWiFi, wifiWanted>>
watchdogVars == <<watchdog, deferred>>
sleepVars ==
  <<wakeVars, settings, holdVars, commandVars, wifiVars, watchdogVars>>

Unset == -1
SleepModes == {"NONE", "DELAY", "LIGHT", "DEEP", "HIBERNATE", "unknown"}
Commands == 0 .. 3

SettingsType ==
  [sleepMode : SleepModes, wakeDuration : Nat, bootExtraWakeDuration : Nat,
   activityExtraWakeDuration : Nat, watchdogDuration : Nat,
   disableSleepOnWiFi : BOOLEAN, disableWiFiOnSleep : BOOLEAN]

ASSUME SleepAssumption ==
  /\ Settings # {} /\ LongAwake \in Nat
  /\ \A s \in Settings :
       s \in SettingsType /\ s.wakeDuration + s.bootExtraWakeDuration < LongAwake
  /\ MaxCentrals \in Nat
  /\ SwitchDelay \in Nat /\ PostponeTime \in Nat /\ SwitchDelay <= PostponeTime
  /\ RebootDelay \in Nat /\ MaxScans \in Nat
  /\ DetachesWatchdog \in BOOLEAN

--------------------------------------------------------------------------------
(* iotsaConfig's part. *)

\* postponeSleep(ms)
PostponeSleep(ms) ==
  LET noSleepBefore == After(ms + settings.activityExtraWakeDuration)
  IN  postponeSleepTime' =
        IF noSleepBefore > postponeSleepTime THEN noSleepBefore ELSE postponeSleepTime

\* Variant: the counter of pauses is not looked at.
CanSleepPaused == postponeSleepTime \in {Off, 0}

\* canSleep(), which also forgets a time that has passed.
CanSleep ==
  /\ pauseSleepCount <= 0
  /\ postponeSleepTime \in {Off, 0}

PostponementForgotten ==
  postponeSleepTime' = IF pauseSleepCount <= 0 /\ Passed(postponeSleepTime)
                       THEN Off ELSE postponeSleepTime

WakeDuration ==
  settings.wakeDuration
    + (IF didWakeFromSleep THEN 0 ELSE settings.bootExtraWakeDuration)

--------------------------------------------------------------------------------
(* loop() of the battery module. *)

\* Variant: the time of the wake-up is noted in every pass.
WakeNotedAgain == awake' = 0

WakeNoted == awake' = IF awake = Unset THEN 0 ELSE awake

\* The watchdog is fed, the time of the wake-up is noted, a command is acted on.
Begin ==
  /\ step = "begin"
  /\ WakeNoted
  /\ step' = IF doSoftReboot = 0 THEN "decide" ELSE "clear"
  /\ \/ /\ doSoftReboot \in {0, 2}
        /\ UNCHANGED <<rebootAt, configMode, wifiVars>>
     \/ /\ doSoftReboot = 2   \* a mode was requested, and BLE may allow it
        /\ configMode' \in BOOLEAN /\ wantWifiSwitchAt' = After(0)
        /\ wifiWanted' = TRUE
        /\ UNCHANGED <<rebootAt, wifiMode, wifiEnabled, haveDisabledWiFi>>
     \/ /\ doSoftReboot = 3
        /\ wifiMode' = "ENABLED"
        /\ wantWifiSwitchAt' = After(SwitchDelay)
        /\ wifiWanted' = TRUE
        /\ UNCHANGED <<rebootAt, configMode, wifiEnabled, haveDisabledWiFi>>
     \/ /\ doSoftReboot = 1
        /\ rebootAt' = After(RebootDelay)
        /\ UNCHANGED <<configMode, wifiVars>>
  /\ UNCHANGED <<didWakeFromSleep, settings, holdVars, doSoftReboot, watchdogVars>>

\* The command is cleared, whatever has been written since it was acted on.
Clear ==
  /\ step = "clear"
  /\ step' = "decide"
  /\ doSoftReboot' = 0
  /\ UNCHANGED <<awake, didWakeFromSleep, settings, holdVars, rebootAt, configMode,
                 wifiVars, watchdogVars>>

\* The device has been awake for long enough, and WiFi does not forbid sleep.
WakePeriodOver ==
  /\ settings.sleepMode # "NONE"
  /\ WakeDuration > 0 /\ awake > WakeDuration
  /\ ~(settings.disableSleepOnWiFi /\ wifiMode # "DISABLED")

\* Then the configuration mode and the other modules are asked.
ShouldSleep == WakePeriodOver /\ ~configMode /\ CanSleep

StaysAwake ==
  /\ step = "decide"
  /\ ~ShouldSleep
  /\ step' = "others"
  /\ IF WakePeriodOver THEN PostponementForgotten ELSE UNCHANGED postponeSleepTime
  /\ UNCHANGED <<awake, didWakeFromSleep, settings, countVars,
                 commandVars, wifiVars, watchdogVars>>

\* The watchdog is stopped before it is known whether the device will sleep.
WatchdogStopped ==
  watchdog' = IF watchdog = "none" THEN "none"
              ELSE IF DetachesWatchdog THEN "detached" ELSE "disarmed"

WifiFirst == settings.disableWiFiOnSleep /\ wifiEnabled /\ ~haveDisabledWiFi

\* Variant: sleep is not postponed until WiFi is off.
SwitchesWifiOffAtOnce ==
  /\ step = "decide"
  /\ ShouldSleep /\ WifiFirst
  /\ step' = "others"
  /\ WatchdogStopped
  /\ deferred' = TRUE
  /\ haveDisabledWiFi' = TRUE
  /\ wifiMode' = "DISABLED"
  /\ wantWifiSwitchAt' = After(SwitchDelay)
  /\ UNCHANGED <<awake, didWakeFromSleep, settings, holdVars, commandVars, wifiEnabled,
                 wifiWanted>>

\* Once since the boot, WiFi is switched off first.
SwitchesWifiOff ==
  /\ step = "decide"
  /\ ShouldSleep /\ WifiFirst
  /\ step' = "others"
  /\ WatchdogStopped
  /\ deferred' = TRUE
  /\ haveDisabledWiFi' = TRUE
  /\ wifiMode' = "DISABLED"
  /\ wantWifiSwitchAt' = After(SwitchDelay)
  /\ postponeSleepTime' = After(PostponeTime + settings.activityExtraWakeDuration)
  /\ UNCHANGED <<awake, didWakeFromSleep, settings, countVars,
                 commandVars, wifiEnabled, wifiWanted>>

DecidesToSleep ==
  /\ step = "decide"
  /\ ShouldSleep /\ ~WifiFirst
  /\ step' = "going"
  /\ WatchdogStopped
  /\ PostponementForgotten
  /\ UNCHANGED <<awake, didWakeFromSleep, settings, countVars,
                 commandVars, wifiVars, deferred>>

\* esp_light_sleep_start(), esp_deep_sleep_start() or delay(): from here on no task
\* runs, except during delay().
FallsAsleep ==
  /\ step = "going"
  /\ step' = "asleep"
  /\ UNCHANGED <<awake, didWakeFromSleep, settings, holdVars, commandVars, wifiVars,
                 watchdogVars>>

\* Variant: the watchdog is only started again after a delay.
WakesUpUnguarded ==
  /\ step = "asleep"
  /\ settings.sleepMode \in {"DELAY", "LIGHT"}
  /\ step' = "others"
  /\ awake' = IF settings.sleepMode = "DELAY" THEN Unset ELSE 0
  /\ didWakeFromSleep' = TRUE
  /\ watchdog' = IF watchdog = "disarmed" /\ settings.sleepMode = "DELAY"
                 THEN "armed" ELSE watchdog
  /\ deferred' = FALSE
  /\ UNCHANGED <<settings, holdVars, commandVars, wifiVars>>

\* The device wakes up, in loop(), from a delay or from light sleep.
WakesUp ==
  /\ step = "asleep"
  /\ settings.sleepMode \in {"DELAY", "LIGHT"}
  /\ step' = "others"
  /\ awake' = IF settings.sleepMode = "DELAY" THEN Unset ELSE 0
  /\ didWakeFromSleep' = TRUE
  /\ watchdog' = IF watchdog = "disarmed" THEN "armed" ELSE watchdog
  /\ deferred' = FALSE
  /\ UNCHANGED <<settings, holdVars, commandVars, wifiVars>>

--------------------------------------------------------------------------------
(* Boot. *)

\* setup(), with configLoad(), after a power-on, a reboot or a deep sleep.
Boot(wokenUp) ==
  /\ step' = "begin"
  /\ settings' = [settings EXCEPT !.sleepMode = IF @ = "unknown" THEN "NONE" ELSE @]
  /\ awake' = Unset
  /\ didWakeFromSleep' = wokenUp
  /\ postponeSleepTime' = Off /\ pauseSleepCount' = 0 /\ centrals' = 0
  /\ scansEnded' = 0 /\ loopRead' = 0 /\ collided' = FALSE
  /\ doSoftReboot' = 0 /\ rebootAt' = Off
  /\ configMode' \in BOOLEAN
  /\ wifiMode' \in {"DISABLED", "ENABLED"}
  /\ wantWifiSwitchAt' = Off /\ wifiEnabled' = (wifiMode' = "ENABLED")
  /\ haveDisabledWiFi' = FALSE /\ wifiWanted' = FALSE
  /\ watchdog' = IF settings.watchdogDuration = 0 THEN "none" ELSE "armed"
  /\ deferred' = FALSE

WakesFromDeepSleep ==
  /\ step = "asleep"
  /\ settings.sleepMode \notin {"DELAY", "LIGHT"}
  /\ Boot(TRUE)

--------------------------------------------------------------------------------
(* The other modules, in the same task: step "others". *)

\* loop() of iotsaConfig and of the WiFi module, and the next pass.
OthersLoop ==
  /\ step = "others"
  /\ \/ Passed(rebootAt) /\ Boot(FALSE)
     \/ /\ ~Passed(rebootAt)
        /\ step' = "begin"
        /\ IF Passed(wantWifiSwitchAt)
           THEN wantWifiSwitchAt' = Off /\ wifiEnabled' = (wifiMode = "ENABLED")
           ELSE UNCHANGED <<wantWifiSwitchAt, wifiEnabled>>
        /\ UNCHANGED <<awake, didWakeFromSleep, settings, holdVars, commandVars,
                       wifiMode, haveDisabledWiFi, wifiWanted, watchdogVars>>

\* configSave(): the wake period starts again.
SettingsSaved(s) == settings' = s /\ awake' = Unset

\* PUT /api/battery; a request over HTTP postpones sleep.
PutSettings(s) ==
  /\ step = "others"
  /\ SettingsSaved(s)
  /\ UNCHANGED postponeSleepTime \/ PostponeSleep(0)
  /\ UNCHANGED <<step, didWakeFromSleep, countVars, commandVars,
                 wifiVars, watchdogVars>>

\* The form extends the current mode, and then saves.
SettingsForm(s) ==
  /\ step = "others"
  /\ SettingsSaved(s)
  /\ UNCHANGED <<step, didWakeFromSleep, holdVars, commandVars, wifiVars, watchdogVars>>

\* iotsaConfig.extendCurrentMode(), for any other request that changes something.
ExtendCurrentMode ==
  /\ step = "others"
  /\ awake' = 0
  /\ UNCHANGED <<step, didWakeFromSleep, settings, holdVars, commandVars, wifiVars,
                 watchdogVars>>

\* A request to any other module.
AnyRequest ==
  /\ step = "others"
  /\ PostponeSleep(0)
  /\ UNCHANGED <<wakeVars, settings, countVars, commandVars,
                 wifiVars, watchdogVars>>

\* PUT /api/config with a WiFi mode.
PutWifiMode(mode) ==
  /\ step = "others"
  /\ wifiMode' = mode
  /\ wantWifiSwitchAt' = After(SwitchDelay)
  /\ wifiWanted' = TRUE
  /\ PostponeSleep(0)
  /\ UNCHANGED <<wakeVars, settings, countVars, commandVars,
                 wifiEnabled, haveDisabledWiFi, watchdogVars>>

\* The configuration mode is allowed, or ends.
ConfigModeChanges ==
  /\ step = "others"
  /\ configMode' = ~configMode
  /\ wantWifiSwitchAt' = After(0)
  /\ wifiWanted' = TRUE
  /\ UNCHANGED <<wakeVars, settings, holdVars, doSoftReboot, rebootAt, wifiMode,
                 wifiEnabled, haveDisabledWiFi, watchdogVars>>

\* loop() of the BLE client finds that a scan has ended: it resumes sleep, which no
\* scan has paused.  pauseSleepCount-- reads the counter,
ScanEnds ==
  /\ step = "others"
  /\ scansEnded < MaxScans
  /\ step' = "count"
  /\ scansEnded' = scansEnded + 1
  /\ loopRead' = pauseSleepCount
  /\ UNCHANGED <<awake, didWakeFromSleep, settings, postponeSleepTime, pauseSleepCount,
                 centrals, collided, commandVars, wifiVars,
                 watchdogVars>>

\* and writes it.
LoopCounts ==
  /\ step = "count"
  /\ step' = "others"
  /\ pauseSleepCount' = loopRead - 1 /\ loopRead' = 0
  /\ UNCHANGED <<awake, didWakeFromSleep, settings, postponeSleepTime, centrals, scansEnded,
                 collided, commandVars, wifiVars, watchdogVars>>

--------------------------------------------------------------------------------
(* The host task of the BLE stack, and the world. *)

HostRuns == step # "asleep" \/ settings.sleepMode = "DELAY"

\* Variant: a connection does not hold off sleep.
HostCountsEnds(by) ==
  /\ HostRuns
  /\ pauseSleepCount' = IF by = 1 THEN pauseSleepCount ELSE pauseSleepCount - 1
  /\ centrals' = centrals + by
  /\ collided' = (collided \/ step = "count")
  /\ UNCHANGED <<wakeVars, settings, postponeSleepTime, scansEnded, loopRead, commandVars,
                 wifiVars, watchdogVars>>

\* onConnect() and onDisconnect(): pauseSleepCount++ or --.  In the step "count" loop()
\* has read the counter, and will write over it.
HostCounts(by) ==
  /\ HostRuns
  /\ pauseSleepCount' = pauseSleepCount + by
  /\ centrals' = centrals + by
  /\ collided' = (collided \/ step = "count")
  /\ UNCHANGED <<wakeVars, settings, postponeSleepTime, scansEnded, loopRead, commandVars,
                 wifiVars, watchdogVars>>

Connect == centrals < MaxCentrals /\ HostCounts(1)

Disconnect == centrals > 0 /\ HostCounts(-1)

\* The other way round: the host task has read the counter before loop() writes it, and
\* writes over that.
HostCountsLast(by) ==
  /\ step = "count"
  /\ centrals + by \in 0 .. MaxCentrals
  /\ step' = "others" /\ loopRead' = 0
  /\ pauseSleepCount' = pauseSleepCount + by
  /\ centrals' = centrals + by
  /\ collided' = TRUE
  /\ UNCHANGED <<awake, didWakeFromSleep, settings, postponeSleepTime, scansEnded,
                 commandVars, wifiVars, watchdogVars>>

\* onWrite() of the characteristic doSoftReboot.
WriteCommand(c) ==
  /\ HostRuns /\ centrals > 0
  /\ PostponeSleep(0)
  /\ doSoftReboot' = c
  /\ UNCHANGED <<wakeVars, settings, countVars, rebootAt,
                 configMode, wifiVars, watchdogVars>>

Tick ==
  /\ step \in {"others", "asleep"}
  /\ awake' = IF awake \in 0 .. LongAwake - 1 THEN awake + 1 ELSE awake
  /\ postponeSleepTime' = Ticked(postponeSleepTime)
  /\ wantWifiSwitchAt' = Ticked(wantWifiSwitchAt)
  /\ rebootAt' = Ticked(rebootAt)
  /\ UNCHANGED <<step, didWakeFromSleep, settings, countVars,
                 doSoftReboot, configMode, wifiMode, wifiEnabled, haveDisabledWiFi,
                 wifiWanted, watchdogVars>>

--------------------------------------------------------------------------------

Init ==
  /\ step = "begin"
  /\ settings \in {[s EXCEPT !.sleepMode = IF @ = "unknown" THEN "NONE" ELSE @] : s \in Settings}
  /\ awake = Unset
  /\ didWakeFromSleep = FALSE
  /\ postponeSleepTime = Off /\ pauseSleepCount = 0 /\ centrals = 0
  /\ scansEnded = 0 /\ loopRead = 0 /\ collided = FALSE
  /\ doSoftReboot = 0 /\ rebootAt = Off
  /\ configMode \in BOOLEAN
  /\ wifiMode \in {"DISABLED", "ENABLED"}
  /\ wantWifiSwitchAt = Off /\ wifiEnabled = (wifiMode = "ENABLED")
  /\ haveDisabledWiFi = FALSE /\ wifiWanted = FALSE
  /\ watchdog = IF settings.watchdogDuration = 0 THEN "none" ELSE "armed"
  /\ deferred = FALSE

Loop ==
  \/ Begin \/ Clear
  \/ StaysAwake \/ SwitchesWifiOff \/ DecidesToSleep
  \/ FallsAsleep \/ WakesUp \/ WakesFromDeepSleep
  \/ OthersLoop \/ LoopCounts

Request ==
  \/ \E s \in Settings : PutSettings(s) \/ SettingsForm(s)
  \/ \E mode \in {"DISABLED", "ENABLED"} : PutWifiMode(mode)
  \/ ExtendCurrentMode \/ AnyRequest

Next ==
  \/ Loop \/ Request
  \/ ConfigModeChanges \/ ScanEnds
  \/ Connect \/ Disconnect \/ \E by \in {1, -1} : HostCountsLast(by)
  \/ \E c \in Commands : WriteCommand(c)
  \/ Tick

Spec == Init /\ [][Next]_sleepVars

\* loop() runs on; time passes while it does.
Fairness == WF_sleepVars(Loop) /\ SF_sleepVars(Tick)

FairSpec == Spec /\ Fairness

--------------------------------------------------------------------------------
(* Correctness. *)

One(condition) == IF condition THEN 1 ELSE 0

\* The counter of reasons not to sleep is the number of connected centrals less the
\* ends of scans, and loop() writes what it is less by one, as long as no step of it was
\* lost.
CountIsRight ==
  ~collided =>
    /\ pauseSleepCount = centrals - scansEnded + One(step = "count")
    /\ step = "count" => loopRead = pauseSleepCount

TypeOK ==
  /\ step \in {"begin", "clear", "decide", "others", "count", "going", "asleep"}
  /\ settings \in SettingsType
  /\ awake \in Unset .. LongAwake
  /\ didWakeFromSleep \in BOOLEAN
  /\ postponeSleepTime \in Int
  /\ centrals \in 0 .. MaxCentrals /\ scansEnded \in 0 .. MaxScans
  /\ pauseSleepCount \in Int /\ loopRead \in Int /\ collided \in BOOLEAN
  /\ CountIsRight
  /\ doSoftReboot \in Commands
  /\ rebootAt \in Deadline(RebootDelay)
  /\ configMode \in BOOLEAN
  /\ wifiMode \in {"DISABLED", "ENABLED"}
  /\ wantWifiSwitchAt \in Deadline(SwitchDelay)
  /\ wifiEnabled \in BOOLEAN /\ haveDisabledWiFi \in BOOLEAN /\ wifiWanted \in BOOLEAN
  /\ watchdog \in {"none", "armed", "disarmed", "detached"}
  /\ deferred \in BOOLEAN

\* The device decides to sleep neither in configuration mode nor with more centrals
\* connected than scans have ended since the boot, as long as no step of the counter was
\* lost: each central that is connected holds it awake, and each end of a scan gives up
\* one of them.
SleepsOnlyAfterScans ==
  [][(DecidesToSleep /\ ~collided) => (~configMode /\ centrals <= scansEnded)]_sleepVars

\* "A final reason is if some other module is asking for an extension of the waking
\* period" (iotsaBattery.cpp:480): as onConnect() does, so that the device does not
\* decide to sleep while a central is connected.
AwakeWhileConnected == [][(DecidesToSleep /\ ~collided) => centrals = 0]_sleepVars

\* With disableWiFiOnSleep, WiFi is off when the device goes to sleep, because sleep
\* waits for the switch - unless something else asked for a switch since the boot.
WifiOffBeforeSleep ==
  (step = "going" /\ settings.disableWiFiOnSleep /\ ~wifiWanted) => ~wifiEnabled

\* "the watchdog timer, for rebooting on hangs" (iotsaBattery.cpp:16): whenever
\* loop() runs, a watchdog that was set up at boot is armed again, however often the
\* device has slept - but for the time after WiFi was switched off for a sleep.
WatchdogGuards ==
  (step \in {"begin", "clear", "decide", "others", "count"} /\ ~deferred)
    => watchdog \in {"none", "armed"}

\* Nothing keeps the device awake.
Quiet ==
  /\ settings.sleepMode # "NONE" /\ WakeDuration > 0
  /\ ~(settings.disableSleepOnWiFi /\ wifiMode # "DISABLED")
  /\ ~configMode /\ centrals = 0

\* When nothing keeps it awake any more, and no more requests come, the device
\* sleeps, and does so again: no postponement and no forgotten pause is left - but for
\* one that was left when a step of the counter was lost.
SleepsInTheEnd ==
  (<>[](Quiet /\ ~collided) /\ <>[][~Request]_sleepVars) => []<>(step = "asleep")
================================================================================
