------------------------------ MODULE SleepProofs ------------------------------
(***************************************************************************)
(* Proofs about Sleep, for any settings, delays and numbers of centrals;    *)
(* for the watchdog, with the ESP32 core that does not detach it.           *)
(***************************************************************************)
EXTENDS Sleep, TLAPS

--------------------------------------------------------------------------------
(* Types. *)

LEMMA TickedInRange ==
  ASSUME NEW max \in Int, NEW d \in Off .. max
  PROVE  Ticked(d) \in Off .. max
BY DEF Ticked, Off

\* configLoad() replaces a sleep mode it does not know.
LEMMA LoadedSettingsType ==
  ASSUME NEW s \in SettingsType
  PROVE  [s EXCEPT !.sleepMode = IF @ = "unknown" THEN "NONE" ELSE @] \in SettingsType
BY DEF SettingsType, SleepModes

LEMMA BootType ==
  ASSUME TypeOK, NEW wokenUp \in BOOLEAN, Boot(wokenUp)
  PROVE  TypeOK'
<1> USE SleepAssumption
<1>1. settings' \in SettingsType
  BY LoadedSettingsType DEF Boot, TypeOK
<1>2. /\ awake' \in Unset .. LongAwake
      /\ postponeSleepTime' \in Int
      /\ centrals' \in 0 .. MaxCentrals /\ scansEnded' \in 0 .. MaxScans
      /\ pauseSleepCount' \in Int /\ loopRead' \in Int
      /\ doSoftReboot' \in Commands
      /\ rebootAt' \in Deadline(RebootDelay)
      /\ wantWifiSwitchAt' \in Deadline(SwitchDelay)
  BY DEF Boot, Unset, Off, Commands, Deadline, After
<1>3. /\ step' \in {"begin", "clear", "decide", "others", "count", "going", "asleep"}
      /\ didWakeFromSleep' \in BOOLEAN /\ configMode' \in BOOLEAN /\ collided' \in BOOLEAN
      /\ wifiMode' \in {"DISABLED", "ENABLED"}
      /\ wifiEnabled' \in BOOLEAN /\ haveDisabledWiFi' \in BOOLEAN /\ wifiWanted' \in BOOLEAN
      /\ watchdog' \in {"none", "armed", "disarmed", "detached"}
      /\ deferred' \in BOOLEAN
  BY DEF Boot
<1>4. CountIsRight'
  BY DEF Boot, CountIsRight, One
<1> QED BY <1>1, <1>2, <1>3, <1>4 DEF TypeOK

LEMMA InitType ==
  ASSUME Init
  PROVE  TypeOK
<1> USE SleepAssumption
<1>1. settings \in SettingsType
  BY LoadedSettingsType DEF Init
<1>2. /\ awake \in Unset .. LongAwake
      /\ postponeSleepTime \in Int
      /\ centrals \in 0 .. MaxCentrals /\ scansEnded \in 0 .. MaxScans
      /\ pauseSleepCount \in Int /\ loopRead \in Int
      /\ doSoftReboot \in Commands
      /\ rebootAt \in Deadline(RebootDelay)
      /\ wantWifiSwitchAt \in Deadline(SwitchDelay)
  BY DEF Init, Unset, Off, Commands, Deadline, After
<1>3. /\ step \in {"begin", "clear", "decide", "others", "count", "going", "asleep"}
      /\ didWakeFromSleep \in BOOLEAN /\ configMode \in BOOLEAN /\ collided \in BOOLEAN
      /\ wifiMode \in {"DISABLED", "ENABLED"}
      /\ wifiEnabled \in BOOLEAN /\ haveDisabledWiFi \in BOOLEAN /\ wifiWanted \in BOOLEAN
      /\ watchdog \in {"none", "armed", "disarmed", "detached"}
      /\ deferred \in BOOLEAN
  BY DEF Init
<1>4. CountIsRight
  BY DEF Init, CountIsRight, One
<1> QED BY <1>1, <1>2, <1>3, <1>4 DEF TypeOK

\* postponeSleep() keeps a time of any length.
LEMMA PostponeSleepType ==
  ASSUME TypeOK, NEW ms \in Nat, PostponeSleep(ms)
  PROVE  postponeSleepTime' \in Int /\ postponeSleepTime' >= postponeSleepTime
BY DEF PostponeSleep, TypeOK, SettingsType, After

\* A step that does not touch the counter, and does not enter or leave the step "count".
LEMMA CountStaysRight ==
  ASSUME CountIsRight, UNCHANGED countVars, (step = "count") <=> (step' = "count")
  PROVE  CountIsRight'
BY DEF CountIsRight, One, countVars

\* The steps of the battery module.
LEMMA BatteryLoopType ==
  ASSUME TypeOK, StaysAwake \/ SwitchesWifiOff \/ DecidesToSleep \/ FallsAsleep \/ WakesUp
  PROVE  TypeOK'
<1> USE SleepAssumption DEF TypeOK, commandVars, wifiVars, watchdogVars, holdVars, countVars
<1>1. CASE StaysAwake
  <2>1. postponeSleepTime' \in Int
    BY <1>1 DEF StaysAwake, PostponementForgotten, Off
  <2> QED BY <1>1, <2>1, CountStaysRight DEF StaysAwake
<1>2. CASE SwitchesWifiOff
  <2>1. postponeSleepTime' \in Int
    BY <1>2 DEF SwitchesWifiOff, After, SettingsType
  <2>2. wantWifiSwitchAt' \in Deadline(SwitchDelay)
    BY <1>2 DEF SwitchesWifiOff, After, Deadline, Off
  <2>3. watchdog' \in {"none", "armed", "disarmed", "detached"}
    BY <1>2 DEF SwitchesWifiOff, WatchdogStopped
  <2>4. deferred' \in BOOLEAN /\ haveDisabledWiFi' \in BOOLEAN /\ wifiMode' \in {"DISABLED", "ENABLED"}
    BY <1>2 DEF SwitchesWifiOff
  <2> QED BY <1>2, <2>1, <2>2, <2>3, <2>4, CountStaysRight DEF SwitchesWifiOff
<1>3. CASE DecidesToSleep
  <2>1. postponeSleepTime' \in Int
    BY <1>3 DEF DecidesToSleep, PostponementForgotten, Off
  <2>2. watchdog' \in {"none", "armed", "disarmed", "detached"}
    BY <1>3 DEF DecidesToSleep, WatchdogStopped
  <2> QED BY <1>3, <2>1, <2>2, CountStaysRight DEF DecidesToSleep
<1>4. CASE FallsAsleep
  BY <1>4, CountStaysRight DEF FallsAsleep
<1>5. CASE WakesUp
  <2>1. awake' \in Unset .. LongAwake
    BY <1>5 DEF WakesUp, Unset
  <2>2. /\ didWakeFromSleep' \in BOOLEAN /\ deferred' \in BOOLEAN
        /\ watchdog' \in {"none", "armed", "disarmed", "detached"}
    BY <1>5 DEF WakesUp
  <2> QED BY <1>5, <2>1, <2>2, CountStaysRight DEF WakesUp
<1> QED BY <1>1, <1>2, <1>3, <1>4, <1>5

LEMMA BeginType ==
  ASSUME TypeOK, Begin \/ Clear
  PROVE  TypeOK'
<1> USE SleepAssumption DEF TypeOK, commandVars, wifiVars, watchdogVars, holdVars, countVars
<1>1. CASE Clear
  BY <1>1, CountStaysRight DEF Clear, Commands
<1>2. CASE Begin
  <2>1. awake' \in Unset .. LongAwake
    BY <1>2 DEF Begin, WakeNoted, Unset
  <2>2. rebootAt' \in Deadline(RebootDelay) /\ wantWifiSwitchAt' \in Deadline(SwitchDelay)
    BY <1>2 DEF Begin, Deadline, After, Off
  <2>3. /\ configMode' \in BOOLEAN /\ wifiMode' \in {"DISABLED", "ENABLED"}
        /\ wifiEnabled' \in BOOLEAN /\ haveDisabledWiFi' \in BOOLEAN /\ wifiWanted' \in BOOLEAN
    BY <1>2 DEF Begin
  <2>4. step' \in {"decide", "clear"}
    BY <1>2 DEF Begin
  <2> QED BY <1>2, <2>1, <2>2, <2>3, <2>4, CountStaysRight DEF Begin
<1> QED BY <1>1, <1>2

\* The other modules, requests, the host task and time.
LEMMA OthersType ==
  ASSUME TypeOK,
         \/ OthersLoop \/ WakesFromDeepSleep \/ Request \/ ConfigModeChanges
         \/ ScanEnds \/ LoopCounts
  PROVE  TypeOK'
<1> USE SleepAssumption
<1>1. CASE OthersLoop
  <2>1. CASE Boot(FALSE)
    BY <2>1, BootType
  <2>2. CASE ~Boot(FALSE)
    <3>1. wantWifiSwitchAt' \in Deadline(SwitchDelay)
      <4>1. wantWifiSwitchAt' \in {Off, wantWifiSwitchAt}
        BY <1>1, <2>2 DEF OthersLoop
      <4> QED BY <4>1 DEF TypeOK, Deadline, After, Off
    <3>2. wifiEnabled' \in BOOLEAN
      BY <1>1, <2>2 DEF OthersLoop, TypeOK
    <3> QED BY <1>1, <2>2, <3>1, <3>2, CountStaysRight
            DEF OthersLoop, TypeOK, holdVars, countVars, commandVars, watchdogVars
  <2> QED BY <2>1, <2>2
<1>2. CASE WakesFromDeepSleep
  BY <1>2, BootType DEF WakesFromDeepSleep
<1>3. ASSUME NEW s \in Settings, PutSettings(s)
      PROVE  TypeOK'
  <2>1. postponeSleepTime' \in Int
    BY <1>3, PostponeSleepType DEF PutSettings, TypeOK
  <2>2. settings' \in SettingsType /\ awake' \in Unset .. LongAwake
    BY <1>3 DEF PutSettings, SettingsSaved, Unset
  <2> QED BY <1>3, <2>1, <2>2, CountStaysRight DEF PutSettings, TypeOK, countVars, commandVars, wifiVars, watchdogVars
<1>4. ASSUME NEW s \in Settings, SettingsForm(s)
      PROVE  TypeOK'
  <2>1. settings' \in SettingsType /\ awake' \in Unset .. LongAwake
    BY <1>4 DEF SettingsForm, SettingsSaved, Unset
  <2> QED BY <1>4, <2>1, CountStaysRight DEF SettingsForm, TypeOK, countVars, holdVars, commandVars, wifiVars, watchdogVars
<1>5. ASSUME NEW mode \in {"DISABLED", "ENABLED"}, PutWifiMode(mode)
      PROVE  TypeOK'
  <2>1. postponeSleepTime' \in Int
    BY <1>5, PostponeSleepType DEF PutWifiMode
  <2>2. wantWifiSwitchAt' \in Deadline(SwitchDelay)
    BY <1>5 DEF PutWifiMode, Deadline, After, Off
  <2>3. wifiWanted' \in BOOLEAN /\ wifiMode' \in {"DISABLED", "ENABLED"}
    BY <1>5 DEF PutWifiMode
  <2> QED BY <1>5, <2>1, <2>2, <2>3, CountStaysRight DEF PutWifiMode, TypeOK, countVars, wakeVars, commandVars, watchdogVars
<1>6. CASE ExtendCurrentMode
  <2>1. awake' \in Unset .. LongAwake
    BY <1>6 DEF ExtendCurrentMode, Unset
  <2> QED BY <1>6, <2>1, CountStaysRight DEF ExtendCurrentMode, TypeOK, countVars, holdVars, commandVars, wifiVars, watchdogVars
<1>7. CASE AnyRequest
  <2>1. postponeSleepTime' \in Int
    BY <1>7, PostponeSleepType DEF AnyRequest
  <2> QED BY <1>7, <2>1, CountStaysRight DEF AnyRequest, TypeOK, countVars, wakeVars, commandVars, wifiVars, watchdogVars
<1>8. CASE ConfigModeChanges
  <2>1. wantWifiSwitchAt' \in Deadline(SwitchDelay)
    BY <1>8 DEF ConfigModeChanges, Deadline, After, Off
  <2>2. wifiWanted' \in BOOLEAN /\ configMode' \in BOOLEAN
    BY <1>8 DEF ConfigModeChanges
  <2> QED BY <1>8, <2>1, <2>2, CountStaysRight DEF ConfigModeChanges, TypeOK, countVars, holdVars, wakeVars, watchdogVars
<1>9. CASE ScanEnds
  <2>1. CountIsRight'
    BY <1>9 DEF ScanEnds, TypeOK, CountIsRight, One
  <2> QED BY <1>9, <2>1 DEF ScanEnds, TypeOK, commandVars, wifiVars, watchdogVars
<1>10. CASE LoopCounts
  <2>1. CountIsRight'
    BY <1>10 DEF LoopCounts, TypeOK, CountIsRight, One
  <2> QED BY <1>10, <2>1 DEF LoopCounts, TypeOK, commandVars, wifiVars, watchdogVars
<1> QED BY <1>1, <1>2, <1>3, <1>4, <1>5, <1>6, <1>7, <1>8, <1>9, <1>10 DEF Request

LEMMA HostType ==
  ASSUME TypeOK,
         \/ Connect \/ Disconnect \/ (\E by \in {1, -1} : HostCountsLast(by))
         \/ (\E c \in Commands : WriteCommand(c)) \/ Tick
  PROVE  TypeOK'
<1> USE SleepAssumption DEF TypeOK, wakeVars, commandVars, wifiVars, watchdogVars
<1>1. ASSUME NEW by \in {1, -1}, HostCounts(by), centrals + by \in 0 .. MaxCentrals
      PROVE  TypeOK'
  <2>1. CountIsRight'
    <3>1. ~collided' => ~collided /\ step # "count"
      BY <1>1 DEF HostCounts
    <3>2. /\ step' = step /\ scansEnded' = scansEnded
          /\ pauseSleepCount' = pauseSleepCount + by /\ centrals' = centrals + by
      BY <1>1 DEF HostCounts
    <3> QED BY <3>1, <3>2 DEF CountIsRight, One
  <2> QED BY <1>1, <2>1 DEF HostCounts
<1>2. ASSUME NEW by \in {1, -1}, HostCountsLast(by)
      PROVE  TypeOK'
  <2>1. CountIsRight'
    BY <1>2 DEF HostCountsLast, CountIsRight
  <2> QED BY <1>2, <2>1 DEF HostCountsLast
<1>3. ASSUME NEW c \in Commands, WriteCommand(c)
      PROVE  TypeOK'
  <2>1. postponeSleepTime' \in Int
    BY <1>3, PostponeSleepType DEF WriteCommand
  <2> QED BY <1>3, <2>1, CountStaysRight DEF WriteCommand, countVars
<1>4. CASE Tick
  <2>1. awake' \in Unset .. LongAwake
    BY <1>4 DEF Tick, Unset
  <2>2. postponeSleepTime' \in Int
    BY <1>4 DEF Tick, Ticked
  <2>3. rebootAt' \in Deadline(RebootDelay) /\ wantWifiSwitchAt' \in Deadline(SwitchDelay)
    BY <1>4, TickedInRange DEF Tick, Deadline, After
  <2> QED BY <1>4, <2>1, <2>2, <2>3, CountStaysRight DEF Tick, countVars
<1>5. CASE Connect
  BY <1>1, <1>5 DEF Connect
<1>6. CASE Disconnect
  BY <1>1, <1>6 DEF Disconnect
<1> QED BY <1>2, <1>3, <1>4, <1>5, <1>6

LEMMA NextType ==
  ASSUME TypeOK, [Next]_sleepVars
  PROVE  TypeOK'
<1>1. CASE UNCHANGED sleepVars
  BY <1>1, CountStaysRight
     DEF sleepVars, wakeVars, holdVars, countVars, commandVars, wifiVars, watchdogVars, TypeOK
<1> QED BY <1>1, BeginType, BatteryLoopType, OthersType, HostType DEF Next, Loop

--------------------------------------------------------------------------------
(* The watchdog. *)

\* With the older core it is never detached, and "armed" is what it comes back to.
WatchdogInv == ~DetachesWatchdog => WatchdogGuards /\ watchdog # "detached"

LEMMA NextWatchdog ==
  ASSUME TypeOK, WatchdogInv, [Next]_sleepVars
  PROVE  WatchdogInv'
<1> SUFFICES ASSUME ~DetachesWatchdog
             PROVE  (WatchdogGuards /\ watchdog # "detached")'
  BY DEF WatchdogInv
<1> USE DEF WatchdogInv, WatchdogGuards
<1>1. CASE WakesUp
  BY <1>1 DEF WakesUp, TypeOK
<1>2. CASE SwitchesWifiOff \/ DecidesToSleep
  BY <1>2 DEF SwitchesWifiOff, DecidesToSleep, WatchdogStopped
<1>3. ASSUME NEW wokenUp \in BOOLEAN, Boot(wokenUp)
      PROVE  (WatchdogGuards /\ watchdog # "detached")'
  BY <1>3 DEF Boot
<1>4. ASSUME UNCHANGED watchdogVars,
             step' = "asleep" \/ step \in {"begin", "clear", "decide", "others", "count"} \/ step' = step
      PROVE  (WatchdogGuards /\ watchdog # "detached")'
  BY <1>4 DEF watchdogVars
<1>5. CASE Begin \/ Clear \/ StaysAwake \/ FallsAsleep
  BY <1>4, <1>5 DEF Begin, Clear, StaysAwake, FallsAsleep
<1>6. CASE OthersLoop \/ WakesFromDeepSleep
  BY <1>3, <1>4, <1>6 DEF OthersLoop, WakesFromDeepSleep, watchdogVars
<1>7. CASE Request
  BY <1>4, <1>7 DEF Request, PutSettings, SettingsForm, PutWifiMode, ExtendCurrentMode, AnyRequest
<1>8. CASE ConfigModeChanges \/ ScanEnds \/ LoopCounts \/ Connect \/ Disconnect \/ Tick
           \/ (\E by \in {1, -1} : HostCountsLast(by))
           \/ (\E c \in Commands : WriteCommand(c)) \/ UNCHANGED sleepVars
  BY <1>4, <1>8 DEF ConfigModeChanges, ScanEnds, LoopCounts, Connect, Disconnect, HostCounts,
                    HostCountsLast, Tick, WriteCommand, sleepVars, wakeVars
<1> QED BY <1>1, <1>2, <1>5, <1>6, <1>7, <1>8 DEF Next, Loop

--------------------------------------------------------------------------------
(* WiFi before sleep. *)

\* WiFi is to be switched off for a sleep, and nobody asked for another switch.
SwitchingOff == haveDisabledWiFi /\ ~wifiWanted

\* Sleep is postponed for at least as long as the switch is put off, so that the switch
\* is made in the pass of loop() before the one that may decide to sleep.
WifiInv ==
  /\ SwitchingOff => wifiMode = "DISABLED"
  /\ SwitchingOff /\ wifiEnabled =>
       /\ wantWifiSwitchAt >= 0 /\ postponeSleepTime >= wantWifiSwitchAt
       /\ step \notin {"others", "count"} => wantWifiSwitchAt > 0
       /\ step \notin {"going", "asleep"}
  /\ WifiOffBeforeSleep

LEMMA BatteryLoopWifi ==
  ASSUME TypeOK, WifiInv,
         Begin \/ Clear \/ StaysAwake \/ SwitchesWifiOff \/ DecidesToSleep \/ FallsAsleep \/ WakesUp
  PROVE  WifiInv'
<1> USE SleepAssumption DEF WifiInv, SwitchingOff, WifiOffBeforeSleep
<1>1. CASE Begin
  <2>1. SwitchingOff' => UNCHANGED wifiVars
    BY <1>1 DEF Begin
  <2>2. UNCHANGED holdVars /\ step' \in {"clear", "decide"} /\ step = "begin"
    BY <1>1 DEF Begin
  <2> QED BY <2>1, <2>2 DEF wifiVars, holdVars
<1>2. CASE Clear \/ FallsAsleep \/ WakesUp
  BY <1>2 DEF Clear, FallsAsleep, WakesUp, wifiVars, holdVars
<1>3. CASE StaysAwake
  BY <1>3 DEF StaysAwake, PostponementForgotten, Passed, wifiVars, TypeOK, Deadline, Off
<1>4. CASE SwitchesWifiOff
  BY <1>4 DEF SwitchesWifiOff, After, TypeOK, SettingsType
<1>5. CASE DecidesToSleep
  <2>1. postponeSleepTime \in {Off, 0}
    BY <1>5 DEF DecidesToSleep, ShouldSleep, CanSleep
  <2>2. ~(SwitchingOff /\ wifiEnabled)
    BY <1>5, <2>1 DEF DecidesToSleep, Off, TypeOK, Deadline
  <2> QED BY <1>5, <2>2 DEF DecidesToSleep, WifiFirst, wifiVars, TypeOK
<1> QED BY <1>1, <1>2, <1>3, <1>4, <1>5

LEMMA NextWifi ==
  ASSUME TypeOK, WifiInv, [Next]_sleepVars
  PROVE  WifiInv'
<1> USE SleepAssumption DEF WifiInv, SwitchingOff, WifiOffBeforeSleep
<1>1. ASSUME NEW wokenUp \in BOOLEAN, Boot(wokenUp)
      PROVE  WifiInv'
  BY <1>1 DEF Boot
<1>2. CASE OthersLoop
  <2>1. CASE Boot(FALSE)
    BY <1>1, <2>1
  <2>2. CASE ~Boot(FALSE)
    <3>1. /\ UNCHANGED <<wifiMode, haveDisabledWiFi, wifiWanted, postponeSleepTime>>
          /\ step' = "begin"
      BY <1>2, <2>2 DEF OthersLoop, holdVars
    <3>2. CASE wifiEnabled' = (wifiMode = "ENABLED")
      BY <3>1, <3>2
    <3>3. CASE wantWifiSwitchAt # 0 /\ UNCHANGED <<wantWifiSwitchAt, wifiEnabled>>
      BY <3>1, <3>3 DEF TypeOK, Deadline
    <3> QED BY <1>2, <2>2, <3>2, <3>3 DEF OthersLoop, Passed
  <2> QED BY <2>1, <2>2
<1>3. CASE WakesFromDeepSleep
  BY <1>1, <1>3 DEF WakesFromDeepSleep
<1>4. ASSUME UNCHANGED wifiVars, postponeSleepTime' \in Int,
             postponeSleepTime' >= postponeSleepTime,
             step' = step \/ {step, step'} = {"others", "count"},
             step = "others" \/ settings' = settings
      PROVE  WifiInv'
  BY <1>4 DEF wifiVars, TypeOK, Deadline
<1>5. CASE Request
  <2>1. ASSUME NEW s \in Settings, PutSettings(s) \/ SettingsForm(s)
        PROVE  WifiInv'
    BY <1>4, <2>1, PostponeSleepType DEF PutSettings, SettingsForm, holdVars, TypeOK
  <2>2. CASE ExtendCurrentMode \/ AnyRequest
    BY <1>4, <2>2, PostponeSleepType DEF ExtendCurrentMode, AnyRequest, wakeVars, holdVars, TypeOK
  <2>3. ASSUME NEW mode \in {"DISABLED", "ENABLED"}, PutWifiMode(mode)
        PROVE  WifiInv'
    BY <2>3 DEF PutWifiMode, wakeVars
  <2> QED BY <1>5, <2>1, <2>2, <2>3, CountStaysRight DEF Request
<1>6. CASE ConfigModeChanges
  BY <1>6 DEF ConfigModeChanges, wakeVars
<1>7. CASE ScanEnds \/ LoopCounts \/ Connect \/ Disconnect
           \/ (\E by \in {1, -1} : HostCountsLast(by))
  BY <1>4, <1>7 DEF ScanEnds, LoopCounts, Connect, Disconnect, HostCounts, HostCountsLast,
                    wakeVars, TypeOK
<1>8. ASSUME NEW c \in Commands, WriteCommand(c)
      PROVE  WifiInv'
  BY <1>4, <1>8, PostponeSleepType DEF WriteCommand, wakeVars
<1>9. CASE Tick
  BY <1>9 DEF Tick, Ticked, TypeOK, Deadline
<1>10. CASE UNCHANGED sleepVars
  BY <1>10 DEF sleepVars, wakeVars, holdVars, wifiVars
<1> QED BY <1>2, <1>3, <1>5, <1>6, <1>7, <1>8, <1>9, <1>10, BatteryLoopWifi DEF Next, Loop

--------------------------------------------------------------------------------
(* The theorems. *)

Inv == TypeOK /\ WatchdogInv /\ WifiInv

LEMMA Invariance == Spec => []Inv
<1>1. Init => Inv
  <2> SUFFICES ASSUME Init PROVE Inv
    OBVIOUS
  <2>1. WatchdogInv
    BY DEF Init, WatchdogInv, WatchdogGuards
  <2>2. WifiInv
    BY DEF Init, WifiInv, SwitchingOff, WifiOffBeforeSleep
  <2> QED BY <2>1, <2>2, InitType DEF Inv
<1>2. Inv /\ [Next]_sleepVars => Inv'
  BY NextType, NextWatchdog, NextWifi DEF Inv
<1> QED BY <1>1, <1>2, PTL DEF Spec

\* Every variable of the module keeps its type; in particular the counter of pauses is
\* the number of centrals less the ends of scans, for any number of either, until one
\* task writes it over a write of the other.
THEOREM SleepTypeCorrect == Spec => []TypeOK
BY Invariance, PTL DEF Inv

\* Sleep waits for WiFi to be switched off, for any delays of which the one is not
\* longer than the other.
THEOREM WifiIsOffBeforeSleep == Spec => []WifiOffBeforeSleep
<1>1. Inv => WifiOffBeforeSleep
  BY DEF Inv, WifiInv
<1> QED BY <1>1, Invariance, PTL

\* The watchdog is armed again on every way back from sleep, with a core that does not
\* detach it.
THEOREM WatchdogAlwaysGuards == ~DetachesWatchdog => (Spec => []WatchdogGuards)
<1> SUFFICES ASSUME ~DetachesWatchdog
             PROVE  Spec => []WatchdogGuards
  OBVIOUS
<1>1. Inv => WatchdogGuards
  BY DEF Inv, WatchdogInv
<1> QED BY <1>1, Invariance, PTL

\* No decision to sleep is made in configuration mode, or with more centrals connected
\* than scans have ended since the boot, for any number of either, as long as no step of
\* the counter was lost.
THEOREM SleepWaitsForCentrals == Spec => SleepsOnlyAfterScans
<1>1. TypeOK /\ [Next]_sleepVars =>
        [(DecidesToSleep /\ ~collided) => (~configMode /\ centrals <= scansEnded)]_sleepVars
  BY SleepAssumption DEF DecidesToSleep, ShouldSleep, CanSleep, TypeOK, CountIsRight, One
<1> QED BY <1>1, SleepTypeCorrect, PTL DEF Spec, SleepsOnlyAfterScans
================================================================================
