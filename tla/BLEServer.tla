------------------------------- MODULE BLEServer -------------------------------
(***************************************************************************)
(* Advertising by the BLE server (iotsaBLEServer.cpp): it is started at     *)
(* boot, by a change of the BLE mode or of the settings, when a central     *)
(* disconnects, and after the pauses that scans and light sleep ask for.    *)
(* The stack may refuse a start, when its pool of connections is full;      *)
(* loop() then tries again after ADVERTISING_RETRY_MS.                      *)
(*                                                                          *)
(* Two tasks start advertising and note what came of it: the one that runs  *)
(* loop(), web requests, scans and sleep, and the host task of the stack,   *)
(* which delivers disconnects and requests over BLE.  A start and its note  *)
(* are two steps, and no lock keeps the other task from acting in between;  *)
(* startsOverlap says whether the last start or stop did.  retryAt holds    *)
(* the distance to advertisingRetryAtMillis, which is due when it is        *)
(* reached (>=).                                                            *)
(*                                                                          *)
(* The callbacks' calls that hold off sleep, the name and the services of   *)
(* the server, intervals and power are left out, and so is a server whose   *)
(* isEnabled was set to false.  A reset leads back to an initial state.     *)
(***************************************************************************)
EXTENDS Deadlines

CONSTANTS
  MaxCentrals,    \* centrals that can be connected at the same time
  SwitchDelay,    \* from a request for a BLE mode to the switch
  RetryTime,      \* ADVERTISING_RETRY_MS
  Durations       \* of advertising after light sleep: 0 is without an end

VARIABLES
  bleMode,
  wantBleModeSwitchAt,
  retryAt,            \* advertisingRetryAtMillis
  retryDuration,      \* advertisingRetryDuration
  advertising,        \* "off", "on", "timed" (until its duration ends) or "over"
  poolFull,           \* the stack refuses to start advertising
  centrals,           \* number of centrals that are connected
  scanPaused,         \* paused by a scan
  asleep,             \* loop() is in light sleep, or about to enter or leave it
  started,            \* of a task: what came of a start it has yet to note
  startedFor,         \* of a task: the duration of that start
  startsOverlap       \* the last start or stop came between another's start and note

modeVars == <<bleMode, wantBleModeSwitchAt>>
retryVars == <<retryAt, retryDuration>>
pauseVars == <<scanPaused, asleep>>
noteVars == <<started, startedFor, startsOverlap>>
serverVars == <<modeVars, retryVars, advertising, poolFull, centrals, pauseVars, noteVars>>

ASSUME ServerAssumption ==
  /\ MaxCentrals \in Nat /\ SwitchDelay \in Nat /\ RetryTime \in Nat
  /\ Durations \subseteq Nat /\ 0 \in Durations

Tasks == {"loop", "host"}
BleModes == {"DISABLED", "ENABLED"}

IsAdvertising == advertising \in {"on", "timed"}

\* A task may act: it has noted its last start.
Free(t) == started[t] = "no"

LoopFree == ~asleep /\ Free("loop")

\* A task starts or stops advertising: has another one yet to note what it started?
Overlaps(t) == startsOverlap' = \E u \in Tasks \ {t} : started[u] # "no"

--------------------------------------------------------------------------------

\* pAdvertising->start(duration): what the stack does if it is advertising is left
\* open, except that it does not stop.
Start(t, duration) ==
  /\ startedFor' = [startedFor EXCEPT ![t] = duration]
  /\ Overlaps(t)
  /\ \/ /\ IsAdvertising
        /\ \E result \in {"ok", "failed"} : started' = [started EXCEPT ![t] = result]
        /\ UNCHANGED advertising
     \/ /\ ~IsAdvertising /\ poolFull
        /\ started' = [started EXCEPT ![t] = "failed"]
        /\ UNCHANGED advertising
     \/ /\ ~IsAdvertising /\ ~poolFull
        /\ started' = [started EXCEPT ![t] = "ok"]
        /\ advertising' = IF duration = 0 THEN "on" ELSE "timed"

\* pAdvertising->stop(), by loop().
Stop ==
  /\ advertising' = IF IsAdvertising THEN "off" ELSE advertising
  /\ Overlaps("loop")
  /\ UNCHANGED <<started, startedFor>>

\* _noteAdvertisingStartResult(): in the task that called start().
Note(t) ==
  /\ started[t] # "no"
  /\ started' = [started EXCEPT ![t] = "no"]
  /\ startedFor' = [startedFor EXCEPT ![t] = 0]
  /\ IF started[t] = "ok"
     THEN retryAt' = Off /\ UNCHANGED retryDuration
     ELSE retryAt' = RetryTime /\ retryDuration' = startedFor[t]
  /\ UNCHANGED <<modeVars, advertising, poolFull, centrals, pauseVars, startsOverlap>>

--------------------------------------------------------------------------------
(* The task that runs loop(). *)

\* The BLE mode is switched: _bleGotoMode(), which returns early if there is
\* nothing to start or stop.
LoopSwitchesMode ==
  /\ LoopFree
  /\ Passed(wantBleModeSwitchAt)
  /\ wantBleModeSwitchAt' = Off
  /\ \/ /\ IsAdvertising = (bleMode = "ENABLED")
        /\ UNCHANGED <<retryAt, advertising, noteVars>>
     \/ /\ ~IsAdvertising /\ bleMode = "ENABLED"
        /\ Start("loop", 0)
        /\ UNCHANGED retryAt
     \/ /\ IsAdvertising /\ bleMode = "DISABLED"
        /\ retryAt' = Off
        /\ Stop
  /\ UNCHANGED <<bleMode, retryDuration, poolFull, centrals, pauseVars>>

\* Variant: the result of a retry is not noted.
LoopRetriesOnce ==
  /\ LoopFree
  /\ retryAt = 0
  /\ retryAt' = Off
  /\ advertising' = IF IsAdvertising \/ poolFull THEN advertising ELSE "on"
  /\ UNCHANGED <<modeVars, retryDuration, poolFull, centrals, pauseVars, noteVars>>

\* A start that failed is tried again.
LoopRetries ==
  /\ LoopFree
  /\ retryAt = 0
  /\ retryAt' = Off
  /\ Start("loop", retryDuration)
  /\ UNCHANGED <<modeVars, retryDuration, poolFull, centrals, pauseVars>>

\* pauseServer()
PauseServer ==
  /\ retryAt' = Off
  /\ Stop
  /\ UNCHANGED retryDuration

\* startScanning() of the BLE client.
ScanPauses ==
  /\ LoopFree
  /\ scanPaused' = TRUE
  /\ PauseServer
  /\ UNCHANGED <<modeVars, poolFull, centrals, asleep>>

\* stopScanning() of the BLE client: resumeServer().
ScanResumes ==
  /\ LoopFree
  /\ scanPaused
  /\ scanPaused' = FALSE
  /\ Start("loop", 0)
  /\ UNCHANGED <<modeVars, retryVars, poolFull, centrals, asleep>>

\* The battery module's loop() enters light sleep.
SleepPauses ==
  /\ LoopFree
  /\ asleep' = TRUE
  /\ PauseServer
  /\ UNCHANGED <<modeVars, poolFull, centrals, scanPaused>>

\* And leaves it: resumeServer(wakeDuration).
SleepResumes ==
  /\ asleep /\ Free("loop")
  /\ asleep' = FALSE
  /\ \E duration \in Durations : Start("loop", duration)
  /\ UNCHANGED <<modeVars, retryVars, poolFull, centrals, scanPaused>>

--------------------------------------------------------------------------------
(* Requests, in the loop() task or, by a central, over BLE in the host task. *)

MayAct(t) == IF t = "loop" THEN LoopFree ELSE Free(t) /\ centrals > 0

\* PUT /api/config with bleDisabled.
PutBleMode(t, mode) ==
  /\ MayAct(t)
  /\ bleMode' = mode
  /\ wantBleModeSwitchAt' = After(SwitchDelay)
  /\ UNCHANGED <<retryVars, advertising, poolFull, centrals, pauseVars, noteVars>>

\* PUT /api/bleserver, or its form: configSave() restarts advertising.  It is a stop
\* and a start, of which the second finds that nothing is advertising.
PutSettings(t) ==
  /\ MayAct(t)
  /\ retryAt' = Off
  /\ startedFor' = [startedFor EXCEPT ![t] = 0]
  /\ Overlaps(t)
  /\ IF poolFull
     THEN /\ advertising' = IF IsAdvertising THEN "off" ELSE advertising
          /\ started' = [started EXCEPT ![t] = "failed"]
     ELSE /\ advertising' = "on"
          /\ started' = [started EXCEPT ![t] = "ok"]
  /\ UNCHANGED <<modeVars, retryDuration, poolFull, centrals, pauseVars>>

--------------------------------------------------------------------------------
(* Centrals, and the stack. *)

\* A connection ends advertising.
Connect ==
  /\ Free("host")
  /\ IsAdvertising
  /\ centrals < MaxCentrals
  /\ centrals' = centrals + 1
  /\ advertising' = "off"
  /\ UNCHANGED <<modeVars, retryVars, poolFull, pauseVars, noteVars>>

\* Variant: what startAdvertising() returns is not looked at.
DisconnectUnnoted ==
  /\ Free("host")
  /\ centrals > 0
  /\ centrals' = centrals - 1
  /\ advertising' = IF IsAdvertising \/ poolFull THEN advertising ELSE "on"
  /\ UNCHANGED <<modeVars, retryVars, poolFull, pauseVars, noteVars>>

\* onDisconnect()
Disconnect ==
  /\ Free("host")
  /\ centrals > 0
  /\ centrals' = centrals - 1
  /\ Start("host", 0)
  /\ UNCHANGED <<modeVars, retryVars, poolFull, pauseVars>>

\* Advertising with a duration ends.
AdvertisingEnds ==
  /\ advertising = "timed"
  /\ advertising' = "over"
  /\ UNCHANGED <<modeVars, retryVars, poolFull, centrals, pauseVars, noteVars>>

\* Connections of the BLE client come and go.
PoolChanges ==
  /\ poolFull' = ~poolFull
  /\ UNCHANGED <<modeVars, retryVars, advertising, centrals, pauseVars, noteVars>>

Tick ==
  /\ wantBleModeSwitchAt' = Ticked(wantBleModeSwitchAt)
  /\ retryAt' = Ticked(retryAt)
  /\ UNCHANGED <<bleMode, retryDuration, advertising, poolFull, centrals, pauseVars, noteVars>>

--------------------------------------------------------------------------------

\* After _startServer(), by the setting bleDisabledOnBoot.
Init ==
  /\ bleMode \in BleModes
  /\ wantBleModeSwitchAt = Off
  /\ retryAt = Off /\ retryDuration = 0
  /\ advertising = IF bleMode = "ENABLED" THEN "on" ELSE "off"
  /\ poolFull = FALSE
  /\ centrals = 0
  /\ scanPaused = FALSE /\ asleep = FALSE
  /\ started = [t \in Tasks |-> "no"]
  /\ startedFor = [t \in Tasks |-> 0]
  /\ startsOverlap = FALSE

Next ==
  \/ LoopSwitchesMode \/ LoopRetries
  \/ ScanPauses \/ ScanResumes \/ SleepPauses \/ SleepResumes
  \/ \E t \in Tasks :
       \/ Note(t)
       \/ PutSettings(t)
       \/ \E mode \in BleModes : PutBleMode(t, mode)
  \/ Connect \/ Disconnect
  \/ AdvertisingEnds \/ PoolChanges \/ Tick

Spec == Init /\ [][Next]_serverVars

\* loop() runs on, a call of start() is followed by its note, time passes.
Fairness ==
  /\ WF_serverVars(LoopSwitchesMode)
  /\ WF_serverVars(LoopRetries)
  /\ \A t \in Tasks : WF_serverVars(Note(t))
  /\ WF_serverVars(Tick)

FairSpec == Spec /\ Fairness

--------------------------------------------------------------------------------
(* Correctness. *)

TypeOK ==
  /\ bleMode \in BleModes
  /\ wantBleModeSwitchAt \in Deadline(SwitchDelay)
  /\ retryAt \in Off .. RetryTime
  /\ retryDuration \in Durations
  /\ advertising \in {"off", "on", "timed", "over"}
  /\ poolFull \in BOOLEAN
  /\ centrals \in 0 .. MaxCentrals
  /\ scanPaused \in BOOLEAN /\ asleep \in BOOLEAN
  /\ started \in [Tasks -> {"no", "ok", "failed"}]
  /\ startedFor \in [Tasks -> Durations]
  /\ startsOverlap \in BOOLEAN

\* Something is under way, or holds advertising off, in an enabled server.
Excused ==
  \/ bleMode = "DISABLED" \/ Armed(wantBleModeSwitchAt)
  \/ scanPaused \/ asleep
  \/ centrals > 0
  \/ \E t \in Tasks : started[t] # "no"

NotStranded == IsAdvertising \/ advertising = "over" \/ Armed(retryAt)

\* Whatever sequence of pauses, mode switches, settings, connections and refused
\* starts came before, an enabled server that nothing holds back advertises, has
\* advertised for as long as it was told to, or is going to try again - unless the
\* last to start or stop it did so while another task had yet to note its start.
StrandedOnlyByOverlap == (~Excused /\ ~startsOverlap) => NotStranded

\* The server is not left "permanently non-advertising with no log output and no
\* retry", whichever tasks note their starts: "Safe to call from any task"
\* (iotsaBLEServer.h:89-92).
NeverStranded == ~Excused => NotStranded

\* Once the pool of connections is not full any more, nobody asks for another BLE
\* mode, nothing holds it back, and the last start was not overtaken by the note of
\* another, an enabled server advertises in the end.
AdvertisesInTheEnd ==
  (/\ <>[](/\ bleMode = "ENABLED" /\ ~poolFull /\ centrals = 0
           /\ ~scanPaused /\ ~asleep /\ ~startsOverlap)
   /\ <>[][~\E t \in Tasks, mode \in BleModes : PutBleMode(t, mode)]_serverVars)
    => <>[](IsAdvertising \/ advertising = "over")
================================================================================
