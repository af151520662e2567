-------------------------------- MODULE BLEScan --------------------------------
(***************************************************************************)
(* The scan scheduler of the BLE client (iotsaBLEClient.cpp) and the        *)
(* connection attempts it has to keep apart from scans                      *)
(* (iotsaBLEClientConnection.cpp).  Three kinds of tasks share this state   *)
(* without a lock:                                                          *)
(*   - loop() of the module, which starts and stops scans;                  *)
(*   - the host task of the BLE stack, which delivers advertisements and    *)
(*     the end of a scan;                                                   *)
(*   - one task of the application per device, which asks canConnect() and  *)
(*     then calls connect().                                                *)
(* loop() is cut into steps where another task can see or change what it    *)
(* has done so far; the short handlers of the others are single actions.    *)
(*                                                                          *)
(* scanAt holds the distance to shouldUpdateScanAtMillis, which is due when *)
(* it is reached (>=), unlike the deadlines of IotsaConfig.  The calls that  *)
(* hold off sleep (resumeSleep, postponeSleep) are left out: nothing here   *)
(* depends on them.  A device name that is added again while a task still   *)
(* holds the forgotten connection shares its state with it here, and the    *)
(* crash of a loop() that finds scanner cleared under its hands by a change *)
(* of the settings is not modelled.  clearDevice(), which no code calls any  *)
(* more, is not modelled either: it would make a device unaddressed without *)
(* asking for a scan update.                                                *)
(***************************************************************************)
EXTENDS Deadlines, FiniteSets

CONSTANTS
  Devices,               \* names that addDevice() may be called with
  Cooldown,              \* scanCooldownDiscoveryMillis
  RetryTime,             \* SCAN_START_RETRY_MS
  SettleTime,            \* connectSettleTimeMillis
  UnknownTime,           \* scanUnknownDurationMillis
  CoordinateWithServer,  \* whether scans pause the server's advertising
  ScannerReconfigured    \* whether scan settings are put during a scan

VARIABLES
  scanner,           \* scanner != NULL
  scanAt,            \* shouldUpdateScanAtMillis
  settleLeft,        \* of connectSettleTimeMillis, since scanStoppedAtMillis
  scanHasEnded,
  scanStopRequested,
  connectingCount,
  scanForUnknownClients,
  scanUnknownUntil,
  status,            \* of a device: "absent", "unaddressed" or "addressed"
  needsRescan,
  advertisingPaused, \* advertisingWasPausedByScan
  loopAt, wantStop,  \* where loop() is, and its local variable
  task,              \* where the connection task of a device is
  hostScan,          \* the stack is scanning
  endQueued,         \* the end of a scan, still to be reported by the stack
  link,              \* of a device: "down", "connecting" or "up"
  advertising        \* the server is advertising

loopVars == <<loopAt, wantStop>>
flagVars == <<scanHasEnded, scanStopRequested>>
unknownVars == <<scanForUnknownClients, scanUnknownUntil>>
deviceVars == <<status, needsRescan>>
hostVars == <<hostScan, endQueued>>
serverVars == <<advertisingPaused, advertising>>
connectVars == <<connectingCount, task, link>>
scanVars == <<scanner, scanAt, settleLeft, flagVars, unknownVars, deviceVars,
              hostVars, serverVars, connectVars, loopVars>>

ASSUME ScanAssumption ==
  /\ IsFiniteSet(Devices)
  /\ Cooldown \in Nat /\ RetryTime \in Nat /\ SettleTime \in Nat /\ UnknownTime \in Nat
  /\ CoordinateWithServer \in BOOLEAN
  /\ ScannerReconfigured \in BOOLEAN

LoopSteps == {"top", "flags", "stopping", "stopped", "update", "clear", "decide",
              "start", "starting"}
TaskSteps == {"idle", "granted", "counted", "connecting", "succeeded", "failed",
              "poking"}

\* Inside pClient->connect(), or about to enter or leave it.
Attempting == {"counted", "connecting", "succeeded", "failed"}

--------------------------------------------------------------------------------

IsScanning == scanner /\ hostScan

NeedsDiscovery ==
  \/ scanForUnknownClients
  \/ \E d \in Devices : \/ status[d] = "unaddressed"
                        \/ status[d] # "absent" /\ needsRescan[d]

CanConnect == ~scanner /\ settleLeft = 0

(* loop() *)

LoopReadsStop ==
  /\ loopAt = "top"
  /\ wantStop' = scanStopRequested
  /\ loopAt' = "flags"
  /\ UNCHANGED <<scanner, scanAt, settleLeft, flagVars, unknownVars, deviceVars,
                 hostVars, serverVars, connectVars>>

\* The flags are cleared, and the end of a scan is noticed, by its flag or, if the
\* stack has not reported it yet, from the state of the scanner.
LoopTakesFlags ==
  /\ loopAt = "flags"
  /\ scanStopRequested' = FALSE
  /\ scanHasEnded' = FALSE
  /\ wantStop' = (wantStop \/ scanHasEnded \/ (scanner /\ ~hostScan))
  /\ loopAt' = IF wantStop' /\ scanner THEN "stopping" ELSE "update"
  /\ UNCHANGED <<scanner, scanAt, settleLeft, unknownVars, deviceVars, hostVars,
                 serverVars, connectVars>>

\* stopScanning(), until scanner is cleared; if a change of the settings has already
\* cleared it, only the next update is scheduled.  The stack may or may not report
\* the end of a scan that it was told to stop.
LoopStops ==
  /\ loopAt = "stopping"
  /\ \/ /\ scanner
        /\ hostScan' = FALSE
        /\ endQueued' \in {endQueued, endQueued \/ hostScan}
        /\ scanner' = FALSE
        /\ loopAt' = "stopped"
        /\ UNCHANGED scanAt
     \/ /\ ~scanner
        /\ scanAt' = Cooldown
        /\ loopAt' = IF wantStop THEN "update" ELSE "top"
        /\ UNCHANGED <<scanner, hostVars>>
  /\ UNCHANGED <<settleLeft, flagVars, unknownVars, deviceVars, serverVars,
                 connectVars, wantStop>>

\* The rest of stopScanning(): the settle time starts, advertising is resumed.
\* Called from updateScanning(), it is the last thing loop() does.
LoopSettles ==
  /\ loopAt = "stopped"
  /\ settleLeft' = SettleTime
  /\ advertisingPaused' = (advertisingPaused /\ ~CoordinateWithServer)
  /\ advertising' = (advertising \/ (CoordinateWithServer /\ advertisingPaused))
  /\ scanAt' = Cooldown
  /\ loopAt' = IF wantStop THEN "update" ELSE "top"
  /\ UNCHANGED <<scanner, flagVars, unknownVars, deviceVars, hostVars, connectVars,
                 wantStop>>

\* The session for unknown devices may be over; then a scan update may be due.
LoopUpdates ==
  /\ loopAt = "update"
  /\ IF Passed(scanUnknownUntil)
     THEN /\ scanUnknownUntil' = Off
          /\ scanForUnknownClients' = FALSE
          /\ scanAt' = 0
     ELSE UNCHANGED <<unknownVars, scanAt>>
  /\ loopAt' = IF scanAt' = 0 THEN "clear" ELSE "top"
  /\ UNCHANGED <<scanner, settleLeft, flagVars, deviceVars, hostVars, serverVars,
                 connectVars, wantStop>>

LoopClears ==
  /\ loopAt = "clear"
  /\ scanAt' = Off
  /\ loopAt' = "decide"
  /\ UNCHANGED <<scanner, settleLeft, flagVars, unknownVars, deviceVars, hostVars,
                 serverVars, connectVars, wantStop>>

\* Variant: the scan is not asked for again.
ScanNoLater == UNCHANGED scanAt

\* A scan that cannot start now is tried again in a second.
ScanLater == scanAt' = RetryTime

\* updateScanning()
LoopDecides ==
  /\ loopAt = "decide"
  /\ \/ /\ IsScanning
        /\ loopAt' = IF NeedsDiscovery THEN "top" ELSE "stopping"
        /\ wantStop' = FALSE
        /\ scanAt' = scanAt
     \/ /\ ~IsScanning
        /\ connectingCount > 0
        /\ ScanLater
        /\ loopAt' = "top"
        /\ wantStop' = wantStop
     \/ /\ ~IsScanning
        /\ connectingCount <= 0
        /\ loopAt' = IF NeedsDiscovery THEN "start" ELSE "top"
        /\ UNCHANGED <<scanAt, wantStop>>
  /\ UNCHANGED <<scanner, settleLeft, flagVars, unknownVars, deviceVars, hostVars,
                 serverVars, connectVars>>

\* Variant: scanner is not set before the stack is called.
LoopStartsUnseen ==
  /\ loopAt = "start"
  /\ loopAt' = "starting"
  /\ UNCHANGED <<scanner, scanAt, settleLeft, flagVars, unknownVars, deviceVars,
                 hostVars, serverVars, connectVars, wantStop>>

\* startScanning(), until scanner is set.
LoopStarts ==
  /\ loopAt = "start"
  /\ advertisingPaused' = (advertisingPaused \/ CoordinateWithServer)
  /\ advertising' = (advertising /\ ~CoordinateWithServer)
  /\ scanner' = TRUE
  /\ loopAt' = "starting"
  /\ UNCHANGED <<scanAt, settleLeft, flagVars, unknownVars, deviceVars, hostVars,
                 connectVars, wantStop>>

\* The rest of startScanning(): the stack refuses while it makes a connection.
LoopScans ==
  /\ loopAt = "starting"
  /\ IF \E d \in Devices : link[d] = "connecting"
     THEN /\ scanner' = FALSE
          /\ ScanLater
          /\ hostScan' = hostScan
     ELSE /\ hostScan' = TRUE
          /\ UNCHANGED <<scanner, scanAt>>
  /\ loopAt' = "top"
  /\ UNCHANGED <<settleLeft, flagVars, unknownVars, deviceVars, endQueued, serverVars,
                 connectVars, wantStop>>

LoopStep ==
  \/ LoopReadsStop \/ LoopTakesFlags \/ LoopStops \/ LoopSettles \/ LoopUpdates
  \/ LoopClears \/ LoopDecides \/ LoopStarts \/ LoopScans

--------------------------------------------------------------------------------
(* The connection tasks. *)

\* The task may connect, or requests that the scan be stopped for it.
AskToConnect(d) ==
  /\ task[d] = "idle"
  /\ status[d] = "addressed"
  /\ IF CanConnect
     THEN task' = [task EXCEPT ![d] = "granted"] /\ UNCHANGED scanStopRequested
     ELSE scanStopRequested' = TRUE /\ UNCHANGED task
  /\ UNCHANGED <<scanner, scanAt, settleLeft, scanHasEnded, unknownVars, deviceVars,
                 hostVars, serverVars, connectingCount, link, loopVars>>

\* Variant: an attempt is counted before it is clear that one is needed.
ConnectCountsFirst(d) ==
  /\ task[d] = "granted"
  /\ connectingCount' = connectingCount + 1
  /\ task' = [task EXCEPT ![d] =
               IF status[d] # "addressed" \/ link[d] = "up" THEN "idle" ELSE "counted"]
  /\ UNCHANGED <<scanner, scanAt, settleLeft, flagVars, unknownVars, deviceVars,
                 hostVars, serverVars, link, loopVars>>

\* connect(), as far as noteConnectAttemptStarted(); it returns at once without an
\* address or if there is a connection.
Connect(d) ==
  /\ task[d] = "granted"
  /\ IF status[d] # "addressed" \/ link[d] = "up"
     THEN /\ task' = [task EXCEPT ![d] = "idle"]
          /\ UNCHANGED connectingCount
     ELSE /\ task' = [task EXCEPT ![d] = "counted"]
          /\ connectingCount' = connectingCount + 1
  /\ UNCHANGED <<scanner, scanAt, settleLeft, flagVars, unknownVars, deviceVars,
                 hostVars, serverVars, link, loopVars>>

\* The stack refuses a connection while it scans or makes another one.
HostConnects(d) ==
  /\ task[d] = "counted"
  /\ IF hostScan \/ \E e \in Devices : link[e] = "connecting"
     THEN task' = [task EXCEPT ![d] = "failed"] /\ UNCHANGED link
     ELSE /\ task' = [task EXCEPT ![d] = "connecting"]
          /\ link' = [link EXCEPT ![d] = "connecting"]
  /\ UNCHANGED <<scanner, scanAt, settleLeft, flagVars, unknownVars, deviceVars,
                 hostVars, serverVars, connectingCount, loopVars>>

\* The connection is made, or not within connectTimeoutMillis.
HostConnected(d) ==
  /\ task[d] = "connecting"
  /\ \E up \in BOOLEAN :
       /\ task' = [task EXCEPT ![d] = IF up THEN "succeeded" ELSE "failed"]
       /\ link' = [link EXCEPT ![d] = IF up THEN "up" ELSE "down"]
  /\ UNCHANGED <<scanner, scanAt, settleLeft, flagVars, unknownVars, deviceVars,
                 hostVars, serverVars, connectingCount, loopVars>>

\* Variant: a failed attempt ends twice.
ConnectEndsTwice(d) ==
  /\ task[d] \in {"succeeded", "failed", "poking"}
  /\ connectingCount' = connectingCount - 1
  /\ task' = [task EXCEPT ![d] = IF task[d] = "failed" THEN "poking" ELSE "idle"]
  /\ needsRescan' = [needsRescan EXCEPT ![d] = (task[d] # "succeeded")]
  /\ scanAt' = IF task[d] = "poking" THEN 0 ELSE scanAt
  /\ UNCHANGED <<scanner, settleLeft, flagVars, unknownVars, status, hostVars,
                 serverVars, link, loopVars>>

\* Variant: the scan scheduler is told before there is anything to see.
ConnectEndsTellingFirst(d) ==
  \/ /\ task[d] \in {"succeeded", "failed"}
     /\ connectingCount' = connectingCount - 1
     /\ IF task[d] = "failed"
        THEN task' = [task EXCEPT ![d] = "poking"] /\ scanAt' = 0
        ELSE task' = [task EXCEPT ![d] = "idle"] /\ UNCHANGED scanAt
     /\ UNCHANGED <<scanner, settleLeft, flagVars, unknownVars, deviceVars,
                    hostVars, serverVars, link, loopVars>>
  \/ /\ task[d] = "poking"
     /\ task' = [task EXCEPT ![d] = "idle"]
     /\ needsRescan' = [needsRescan EXCEPT ![d] = TRUE]
     /\ UNCHANGED <<scanner, scanAt, settleLeft, flagVars, unknownVars, status,
                    hostVars, serverVars, connectingCount, link, loopVars>>

\* connect() returns; after a failure it sets needsRescan and then asks for a scan
\* update.
ConnectEnds(d) ==
  \/ /\ task[d] \in {"succeeded", "failed"}
     /\ connectingCount' = connectingCount - 1
     /\ needsRescan' = [needsRescan EXCEPT ![d] = (task[d] = "failed")]
     /\ task' = [task EXCEPT ![d] = IF task[d] = "failed" THEN "poking" ELSE "idle"]
     /\ UNCHANGED <<scanner, scanAt, settleLeft, flagVars, unknownVars, status,
                    hostVars, serverVars, link, loopVars>>
  \/ /\ task[d] = "poking"
     /\ task' = [task EXCEPT ![d] = "idle"]
     /\ scanAt' = 0
     /\ UNCHANGED <<scanner, settleLeft, flagVars, unknownVars, deviceVars,
                    hostVars, serverVars, connectingCount, link, loopVars>>

\* The task disconnects, or the peer goes away.
LinkDown(d) ==
  /\ link[d] = "up"
  /\ link' = [link EXCEPT ![d] = "down"]
  /\ UNCHANGED <<scanner, scanAt, settleLeft, flagVars, unknownVars, deviceVars,
                 hostVars, serverVars, connectingCount, task, loopVars>>

--------------------------------------------------------------------------------
(* The host task of the stack. *)

ScanTimesOut ==
  /\ hostScan
  /\ hostScan' = FALSE
  /\ endQueued' = TRUE
  /\ UNCHANGED <<scanner, scanAt, settleLeft, flagVars, unknownVars, deviceVars,
                 serverVars, connectVars, loopVars>>

OnScanEnd ==
  /\ endQueued
  /\ endQueued' = FALSE
  /\ scanHasEnded' = TRUE
  /\ UNCHANGED <<scanner, scanAt, settleLeft, scanStopRequested, unknownVars,
                 deviceVars, hostScan, serverVars, connectVars, loopVars>>

\* An advertisement of a known device; a new address closes the connection made
\* under the old one.
OnResult(d) ==
  /\ hostScan
  /\ status[d] # "absent"
  /\ status' = [status EXCEPT ![d] = "addressed"]
  /\ needsRescan' = [needsRescan EXCEPT ![d] = FALSE]
  /\ link' \in {link, [link EXCEPT ![d] = IF link[d] = "up" THEN "down" ELSE @]}
  /\ scanAt' = 0
  /\ UNCHANGED <<scanner, settleLeft, flagVars, unknownVars, hostVars, serverVars,
                 connectingCount, task, loopVars>>

--------------------------------------------------------------------------------
(* The application and its user, in the loop() task or in the host task. *)

StartScanUnknown ==
  /\ scanForUnknownClients' = TRUE
  /\ scanUnknownUntil' = After(UnknownTime)
  /\ scanAt' = 0
  /\ UNCHANGED <<scanner, settleLeft, flagVars, deviceVars, hostVars, serverVars,
                 connectVars, loopVars>>

AddDevice(d) ==
  /\ loopAt = "top"
  /\ scanAt' = 0
  /\ status' = [status EXCEPT ![d] = IF @ = "absent" THEN "unaddressed" ELSE @]
  /\ needsRescan' = [needsRescan EXCEPT ![d] = @ /\ status[d] # "absent"]
  /\ UNCHANGED <<scanner, settleLeft, flagVars, unknownVars, hostVars, serverVars,
                 connectVars, loopVars>>

NoteKnownAddress(d) ==
  /\ loopAt = "top"
  /\ scanAt' = 0
  /\ status' = [status EXCEPT ![d] = "addressed"]
  /\ needsRescan' = [needsRescan EXCEPT ![d] = @ /\ status[d] # "absent"]
  /\ UNCHANGED <<scanner, settleLeft, flagVars, unknownVars, hostVars, serverVars,
                 connectVars, loopVars>>

\* The device is forgotten; its connection object, and a task that uses it, stay.
DelDevice(d) ==
  /\ loopAt = "top"
  /\ scanAt' = 0
  /\ status' = [status EXCEPT ![d] = "absent"]
  /\ UNCHANGED <<scanner, settleLeft, flagVars, unknownVars, needsRescan, hostVars,
                 serverVars, connectVars, loopVars>>

\* putHandler() with a scan setting calls setupScanner(), which ends by clearing
\* scanner, in whichever task the request arrived.
PutScanSettings ==
  /\ scanner' = FALSE
  /\ ~ScannerReconfigured => scanner' = scanner
  /\ UNCHANGED <<scanAt, settleLeft, flagVars, unknownVars, deviceVars, hostVars,
                 serverVars, connectVars, loopVars>>

Tick ==
  /\ scanAt' = Ticked(scanAt)
  /\ settleLeft' = Ticked(settleLeft)
  /\ scanUnknownUntil' = Ticked(scanUnknownUntil)
  /\ UNCHANGED <<scanner, flagVars, scanForUnknownClients, deviceVars, hostVars,
                 serverVars, connectVars, loopVars>>

--------------------------------------------------------------------------------

\* An application may ask for unknown devices in its setup(), for ever.
Init ==
  /\ scanner = FALSE /\ settleLeft = 0
  /\ scanHasEnded = FALSE /\ scanStopRequested = FALSE
  /\ scanForUnknownClients \in BOOLEAN /\ scanUnknownUntil = Off
  /\ scanAt = IF scanForUnknownClients THEN 0 ELSE Off
  /\ status = [d \in Devices |-> "absent"]
  /\ needsRescan = [d \in Devices |-> FALSE]
  /\ advertisingPaused = FALSE /\ advertising = TRUE
  /\ hostScan = FALSE /\ endQueued = FALSE
  /\ connectingCount = 0
  /\ task = [d \in Devices |-> "idle"]
  /\ link = [d \in Devices |-> "down"]
  /\ loopAt = "top" /\ wantStop = FALSE

TaskStep(d) ==
  \/ AskToConnect(d) \/ Connect(d) \/ HostConnects(d) \/ HostConnected(d)
  \/ ConnectEnds(d) \/ LinkDown(d)

UserStep ==
  \/ StartScanUnknown
  \/ PutScanSettings
  \/ \E d \in Devices : AddDevice(d) \/ NoteKnownAddress(d) \/ DelDevice(d)

Next ==
  \/ LoopStep
  \/ \E d \in Devices : TaskStep(d) \/ OnResult(d)
  \/ ScanTimesOut
  \/ OnScanEnd
  \/ UserStep
  \/ Tick

Spec == Init /\ [][Next]_scanVars

\* loop() runs on, time passes, a scan ends, the stack reports it, and connect()
\* returns; nobody has to ask for a connection.
Fairness ==
  /\ WF_scanVars(LoopStep)
  /\ WF_scanVars(Tick)
  /\ WF_scanVars(ScanTimesOut)
  /\ WF_scanVars(OnScanEnd)
  /\ \A d \in Devices :
       WF_scanVars(Connect(d) \/ HostConnects(d) \/ HostConnected(d) \/ ConnectEnds(d))

FairSpec == Spec /\ Fairness

--------------------------------------------------------------------------------
(* Correctness. *)

ScanDeadline == {Off} \cup (0 .. Cooldown) \cup (0 .. RetryTime)

TypeOK ==
  /\ scanner \in BOOLEAN
  /\ scanAt \in ScanDeadline
  /\ settleLeft \in 0 .. SettleTime
  /\ scanHasEnded \in BOOLEAN /\ scanStopRequested \in BOOLEAN
  /\ connectingCount \in Nat
  /\ scanForUnknownClients \in BOOLEAN
  /\ scanUnknownUntil \in Deadline(UnknownTime)
  /\ status \in [Devices -> {"absent", "unaddressed", "addressed"}]
  /\ needsRescan \in [Devices -> BOOLEAN]
  /\ advertisingPaused \in BOOLEAN /\ advertising \in BOOLEAN
  /\ loopAt \in LoopSteps /\ wantStop \in BOOLEAN
  /\ task \in [Devices -> TaskSteps]
  /\ hostScan \in BOOLEAN /\ endQueued \in BOOLEAN
  /\ link \in [Devices -> {"down", "connecting", "up"}]

\* Whatever other tasks write while loop() clears and re-arms its deadline, a
\* reason to scan is never forgotten: loop() is about to look, or will when the
\* running scan has ended ("otherwise a failed connect's needsRescan flag can go
\* unnoticed indefinitely", iotsaBLEClient.h:77).
DiscoveryScheduled ==
  NeedsDiscovery =>
    \/ Armed(scanAt)
    \/ scanner
    \/ loopAt \in {"stopped", "decide", "start"}
    \/ \E d \in Devices : task[d] = "poking"

\* "canConnect() blocks a new connect while scanning" (docs/ble-timing.md:24): at
\* no point of starting or stopping a scan does a task see the radio as free while
\* the stack scans.
ConnectBlockedByScan == hostScan => ~CanConnect

\* Scans are held off by exactly the attempts that are under way, however they end
\* and whatever happens to the device meanwhile: a count too many would end all
\* scanning for good.
AttemptsCounted ==
  connectingCount = Cardinality({d \in Devices : task[d] \in Attempting})

\* A reason to scan leads to a scan, unless it goes away, once no more connections
\* are attempted.
DiscoveryHappens ==
  (<>[](connectingCount = 0)) =>
    (NeedsDiscovery ~> (hostScan \/ ~NeedsDiscovery))
================================================================================
