# A verification development of iotsa

iotsa is a C++ framework for ESP32 devices: a web server, REST/CoAP/BLE
interfaces, a configuration that is kept in flash, WiFi that looks after itself,
battery and sleep management, and modules for sensors, buttons and LEDs. This
directory holds TLA+ models of it, translated from the code (`src/src/*.cpp`),
TLC configurations that check them on small instances, and TLAPS proofs of their
main properties for every value of the constants.

## 1. The system: inventory

Everything but the BLE stack runs in one task: `IotsaApplication::loop()` calls
`iotsaConfig.loop()` and then `loop()` of every module, in a fixed order (the
configuration module first). A request over HTTP or CoAP is handled inside
`loop()`, between the modules. The BLE stack has its own task, which delivers
callbacks (and, with `iotsaApiHps.cpp`, whole REST requests) in the middle of
`loop()`; applications may start further tasks, for instance one per BLE
connection. Nothing but the address of a BLE device is protected by a lock:
shared scalars are `volatile` or (one of them) atomic.

| Component (`src/src/`) | State | Operations | Talks to | Hard part | Correct means |
|---|---|---|---|---|---|
| Configuration object and module (`iotsaConfig.*`, `iotsaConfigMod.*`) | current and requested configuration mode with deadlines, settings, `config.cfg`, pending reboot, WiFi and BLE mode | PUT /api/config, web form, `loop()`, boot, factory reset, save, reboot request, `allowRequestedConfigurationMode` | every module asks it whether configuration is allowed; WiFi and battery modules write its modes | resets at any point, requests that time out, request state in RAM and in flash | special modes need physical access, end in time; settings guarded and saved |
| WiFi (`iotsaWifi.*`) | radio interfaces, station status, search deadline, network name | mode switch, search, private network, save of a network | reads and writes `iotsaConfig.wifiMode`, begins configuration mode | radio calls fail one by one; status changes by itself | radio follows mode; a known network is joined; no state without exit |
| Configuration files (`iotsaConfigFile.*`) | files of `name=value` lines | load, save (truncate, then write) | all modules | power failure while writing | a load returns what was saved, or the defaults |
| Main loop (`iotsa.*`) | module lists, request log | `setup()`, `serverSetup()`, `loop()` | all modules | order of modules | every module's `loop()` keeps being called |
| BLE client (`iotsaBLEClient*.*`, `iotsaBLEDeviceInfo.*`) | scanner, scan deadline, flags from other tasks, count of connection attempts, known and unknown devices | `loop()`, scan callbacks, `canConnect`, `connect`, `disconnect`, device list | BLE stack, connection tasks, BLE server's advertising, sleep counter | three kinds of tasks over unlocked state | scans and connections keep apart, no reason to scan is lost, a closed connection is recognised |
| BLE server (`iotsaBLEServer.*`) | advertising, retry deadline, BLE mode | pause, resume, mode switch, save, connect/disconnect callbacks, `loop()` | BLE client, battery module | start may fail; pause against retry and callback | advertises when it should, silent when paused or disabled |
| Battery and sleep (`iotsaBattery.*`, counters in `iotsaConfig.*`) | sleep counters, wake deadlines, soft reboot request, WiFi override | `loop()` (sleep decision, light/deep sleep), API, BLE commands | WiFi mode, BLE server, everybody who postpones sleep | counters from several tasks, commands lost | does not sleep while held off, does sleep when nothing happens |
| HTTP over BLE (`iotsaApiHps.*`) | URL, headers, body, control point, status, read cursor | writes and reads of characteristics | API handlers, in the BLE task | chunked transfer, order of writes, status notification | the reply read belongs to the request written |
| REST and CoAP (`iotsaApi*.*`) | service registrations | dispatch to `getHandler`/`putHandler`/`postHandler` | all API modules | I/O | dispatches to one handler |
| Web server (`iotsaWebServer.*`) | connection | glue to the server libraries | main loop | I/O | |
| Users (`iotsaUser.*`, `iotsaMultiUser.*`, `iotsaCapabilities.*`) | list of users with passwords and capabilities | API by index, forms, load and save | authentication of every request | numbering of files and endpoints; copies of list elements | what was stored is what authenticates |
| Inputs (`iotsaInput.*`, `iotsaButton.*`) | debounce and repeat state, values | `loop()`, which polls the pins | callbacks of the application, outgoing requests | time, bounces, late polls | one press, one event; values stay in range |
| Requests (`iotsaRequest.*`), LED (`iotsaLed.*`) | URLs; colour pattern | send; pattern step in `loop()` | buttons, status | I/O; timing | |
| Logger (`iotsaLogger.*`) | ring buffer in memory kept over resets | write, print | serial, web | two wrapping indices | last bytes kept, in order |
| OTA (`iotsaOta.*`) | upload in progress | `loop()` | OTA mode, extends it | library | only in OTA mode |
| Time (`iotsaNtp.*`, `iotsaRtc.*`) | offset, last sync | NTP exchange | | wrap of `millis()` | |
| Files (`iotsaFiles*.*`) | file of an upload | upload, list, backup | | I/O | reported result is that of the upload |
| Templates (`iotsaNothing.*`, `iotsaSimple.*`), build switches | none | | | | |
| Python tool (`src/extras/python/iotsa`) | connection to a device | find, configure, wait for a mode, upload | devices | waits and retries | |

The hazards that follow from this, each at the line where it bites, are listed in
`PROJECT.json`; the properties below are aimed at them.

## 2. The plan

In the order of how much of the device depends on them:

1. `Deadlines`, `ModeGate`, `IotsaConfig`: the configuration modes. **Done**,
   with `IotsaConfigProofs`.
2. `IotsaWifi`: WiFi, composed with `IotsaConfig` and shown to implement it.
   **Done**, with `IotsaWifiProofs`.
3. `BLEScan`: scans against connections in the BLE client. **Done**, with
   `BLEScanProofs`.
4. `BLEServer`: advertising, its retry and pauses. **Done**, with
   `BLEServerProofs`.
5. `BLEConnection`: one connection between the application's task and the host
   task of the stack. **Done**, with `BLEConnectionProofs`.
6. `Sleep`: the sleep decision, the watchdog, WiFi before sleep. **Done**, with
   `SleepProofs`.
7. `Hps`, implementing `RemoteCall`: a request over BLE. **Done**, with
   `HpsProofs`.
8. `Inputs`: debouncing, repeats and bounded values. **Done**, with
   `ModulesProofs`, which also has the proofs of 9 and 10.
9. `ConfigFile`, `ModuleSettings`, `Users`, `LogBuffer`: small data structures
   that outlive a restart. **Done.**
10. `OtaSlots`, `ModeTool`: the parts of the Python tool that have state.
    **Done.**

Not begun: the composition of `BLEServer` with `BLEScan`, whose `advertising` is
what `pauseServer()` and `resumeServer()` do here; the comparisons of `Deadlines` on
32-bit counters; the LED. Theorems to come: what remains
true where a run ends in a violation, as `ServerIsStrandedOnlyByOverlap` says it for `server_stranded`: which connections scans cannot disturb when
their settings change (`scan_reconfigured`).

## 3. The models

**`Deadlines`.** The code keeps a deadline as an absolute `millis()` value, 0 for
none. The models keep the distance to it; `Tick` shortens all distances by one.
`Passed` is the test `deadline && millis() > deadline`.

**`ModeGate`** is the abstract promise of the configuration modes: a mode is
requested, later entered by a proof of physical access, or withdrawn; it ends in
normal mode. The exception of a device on its factory network is part of it.

**`IotsaConfig`** models `iotsaConfig.cpp` and `iotsaConfigMod.cpp`. `flash` is what
`configLoad()` would read. `PutConfig` and `WebConfig` are the two handlers with
their tests in the order of the code, including the early return that saves first.
`Boot` is the `setup()` of the configuration module: load, decide about the mode by the
cause of the reset, save without it. `PowerLossWhileSaving` truncates the file.
`FactoryResetDone` ends the blocking format. The other modules appear only as far as
they write this object: `WifiConfigSaved`, `WifiLoopStep`. A reset may come between any
two steps. Requests are taken to be authorised. Not modelled here: HTTPS keys and
certificates, BLE modes, sleep counters.

**`IotsaWifi`** adds the radio. `Radio` collects mode, interfaces, station status
and search deadline in one record, because `_wifiGotoMode()` and the calls it makes
transform it one after the other: `GotoMode`, `StartStation`, `StopAP` and the others map a radio
state to the set of states they can leave, more than one when a call may fail
(`RadioMayFail`). `LinkUp` and `LinkLost` are the network's doing. `ImplementsConfig` (that is,
`IotsaConfig!Spec`) says that this device does what `IotsaConfig` says.

**`BLEScan`** models the scan scheduler of the BLE client. `loop()` is cut into nine
steps, wherever another task could see a half-made change: between reading and
clearing `scanStopRequested`, between clearing `scanner` and recording
`scanStoppedAtMillis`, between testing and clearing `shouldUpdateScanAtMillis`,
between looking at `connectingCount` and starting the scan. `AskToConnect`, `Connect`,
`HostConnects`, `HostConnected` and `ConnectEnds` are a connection task; what the stack does with
`connect()` and `start()` (it refuses one during the other) is external and taken
from the comments and return codes the code handles. `OnResult` and `OnScanEnd` are the
stack's callbacks.

**`BLEServer`** models who starts advertising and what becomes of it. `Start` is the stack's
`start()`, refused when its pool of connections is full; what it returns when the server already advertises
is left open. Every start is followed by `Note` (`_noteAdvertisingStartResult()`) in the same task,
as a step of its own, since loop() and the host task both start, and no lock keeps the other task from acting between the two.
`startsOverlap` says whether the last start or stop came in between. Scans and light sleep of the other modules appear as
`ScanPauses`/`ScanResumes` and `SleepPauses`/`SleepResumes`; they may nest, as in the code.

**`BLEConnection`** models one `IotsaBLEClientConnection`. `connect()` and `disconnect()` are
cut where the host task can step in: between the test of the connection and the
flag, between the flag and the stack's `disconnect()`, between the count of a call and
that of its outcome. `LinkDrops` is the end of a connection, `OnDisconnect` the
callback that reports it later. An advertisement with another address replaces the
address and closes the connection (`ReceivedAdvertisement`).

**`Sleep`** models `loop()` of the battery module, in steps named by `step`: `Begin`
(watchdog, wake-up time, command written over BLE), `Clear` (the command is forgotten),
the decision (`StaysAwake`, `SwitchesWifiOff`, `DecidesToSleep`), `FallsAsleep`, and the two ways back: `WakesUp`
into `loop()` from a delay or light sleep, and `WakesFromDeepSleep`, which is a `Boot`. Then come the other modules (`OthersLoop`,
in which requests arrive). The host task delivers `Connect`, `Disconnect` and `WriteCommand` at any step
in which it runs. `pauseSleepCount` is stepped by connections and, down only, by the ends of scans, as in the
code, where the matching increment is compiled out (`iotsaBLEClient.cpp:252-255`). `++` and `--` are a read and a write. Only at the end of a scan
does `loop()` step the counter, so that it is there that the two tasks can meet: `ScanEnds` reads, `LoopCounts` writes, and in the step "count" between
them the host task may write (`HostCounts`; `loop()` then writes over it) or have read before `loop()` writes (`HostCountsLast`, which writes over that).
`collided` remembers that a step was lost. Everywhere else the host task's read and write have nothing between them that matters, and are one step.

**`Hps`** models the HTTP proxy service (`iotsaApiHps.cpp`) and the client of the Python tool
(`protocols/hps.py`, `ble.py`) that uses it: writing the URL, the body in one or several parts, the control point, reading the
status and the body of the reply, whole or in slices. The device's variables are `curUrl`, `curBody`, `lastBodyChunk`,
`curReplyIsChunked`, `curBodyReadOffset` and the two statuses; they survive lost connections (`ConnectionLost`) and clients that stop
(`ClientStops`), but not `DeviceRestarts`. A write through `set()` may fail with the connection up (`SetFails`): the tool prints the error
and goes on (`ble.py:128-132`), and `writeLost` says that this call lost one. **`RemoteCall`** is what a caller can count on: a request is carried out at
most once per call and with the method of the call; one that lost no write is carried out as it was made, and returns the reply
of that execution or fails. For one that did, another request with that method may be carried out, and a call that was not carried out may return something nevertheless, as
the code has it.

**`Inputs`** models `Button::loop()` as one step per button (`ButtonChanges`, `ButtonRepeats`, `ButtonWaits`)
against a pin that may change at any moment (`PinChanges`), with the inputs made of it: `UpDownButtons` (with or without `useState`)
and `CyclingButton`, bound to an integer. A `RotaryEncoder` is the one whose clicks the ESP32Encoder library counts
(`EncoderTurns`), which `loop()` adds to the level at once (`EncoderLoop`).

**`ConfigFile`** is the format of all configuration files as `get()` and `put()` see it, a value being a sequence of lines
of which `get()` finds the first. **`ModuleSettings`** has the settings of four modules (buttons with their requests, capabilities, the single user,
NTP), each with its REST handler, its form, its load and its save. **`Users`** has the list of `iotsaMultiUser.cpp` with
its forms and endpoints, its file, and `Allows`, the decision about a request.

**`LogBuffer`** models `IotsaLogger::write()`, a step per statement and any number of tasks, over memory that
may hold anything at first; `ShownLog` is the page.

**`OtaSlots`** models the otadata entries as `dfu.py` reads and writes them; the boot loader and
the update over the air that leave entries too are external. **`ModeTool`** models `gotoMode()` of
`api.py` with the cached endpoint and requests that are repeated or lost, against a device that has the two modes
of `IotsaConfig`.

The definitions marked "Variant" are not used by any specification. Each is a way a
definition could plausibly be wrong (a lost guard, a step too early, a deadline not
armed); with the variant in its place, the property it is aimed at fails. They show
that each property depends on the code's care.

## 4. The runs

All runs take the smallest values at which the cases differ: timeouts of one or two ticks
(so that a deadline can be shorter than, equal to or longer than another), and 0 for
delays that only have to exist.

| Run | Shows |
|---|---|
| `config` | Two host names, timeouts 1 and 2, every kind of request and form, every reset: `FlashedRequestExpires`, `ModesExpire`, `SettingsSaved`, `EntryNeedsPhysicalAccess`, `SettingsGuarded`, the refinement of `ModeGate`, and `ReturnsToNormal`: left alone, the device is in normal mode in the end, with no request left in RAM or in flash |
| `wifi` | A radio that obeys, one network: `RadioMatchesMode`, `ApMatchesConfigurationMode`, `SearchIsTimed`, and `JoinsNetwork` |
| `wifi_implements` | A radio any call of which may fail, and factory resets: every step is one of `IotsaConfig` |
| `scan` | Two devices and their tasks, advertising paused by scans: `DiscoveryScheduled`, `ConnectBlockedByScan`, `AttemptsCounted` |
| `scan_liveness` | One device: `DiscoveryHappens` |
| `sleep` | Light and deep sleep, from which a device comes back into `loop()` or through a boot, with one central, one uncounted scan, every command, requests and changes of settings at any moment: `WifiOffBeforeSleep`, `WatchdogGuards`, `SleepsOnlyAfterScans` and `SleepsInTheEnd` |
| `modules` | The components that do not act on each other, one per behaviour (`subject` in `MCModules`), so that their states add up instead of multiplying |

What the run `modules` checks, component by component:

- `BLEServer`: `StrandedOnlyByOverlap` (as long as no start was noted late, a server that should advertise does, or has a retry armed),
  `AdvertisesInTheEnd` (of a server of which the same is true): two centrals, a pool that fills and empties, advertising with
  and without an end.
- `Hps`: `ImplementsRemoteCall`, `CallEnds`: any write may fail with the connection up; a GET, a PUT with a body of one part or more, each with and without chunking,
  replies that fit a read or not, a URL without a provider; connections, clients and devices that go away at any step.
- `BLEConnection`: `Accounted` (the counters of calls, attempts and connections form a tree, with a term for a connection that is being closed
  or has just dropped), `ClosingIsSeen`.
- `Inputs`: `StablePinIsSeen`, `ShortPressSwitches`, `CyclesThrough`: the four kinds of inputs, three levels, an encoder that turns by at most two clicks between two `loop()`s (`MaxTurns`).
- `ModuleSettings`: `SettingsSurvive`, with values of one line.
- `Users`: `UsersSurvive`, `AddingKeepsRights`: up to three users, of whom some may have no name, or the name and password of another.
- `LogBuffer`: `LogIsLastBytes`: two tasks, three bytes, memory that holds anything.
- `OtaSlots`: `SetSlotBoots`. `ModeTool`: `GivesUpOnLostRequest`.

*Bounds.* One network is enough for WiFi: networks differ only in their name.
Two devices are the least for which a connection of one meets a scan for the other or
a connection of another; the scheduler itself treats devices by quantifiers only, and the
proofs cover any number. Liveness of scans is checked for one device, since
temporal checking does not allow symmetry; with two devices the same formula was
too slow to be part of the runs. Wherever a run of IotsaConfig lists requests, it has one
of each kind of effect: mode only, setting only, radio with setting, reboot. Of the causes of a reset
the code only asks whether they count as somebody at the device (power, the reset button and, on the ESP32, `RTCWDT_RTC_RESET`, which
it has seen come from the button, `iotsaConfigMod.cpp:46`); there is one of each kind. Two centrals are the
least with which one disconnects while another stays. In `sleep`, a delay is left to the proofs and to the runs that end in a violation: it
differs from light sleep in that the host task runs on and in when the next wake period begins. The time that WiFi takes to switch (0) is shorter than that by
which sleep is postponed for it (1), as 1000 ms and 2000 ms are; a second central or scan would only repeat what the first
does to the counter, and the proofs cover any number. A read over BLE carries two units and a stream one, so that a reply of three is read in two slices and a
body of two or three is one write or a stream. A buffer of three bytes fills, wraps and drops. Three users are the least with one after one without a name.
`MaxCalls`, `MaxScans`, `MaxUsers`, `MaxOtaSeq` and `MaxRetries` cap what the code does not cap (the last is the tool's
own number, smaller).

*Fairness.* Weak fairness of the `loop()` steps and of `Tick`: the main loop does not
block (a blocked device is the phase "factoryReset", whose end is weakly fair), and time passes. In `Sleep` time stands still during
the steps of the battery module, so that `Tick` is disabled again and again, and its fairness is strong.
Of the environment: a scan started with a duration ends, the stack delivers its callback,
and `connect()` returns within its timeout (all weak); a network that keeps being
searched for answers in the end (strong, for `JoinsNetwork`, which is about that case); a client that has begun a call goes on
with it (weak, `RequestStep`).
Users, requests, resets and lost links are never fair; the liveness properties say under which of them
going quiet something happens.

### Where the code and its documents disagree

Each of these is a run whose property is a sentence from a document or comment
and that TLC refutes; `PROJECT.json` quotes the line. They are the ones to which a run above makes an exception, or has
a constant that leaves them out: what holds is in that run, and what does not in this one.

- `scan_reconfigured`: a change of scan settings clears `scanner` under a running scan.
- `hps_lost_write`: a write of the URL or of the body fails with the connection up, and the device carries out another request than the
  one that was made.
- `server_stranded`: a start that succeeded is noted after a later one that failed, and cancels its retry: the server neither advertises nor
  tries again.
- `sleep_watchdog`: with version 3 of the ESP32 core the watchdog is detached before the first sleep and never attached again
  (the run `sleep` has the behaviour of version 2).
- `sleep_scan_ends`: the end of a scan releases a connected central, and the device sleeps under it.

Further disagreements were met while reading and show in the models, but have no run of their own.

*Configuration and WiFi.* A request for mode 0 is not saved, so the mode it cancels can still be
entered by a power cycle (`iotsaConfigMod.cpp:460`). The deadline of a new request also ends the mode that is current (`iotsaConfigMod.cpp:661`
against `README.md:165`). Saving a network in factory mode does not make the device leave that mode
until it is reset (`iotsaWifi.cpp:410`). A device without network can end up in the mode for a network
that was not found (`iotsaWifi.cpp:54`); the retry after five minutes happens without the reboot of `README.md:492`.

*BLE client and server.* A scan that failed to start, and is not needed any more when it would be
tried again, leaves advertising paused (`iotsaBLEClient.cpp:236`). Switching the server off while a start is to be tried again leaves the retry
armed (`iotsaBLEServer.cpp:166`). A
task that may connect is counted only after `loop()` has looked at the count
(`iotsaBLEClient.cpp:187`, the stack then refuses one of the two and the retries, which `scan_liveness`
includes, take over); the settle time is recorded after `scanner` is cleared (`iotsaBLEClient.cpp:264`); and a
connection that is held open does not hold off scans (`docs/ble-timing.md:246`). `disconnect()` clears `disconnectSettled` after it tested
`isConnected()` (`iotsaBLEClientConnection.cpp:141-148`): when the connection drops and `onDisconnect()` runs in between, `isDisconnecting()`
stays true with nothing to wait for, until another connection has come and gone (against `iotsaBLEClientConnection.h:30-31`). The counts of connections
are not "fully closed" (`iotsaBLEClientConnection.h:101`) while one is being closed or has just dropped: `isConnected()` is false already,
and the other two counts are stepped in `onDisconnect()`.

*Sleep.* A command that is written over BLE while the previous one is carried out is cleared with it (`iotsaBattery.cpp:450`).
When two centrals disconnect between the read and the write of a `--` in `loop()`, the counter is left above 0 and the device stays awake until
the next boot (`iotsaConfig.cpp:245`; `SleepsInTheEnd` excludes it with `collided`). While sleep is put off for WiFi, the watchdog is stopped and `loop()` runs on (`iotsaBattery.cpp:490-505`; `deferred` in
`WatchdogGuards`). WiFi is switched off once per boot only (`iotsaBattery.cpp:498`).

*HTTP over BLE.* A URL clears the body (`iotsaApiHps.cpp:103`) but neither the read cursor nor the chunking flag of an earlier reply: a client that then
reads the body, as `printStatus()` of the tool does, or as a call does whose control point was lost, makes the device call `substr()` with a position
past the end, which throws (line 152, against 144-145; `PrintStatus` and `ReadPastEnd` restart the device). That no call reads past the end which lost no write is part of `HpsTypeOK`. Two centrals
that use the service share its variables.

*Other modules.* A certificate of several lines is written to a configuration file with its line breaks and read back up to the first
(`iotsaConfigFile.cpp:132` and 77-78, against `iotsaRequest.h:26`), and the key that follows it in the file is lost. `anyChanged` is read without having been
set (`iotsaMultiUser.cpp:69`), and the form changes a copy of the user (`iotsaMultiUser.cpp:113`). The claims of a capability are emptied by `to<JsonObject>()` after they were parsed (`iotsaCapabilities.cpp:249`).
The button that changes a user in the form sends the command that adds one (`iotsaMultiUser.cpp:46`). JSON booleans for `onPress` and `onRelease` are ignored (`iotsaButton.cpp:188`). `dfu.py` tells the slot without looking at
`ota_state` (`dfu.py:338`), which the boot loader does.

## 5. The proofs

`tlapm` checks every theorem for all values of the constants that satisfy the named
assumptions (`ConfigAssumption`, `WifiAssumption`, `ScanAssumption`, `ServerAssumption`, `ConnectionAssumption`,
`SleepAssumption`, `HpsAssumption`, `InputAssumption`, `SettingsAssumption`, `UsersAssumption`, `LogAssumption`,
`OtaAssumption`, `ToolAssumption`). They only say of what type the constants are, with these exceptions.
`SleepAssumption` orders durations: those of the settings are below the time with which the model caps how long
the device has been awake, and WiFi switches no later than a sleep that was postponed for it.
`HpsAssumption` has a stream carry at least one unit at a time and no more than a read does, replies be
more than nothing (an empty read ends a reply), and the value that stands for no call be none. `InputAssumption` has the range of a level be one, its step and the first repeat be positive;
`LogAssumption` has the ring of the log hold at least two bytes (it has 2048).
A theorem with a hypothesis of its own (`ASSUME`) is named below.

**`IotsaConfigProofs`.** The inductive invariant is
`TypeOK /\ FlashedRequestExpires /\ ModesExpire /\ SettingsSaved`. No conjunct is
inductive alone: a request stays covered in flash because the same deadline covers it in
RAM, and a save writes settings that were already those of the file. From it follow
`FlashedRequestsExpire`, `AllModesExpire`, `SettingsAreSaved`, and, as
properties of steps, `EntryNeedsAccess`, `SettingsAreGuarded` and the refinement
`ConfigImplementsGate`, whose mapping takes the pending modes to be those in flash and the one
requested in RAM.

**`IotsaWifiProofs`.** `DeviceImplementsConfig`: each step of the device is a step of
`IotsaConfig` or leaves its variables alone; the work is in showing that the chain of radio calls leaves
a WiFi mode among `WifiModes` and touches nothing else. `DeviceIsGuarded` then carries
the theorems above over to the device. `SearchesAreTimed`, `RadioFollowsMode` and `ApFollowsConfigurationMode` need radio
calls not to fail. The last two rest on `RadioInv`: a mode switch settles the radio whatever it was before
(`GotoModeSettles`), following the station keeps it settled (`FollowStatusSettles`), and everything else that writes the mode
or the configuration mode leaves a switch pending. Even then a device in a private mode has its own network (`OwnNetwork`), because
a switch that finds the device in the mode for a network that was not found does not start it again.

**`BLEScanProofs`.** `AttemptsAreCounted` relates an integer to the cardinality of
the set of tasks that make an attempt: a step adds one device, removes one, or leaves
both alone (`AttemptsStep`). `ScanTypeCorrect` needs it for the count not to fall below 0.
`ConnectIsBlockedByScan` and `DiscoveryIsScheduled` rest on `ScanOwned`: between deciding to scan and
starting it no scan runs, and `scanner`, once set, stays set. That needs `loop()` to be the only writer
of `scanner`, which holds unless scan settings are put while the device runs.

**`BLEServerProofs`.** `ServerTypeCorrect` holds however starts overlap.
`ServerIsStrandedOnlyByOverlap` has no hypothesis about the tasks either. It adds `NotedStart` to the invariant: as long as no start was
overtaken, one that succeeded and is yet to be noted has the server advertising, so that its note may cancel the retry.

**`BLEConnectionProofs`.** The inductive invariant adds `Marked` to the types, `Accounted` and
`ClosingIsSeen`: from the moment `disconnect()` has set its flag until it calls the stack, a connection that is still up
is marked as disconnecting, which is what the host task would otherwise undo. Each conjunct of
`Accounted` has a term for the call that is being made, so that the three counters may be stepped by
three tasks at different moments. `ConnectionsAreAccounted` and `ClosingIsAlwaysSeen` hold for any
addresses and any number of calls.

**`SleepProofs`.** `SleepTypeCorrect` is the type invariant. `WatchdogInv` follows the watchdog through a sleep step by step, for
cores that do not detach it (`WatchdogAlwaysGuards`; it fails for the others). `WifiInv` relates the deadline of the WiFi switch to that of the postponed sleep: the first
passes no later than the second, which is where `SwitchDelay <= PostponeTime` is needed
(`WifiIsOffBeforeSleep`). `SleepWaitsForCentrals` needs `CountIsRight`, a part of `TypeOK`: until a step of it is lost, the counter is the number of
centrals less the ends of scans, and what `loop()` has read of it is what it is. A counter at or below 0 then says how many centrals can be left.

**`HpsProofs`.** `HpsImplementsRemoteCall` is the refinement of `RemoteCall`. It rests on `HpsIInv`, which follows a
request through the variables of the device while the connection is up. Unless a write was lost, what was written so far is in `curUrl` and
`curBody` and nothing else is, because a URL clears what an earlier request left, lost writes or not (`PreparedInv`). Once a good
status can be read, the body is the reply of the one execution the request caused (`AnsweredInv`). What the client
has received is the part of it before the cursor (`CursorInv`), so that the empty read that ends a
call comes at its end. Every other step, a disconnect and a restart among them, maps to a stutter or to the loss of the call.

**`ModulesProofs`.** An invariant for each module.

- `ModeTool` (`ToolIInv`): while the tool waits, either there was a moment without mode and request, or the device
  has one of them. `status` is such a moment, which is what makes `ToolGivesUpOnLostRequest` hold although the
  tool compares two of its fields one after the other.
- `OtaSlots` (`OtaIInv`): after the slot was set, the first entry names it and the second is erased, so that the
  highest valid number is that of the slot (`OtaSetSlotBoots`).
- `LogBuffer` (`LogIInv`): `Place` gives the place of the k-th byte before `inp`, and `Kept` says that the bytes that were logged
  are there. Between the statements of a writer the reader's index is one behind or `inp` is past the end;
  `Holds` says what is true at each. `ShownByPlaces` then reads the two pieces of the ring as one sequence (`LogShowsLastBytes`).
- `Users` (`UsersIInv`): `UsersSurvive` is inductive once users are known to be a sequence of users. The work is in the
  functions: line `LineOf(i, j)` of a saved file is field j of user i and of no other (`SavedLines`, `LinesDiffer`), a
  file cut short loads users of which each field is the saved one or empty (`LoadedUserOfCut`), and loading ends at
  the first user without a name (`LoadedOfCut`). `AddingUsersKeepsRights`: a user that is added has the highest
  number, and the lowest that matches decides.
- `ModuleSettings` (`SettingsIInv`): what was saved is read back (`SavedIsLoaded`), since an entry whose name occurs once is
  found when all entries are one line (`ReadBack`). `SingleLinesSurvive` has that as its hypothesis, `SingleLines`;
  without it the property fails, for a certificate of two lines.
- `Inputs` (`InputIInv`): while a button that may switch is down, its press has changed the level just when it has repeated
  (`CallbackEffects` shows it of each callback). Hence `ReleaseSwitches`, and with the range of the level, `InputTypes`.
- `MCModules`: `ModulesImplementEach` shows that a behaviour of the composition is one of each module. The theorems
  above, and those of `BLEServerProofs`, `HpsProofs` and `BLEConnectionProofs`, therefore hold of
  what the run `modules` checks; `ModulesTypes` is one consequence.

TLC checked the inductive invariants on the instance of `modules` before they were proved.

*Model-checked only*: the liveness properties (`ReturnsToNormal`, `JoinsNetwork`, `DiscoveryHappens`, `SleepsInTheEnd`,
`AdvertisesInTheEnd`, `CallEnds`, `StablePinIsSeen`, `CyclesThrough`), because fairness and ENABLED are out of the
prover's reach, and the runs that end in a violation. Every other property of a passing run is a theorem; where a theorem has a
hypothesis (no failing radio calls, scan settings put at the start only, a watchdog that keeps
its interrupt, texts of one line), its run has it too.

## 6. What is not modelled

Components without a module are listed, with reasons, in `PROJECT.json`.
Left out for good: text formats and pages, the transports (HTTP, CoAP, NTP, OTA
libraries), example programs, build scripts, file upload and backup. Left out of the modules that exist: the
wrap-around of `millis()`, an empty host name in `config.cfg` (`iotsaConfig.cpp:268` makes it the default), races on single variables inside the handlers of `IotsaConfig` when a request arrives over
BLE, the crash of a `loop()` that uses `scanner` after a change of settings has cleared it, the isEnabled setting of
the BLE server, the maps of addresses and of unknown devices in the BLE client, voltages, CPU frequencies and wake-up sources of the battery module,
float values, touch pads and rotary encoders that are polled, the tokens of capabilities, requests that are refused, and the sending of a button's request.
