-------------------------------- MODULE ModeTool -------------------------------
(***************************************************************************)
(* How the command-line tool asks a device for a mode (api.py): gotoMode()   *)
(* puts a request for the mode and may wait for the user to make the device  *)
(* go there, reading the device's config endpoint, of which IotsaEndpoint    *)
(* keeps what was loaded.  A request that meets no connection is made again  *)
(* (protocols/http.py); it may have been carried out.  Of the device there   *)
(* is what IotsaConfig has more of: its mode and the mode it was asked for.  *)
(***************************************************************************)
EXTENDS Naturals

CONSTANTS
  DeviceModes, NormalMode,
  MaxRetries             \* retryCount of request()

VARIABLES
  device,                \* [currentMode, requestedMode]
  status, didLoad,       \* of the config endpoint
  gotoAt,                \* where the tool is in gotoMode()
  wanted, waits,         \* the arguments of gotoMode()
  retriesLeft,
  answered,              \* what the latest gotoMode() came to
  missed                 \* history: since it was put, neither mode nor request was there

toolVars == <<device, status, didLoad, gotoAt, wanted, waits, retriesLeft, answered, missed>>
argVars == <<wanted, waits>>

ASSUME ToolAssumption == NormalMode \in DeviceModes /\ MaxRetries \in Nat

DeviceState == [currentMode : DeviceModes, requestedMode : DeviceModes]

Missed(d) == wanted \notin {d.currentMode, d.requestedMode}

Answer(answer) ==
  /\ gotoAt' = "none" /\ answered' = answer
  /\ UNCHANGED <<argVars, retriesLeft>>

--------------------------------------------------------------------------------
(* IotsaEndpoint *)

\* Variant: nothing is kept.
LoadedAlways == device

\* load()
Loaded == IF didLoad THEN status ELSE device

Load == status' = Loaded /\ didLoad' = TRUE
Flush == didLoad' = FALSE /\ UNCHANGED status

\* Another command reads the endpoint.
ReadsConfig ==
  /\ gotoAt = "none"
  /\ Load
  /\ UNCHANGED <<device, gotoAt, argVars, retriesLeft, answered, missed>>

--------------------------------------------------------------------------------
(* gotoMode() *)

Asks(mode, wait) ==
  /\ gotoAt = "none"
  /\ wanted' = mode /\ waits' = wait
  /\ Load
  /\ IF Loaded.currentMode = mode
     THEN gotoAt' = "none" /\ answered' = "already" /\ UNCHANGED retriesLeft
     ELSE gotoAt' = "puts" /\ answered' = "none" /\ retriesLeft' = MaxRetries
  /\ missed' = FALSE
  /\ UNCHANGED device

\* commit(): the mode is put, and the caller is asked to intervene, by an exception
\* (unless it is verbose, or the mode is normal mode) or not.
Puts ==
  /\ gotoAt = "puts"
  /\ Flush
  /\ device' = [device EXCEPT !.requestedMode = wanted]
  /\ \/ Answer("raised") /\ wanted # NormalMode
     \/ Answer("asked") /\ ~waits
     \/ waits /\ gotoAt' = "waits" /\ UNCHANGED <<argVars, retriesLeft, answered>>
  /\ missed' = FALSE

\* request(): no connection, or it was lost before the reply.
PutUnanswered ==
  /\ gotoAt = "puts"
  /\ Flush
  /\ \/ UNCHANGED device
     \/ device' = [device EXCEPT !.requestedMode = wanted]
  /\ IF retriesLeft > 0
     THEN retriesLeft' = retriesLeft - 1 /\ UNCHANGED <<gotoAt, argVars, answered>>
     ELSE Answer("raised")
  /\ UNCHANGED missed

\* The loop reads the mode of what it loads, and then the request.
PollsMode ==
  /\ gotoAt = "waits"
  /\ status' = device /\ didLoad' = TRUE
  /\ IF device.currentMode = wanted
     THEN Answer("there")
     ELSE gotoAt' = "compares" /\ UNCHANGED <<argVars, retriesLeft, answered>>
  /\ UNCHANGED <<device, missed>>

PollsRequest ==
  /\ gotoAt = "compares"
  /\ Load
  /\ IF Loaded.requestedMode # wanted
     THEN Answer("gone")
     ELSE gotoAt' = "waits" /\ UNCHANGED <<argVars, retriesLeft, answered>>
  /\ UNCHANGED <<device, missed>>

\* A poll that meets no connection.
PollRaises ==
  /\ gotoAt = "waits"
  /\ Flush
  /\ Answer("raised")
  /\ UNCHANGED <<device, missed>>

--------------------------------------------------------------------------------
(* The device, its user and its other clients. *)

DeviceGoes(d) ==
  /\ device' = d
  /\ missed' = (missed \/ (gotoAt \in {"waits", "compares"} /\ Missed(d)))
  /\ UNCHANGED <<status, didLoad, gotoAt, argVars, retriesLeft, answered>>

\* The requested mode starts, a mode or a request ends, another client asks.
DeviceEnters ==
  /\ device.requestedMode # NormalMode
  /\ DeviceGoes([currentMode |-> device.requestedMode, requestedMode |-> NormalMode])
DeviceModeEnds == DeviceGoes([device EXCEPT !.currentMode = NormalMode])
DeviceRequestEnds == DeviceGoes([device EXCEPT !.requestedMode = NormalMode])
OtherClientAsks == \E m \in DeviceModes : DeviceGoes([device EXCEPT !.requestedMode = m])

ToolInit ==
  /\ device \in DeviceState /\ status = device /\ didLoad = FALSE
  /\ gotoAt = "none" /\ wanted = NormalMode /\ waits = FALSE
  /\ retriesLeft = 0 /\ answered = "none" /\ missed = FALSE

ToolNext ==
  \/ ReadsConfig
  \/ \E mode \in DeviceModes, wait \in BOOLEAN : Asks(mode, wait)
  \/ Puts \/ PutUnanswered \/ PollsMode \/ PollsRequest \/ PollRaises
  \/ DeviceEnters \/ DeviceModeEnds \/ DeviceRequestEnds \/ OtherClientAsks

ToolSpec == ToolInit /\ [][ToolNext]_toolVars

--------------------------------------------------------------------------------

\* gotoMode() only gives up on a request that was really lost: a device that goes to
\* the mode between the two looks at it, and has no request any more, is never taken
\* for one that was asked for something else.
GivesUpOnLostRequest == answered = "gone" => missed
================================================================================
