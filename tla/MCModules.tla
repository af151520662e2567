------------------------------- MODULE MCModules -------------------------------
(***************************************************************************)
(* One instance for TLC of the modules whose components do not act on each   *)
(* other: each behaviour is a behaviour of one of them, the subject, while   *)
(* the others stay as they are at first.  The states are the sum of those of *)
(* the modules, not their product.                                           *)
(*                                                                           *)
(* For Hps a read or write carries two units, a stream one at a time.  The   *)
(* calls are a GET, and a PUT of a body that fits one write or does not,     *)
(* each with and without chunking; there is no provider of /b.               *)
(***************************************************************************)
EXTENDS BLEServer, Hps, BLEConnection, Inputs, ModuleSettings, Users, LogBuffer, OtaSlots,
        ModeTool

VARIABLE subject

Subjects == {"server", "hps", "connection", "inputs", "settings", "users", "log", "ota", "tool"}
On(s) == subject = s

modulesVars == <<subject, serverVars, hpsVars, connVars, inputVars, settingsVars, userVars,
                 logVars, otaVars, toolVars>>

MCDurations == {0, 1}
MCCalls ==
  [method : {"GET"}, url : {"/a", "/b"}, body : {NoBody}, chunking : BOOLEAN]
  \cup [method : {"PUT"}, url : {"/a"}, body : {<<1, 2>>, <<3, 4, 5>>}, chunking : BOOLEAN]
MCReplies == {<<6>>, <<7, 8, 9>>}
MCProviders == {<<"GET", "/a">>, <<"PUT", "/a">>}
MCTextValues == {<<"">>, <<"x">>}
MCRights == {"r1"}
MCUserRights == {AllRights, NoText, MCRights}

\* A module that is not the subject has one initial state.
ModulesInit ==
  /\ subject \in Subjects
  /\ Init /\ HpsInit /\ ConnectionInit /\ InputInit /\ SettingsInit /\ UsersInit
  /\ LogInit /\ OtaInit /\ ToolInit
  /\ On("hps") \/ curHttpStatus = 200
  /\ On("server") \/ bleMode = "ENABLED"
  /\ On("inputs") \/ inputKind = "CyclingButton"
  /\ On("settings") \/ settingsOf = "buttons"
  /\ On("log") \/ (~magic /\ inp = 0 /\ outp = 0 /\ \A i, j \in DOMAIN buffer : buffer[i] = buffer[j]
                   /\ buffer[0] = CHOOSE b \in LoggedBytes : TRUE)
  /\ On("tool") \/ (device.currentMode = NormalMode /\ device.requestedMode = NormalMode)

ModulesNext ==
  /\ UNCHANGED subject
  /\ IF On("server") THEN Next ELSE UNCHANGED serverVars
  /\ IF On("hps") THEN HpsNext ELSE UNCHANGED hpsVars
  /\ IF On("connection") THEN ConnectionNext ELSE UNCHANGED connVars
  /\ IF On("inputs") THEN InputNext ELSE UNCHANGED inputVars
  /\ IF On("settings") THEN SettingsNext ELSE UNCHANGED settingsVars
  /\ IF On("users") THEN UsersNext ELSE UNCHANGED userVars
  /\ IF On("log") THEN LogNext ELSE UNCHANGED logVars
  /\ IF On("ota") THEN OtaNext ELSE UNCHANGED otaVars
  /\ IF On("tool") THEN ToolNext ELSE UNCHANGED toolVars

\* The fairness of each module, for its own behaviours.
ModulesFairness ==
  /\ WF_serverVars(On("server") /\ LoopSwitchesMode)
  /\ WF_serverVars(On("server") /\ LoopRetries)
  /\ \A t \in Tasks : WF_serverVars(On("server") /\ Note(t))
  /\ WF_serverVars(On("server") /\ Tick)
  /\ WF_hpsVars(On("hps") /\ RequestStep)
  /\ \A b \in Pins : WF_inputVars(On("inputs") /\ b \in ButtonsOf(inputKind) /\ ButtonLoop(b))
  /\ WF_inputVars(On("inputs") /\ EncoderLoop)
  /\ WF_inputVars(On("inputs") /\ InputTick)

ModulesSpec == ModulesInit /\ [][ModulesNext]_modulesVars /\ ModulesFairness

ModulesTypeOK == TypeOK /\ HpsTypeOK /\ ConnectionTypeOK /\ InputTypeOK
================================================================================
