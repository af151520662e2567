----------------------------- MODULE ModuleSettings ----------------------------
(***************************************************************************)
(* The settings of four optional modules, in memory and in their files:     *)
(* the URL that a button requests and when (iotsaButton.cpp,                *)
(* iotsaRequest.cpp), the issuer of capabilities (iotsaCapabilities.cpp),   *)
(* the one user (iotsaUser.cpp) and the clock (iotsaNtp.cpp).  They are     *)
(* changed by a REST request, which names the fields it sets, or by a web   *)
(* form, saved, and loaded again when the device restarts.  Each module     *)
(* works for itself: a behaviour is one of one module, with one button.     *)
(*                                                                          *)
(* Requests are those that are not refused for want of authentication,      *)
(* configuration mode or the old password: a refused one changes nothing,   *)
(* except that a form may change a name although it may not the password.   *)
(* Values of a form hold no percent signs.  What a button sends, and the    *)
(* use that is made of the settings, is left out.                           *)
(***************************************************************************)
EXTENDS ConfigFile

CONSTANTS
  TextValues,     \* of fields that hold a text: sequences of lines
  RootCAs,        \* of rootCA: sequences of lines, too
  NoValue         \* of an argument that a request does not have

Empty == <<"">>

ASSUME SettingsAssumption ==
  TextValues \cup RootCAs \subseteq Seq(STRING) \ {<<>>} /\ Empty \in TextValues \cap RootCAs

SettingsModules == {"buttons", "capabilities", "users", "ntp"}

VARIABLES
  settingsOf,     \* the module
  settings,       \* its fields, in memory
  settingsFile

settingsVars == <<settingsOf, settings, settingsFile>>

--------------------------------------------------------------------------------
(* Fields, and the file. *)

\* The fields that hold a text, in the order they are saved.
RequestFields == <<"url", "rootCA", "credentials", "token">>
CapabilityFields == <<"issuer", "key">>
UserFields == <<"user", "password">>
ClockFields == <<"ntpServer", "tzDescription">>

TextFields ==
  [buttons |-> RequestFields, capabilities |-> CapabilityFields, users |-> UserFields,
   ntp |-> ClockFields]

DefaultOf(field) ==
  CASE field = "ntpServer" -> <<"pool.ntp.org">>
    [] field = "tzDescription" -> <<"0">>
    [] field = "user" -> <<"admin">>        \* of the application
    [] OTHER -> Empty

FlagFields(m) == IF m = "buttons" THEN {"sendOnPress", "sendOnRelease"} ELSE {}
Fields(m) == Range(TextFields[m]) \cup FlagFields(m)

\* Variant: a release alone is written as a change.
SendOnWordOfRelease(s) ==
  IF s.sendOnPress \/ s.sendOnRelease
  THEN IF s.sendOnRelease THEN "change" ELSE "press"
  ELSE "none"

SendOnWord(s) ==
  CASE s.sendOnPress /\ s.sendOnRelease -> "change"
    [] s.sendOnPress /\ ~s.sendOnRelease -> "press"
    [] ~s.sendOnPress /\ s.sendOnRelease -> "release"
    [] OTHER -> "none"

PressWords == {"press", "change"}
ReleaseWords == {"release", "change"}

\* configSave()
SavedSettings(m, s) ==
  [i \in DOMAIN TextFields[m] |-> Entry(TextFields[m][i], s[TextFields[m][i]])]
    \o (IF m = "buttons" THEN <<Entry("on", <<SendOnWord(s)>>)>> ELSE <<>>)

\* configLoad()
LoadedSettings(m, file) ==
  [f \in Fields(m) |->
     CASE f = "sendOnPress" -> Head(GetValue(file, "on", Empty)) \in PressWords
       [] f = "sendOnRelease" -> Head(GetValue(file, "on", Empty)) \in ReleaseWords
       [] OTHER -> GetValue(file, f, DefaultOf(f))]

Change(s) == settings' = s /\ UNCHANGED settingsOf
Save == settingsFile' = SavedSettings(settingsOf, settings')

--------------------------------------------------------------------------------
(* REST: a field that the request has, with a value of the right type, is set; the file *)
(* is written when there was one. *)

ValuesOf(field) ==
  CASE field \in FlagFields(settingsOf) -> BOOLEAN
    [] field = "rootCA" -> RootCAs
    [] OTHER -> TextValues

\* Several fields in one request are set as in several requests.
PutField(field, value) ==
  /\ value \in ValuesOf(field)
  /\ Change([settings EXCEPT ![field] = value])
  /\ Save

\* The module of buttons hands the fields of the request on.
PutSendOn(flag, value) ==
  settingsOf = "buttons" /\ flag \in FlagFields("buttons") /\ PutField(flag, value)

PutRequest(field, value) ==
  settingsOf = "buttons" /\ field \in Range(RequestFields) /\ PutField(field, value)

PutCapabilities(field, value) ==
  settingsOf = "capabilities" /\ field \in Range(CapabilityFields) /\ PutField(field, value)

PutUserField(field, value) ==
  settingsOf = "users" /\ field \in Range(UserFields) /\ PutField(field, value)

PutClock(field, value) ==
  settingsOf = "ntp" /\ field \in Range(ClockFields) /\ PutField(field, value)

(* The forms. *)

\* A word that is not known means never; the argument "on" of the form.
FormSendOn(word) ==
  /\ settingsOf = "buttons"
  /\ Change([settings EXCEPT !.sendOnPress = word \in PressWords,
                             !.sendOnRelease = word \in ReleaseWords])
  /\ Save

\* The forms of a request and of the clock set any of their fields.
FormRequest(field, value) ==
  /\ settingsOf = "buttons" /\ field \in Range(RequestFields)
  /\ Change([settings EXCEPT ![field] = value])
  /\ Save

FormClock(field, value) ==
  /\ settingsOf = "ntp" /\ field \in Range(ClockFields)
  /\ Change([settings EXCEPT ![field] = value])
  /\ Save

\* Both are sent; the one that is empty is left as it is.
FormCapabilities(issuer, key) ==
  /\ settingsOf = "capabilities"
  /\ issuer # Empty \/ key # Empty
  /\ Change([issuer |-> IF issuer = Empty THEN settings.issuer ELSE issuer,
             key |-> IF key = Empty THEN settings.key ELSE key])
  /\ Save

\* The password changes when the old one was given, and the new one twice; the name
\* changes either way, except to nothing.
FormUser(user, password) ==
  /\ settingsOf = "users"
  /\ user # settings.user \/ password # NoValue
  /\ Change([user |-> IF user = Empty THEN settings.user ELSE user,
             password |-> IF password = NoValue THEN settings.password ELSE password])
  /\ Save

(* The device restarts, between two requests or in a save. *)

SettingsLoaded(file) ==
  /\ settingsFile' = file
  /\ Change(LoadedSettings(settingsOf, file))

SettingsRestart == SettingsLoaded(settingsFile)

SettingsSaveCutShort ==
  \E file \in CutShort(SavedSettings(settingsOf, settings)) : SettingsLoaded(file)

--------------------------------------------------------------------------------

SettingsInit ==
  /\ settingsOf \in SettingsModules
  /\ settingsFile = <<>>
  /\ settings = LoadedSettings(settingsOf, settingsFile)

SettingsNext ==
  \/ \E field \in Fields(settingsOf) : \E value \in ValuesOf(field) :
       \/ PutSendOn(field, value) \/ PutRequest(field, value) \/ PutCapabilities(field, value)
       \/ PutUserField(field, value) \/ PutClock(field, value)
       \/ FormRequest(field, value) \/ FormClock(field, value)
  \/ \E word \in {"press", "release", "change", "none"} : FormSendOn(word)
  \/ \E issuer, key \in TextValues : FormCapabilities(issuer, key)
  \/ \E user \in TextValues, password \in TextValues \cup {NoValue} : FormUser(user, password)
  \/ SettingsRestart \/ SettingsSaveCutShort

SettingsSpec == SettingsInit /\ [][SettingsNext]_settingsVars

--------------------------------------------------------------------------------
(* Correctness. *)

\* Whatever requests, forms, restarts and interrupted saves came before, a restart
\* brings back the settings that are in force: each path that changes a setting saves
\* it, and what is saved is read back as it was (configSave() and configLoad() of the
\* four modules).
SettingsSurvive == LoadedSettings(settingsOf, settingsFile) = settings
================================================================================
