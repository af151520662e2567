------------------------------ MODULE IotsaConfig ------------------------------
(***************************************************************************)
(* The device-wide configuration object (iotsaConfig.cpp) and the module    *)
(* that serves it (iotsaConfigMod.cpp): how a configuration mode, an OTA    *)
(* mode or a factory reset is requested over the network, honoured after a  *)
(* proof of physical access, timed out, and carried over resets in          *)
(* /config/config.cfg.                                                      *)
(*                                                                          *)
(* Everything here runs in one loop() task, except that a request may also  *)
(* arrive in the task of the BLE stack: the handlers are actions that may   *)
(* come in any order.  The WiFi module appears only as far as it touches    *)
(* this object (WifiLoopStep, WifiConfigSaved, a boot's WiFi mode);         *)
(* IotsaWifi replaces those by the real thing and implements this module.   *)
(***************************************************************************)
EXTENDS Deadlines

CONSTANTS
  HostNames, DefaultHostName,
  Timeouts,       \* values of configurationModeTimeout, a setting
  ModeTimeout,    \* CONFIGURATION_MODE_TIMEOUT, also the setting's default
  RebootDelay,    \* longest argument of requestReboot()
  UserCauses,     \* resets taken for somebody at the device: power, reset button,
                  \* RTCWDT_RTC_RESET ("sometimes ... on pressing the reset button")
  OtherCauses,    \* the others: softwareReboot, other watchdogs, exceptions
  RadioDelay,     \* time from a wifiDisabled request to the radio switch
  Requests,       \* bodies of PUT /api/config
  Forms,          \* arguments of a form sent to /config
  None            \* an argument that is absent

VARIABLES
  phase,                        \* "running", or blocked in "factoryReset"
  bootCause,                    \* getBootReason()
  configurationMode,
  configurationModeEndTime,
  nextConfigurationMode,        \* the mode that was requested
  nextConfigurationModeEndTime,
  settings,                     \* the settings, as they are in RAM
  flash,                        \* what configLoad() would read from config.cfg
  wifiMode,
  wantWifiModeSwitchAt,
  rebootAt

modeVars == <<configurationMode, configurationModeEndTime,
              nextConfigurationMode, nextConfigurationModeEndTime>>
wifiVars == <<wifiMode, wantWifiModeSwitchAt>>
configVars == <<phase, bootCause, modeVars, settings, flash, wifiVars, rebootAt>>

--------------------------------------------------------------------------------

\* config_mode: a request may also hold an integer that is none of the four.
Modes == {"NORMAL", "CONFIG", "OTA", "FACTORY_RESET", "INVALID"}
SpecialModes == Modes \ {"NORMAL"}

WifiModes == {"DISABLED", "FACTORY", "NORMAL", "SEARCHING", "NOTFOUND"}

BootCauses == UserCauses \cup OtherCauses

Settings == [hostName : HostNames, configurationModeTimeout : Timeouts,
             wifiDisabledOnBoot : BOOLEAN]
DefaultSettings == [hostName |-> DefaultHostName,
                    configurationModeTimeout |-> ModeTimeout,
                    wifiDisabledOnBoot |-> FALSE]

\* config.cfg; a missing or empty file reads as the defaults.
ConfigFile == [mode : Modes, settings : Settings]
EmptyFile == [mode |-> "NORMAL", settings |-> DefaultSettings]

Optional(S) == S \cup {None}

PutRequest == [wifiDisabled : Optional(BOOLEAN), requestedMode : Optional(Modes),
               hostName : Optional(HostNames), modeTimeout : Optional(Timeouts),
               wifiDisabledOnBoot : Optional(BOOLEAN), reboot : BOOLEAN]
WebForm == [hostName : Optional(HostNames), rebootTimeout : Optional(Timeouts),
            wifiDisabledOnBoot : Optional(BOOLEAN), mode : Optional(Modes),
            factoryreset : BOOLEAN]

ASSUME ConfigAssumption ==
  /\ DefaultHostName \in HostNames
  /\ "power" \in UserCauses /\ "softwareReboot" \in OtherCauses
  /\ UserCauses \cap OtherCauses = {}
  /\ Timeouts \subseteq Nat
  /\ ModeTimeout \in Timeouts
  /\ RebootDelay \in Nat
  /\ RadioDelay \in Nat
  /\ None \notin HostNames /\ None \notin Timeouts
  /\ None \notin Modes /\ None \notin BOOLEAN
  /\ Requests \subseteq PutRequest
  /\ Forms \subseteq WebForm

\* The longest of the timeouts bounds both mode deadlines.
ModeDeadline == {Off} \cup {d \in Nat : \E t \in Timeouts : d <= After(t)}

--------------------------------------------------------------------------------
(* Booting. *)

\* Variant: the boot reason is not looked at.
ModeAtBootAnyCause(file, cause) == file.mode

\* The mode in flash is honoured only if the cause of the reset is one that is taken for
\* somebody at the device.
ModeAtBoot(file, cause) == IF cause \in UserCauses THEN file.mode ELSE "NORMAL"

\* setup() of the config module, as far as it decides about the mode: load
\* config.cfg and save it again without the mode that was in it.
Boot(file, cause) ==
  LET mode == ModeAtBoot(file, cause)
  IN /\ configurationMode' = mode
     /\ configurationModeEndTime' =
          IF mode = "NORMAL" THEN Off
          ELSE After(file.settings.configurationModeTimeout)
     /\ nextConfigurationMode' = "NORMAL"
     /\ nextConfigurationModeEndTime' = Off
     /\ settings' = file.settings
     /\ flash' = [file EXCEPT !.mode = "NORMAL"]
     /\ rebootAt' = Off
     /\ wantWifiModeSwitchAt' = Off
     /\ phase' = IF mode = "FACTORY_RESET" THEN "factoryReset" ELSE "running"
     /\ bootCause' = cause

\* What the WiFi module makes of its mode in its own setup(), which is not
\* reached when the boot ends in a factory reset.
WifiModeAtBoot ==
  wifiMode' \in IF phase' = "factoryReset" \/ settings'.wifiDisabledOnBoot
                THEN {"DISABLED"}
                ELSE {"FACTORY", "SEARCHING", "NORMAL"}

\* The device is reset, at any moment, with its files as they are.
Reset(cause) ==
  /\ Boot(flash, cause)
  /\ WifiModeAtBoot

\* The power fails while config.cfg is being written: the file was truncated
\* when it was opened.  A request that saves may be made at any time.
PowerLossWhileSaving ==
  /\ phase = "running"
  /\ Boot(EmptyFile, "power")
  /\ WifiModeAtBoot

\* The end of factoryReset(): the file system is formatted and the device
\* restarts, by itself or because the power is cut just then.
FactoryResetDone(cause) ==
  /\ phase = "factoryReset"
  /\ Boot(EmptyFile, cause)
  /\ WifiModeAtBoot

\* IotsaConfig::loop()
ConfigLoop ==
  /\ phase = "running"
  /\ Passed(rebootAt)
  /\ Boot(flash, "softwareReboot")
  /\ WifiModeAtBoot

--------------------------------------------------------------------------------
(* Configuration modes. *)

InConfigurationMode == configurationMode = "CONFIG"
InConfigurationOrFactoryMode == InConfigurationMode \/ wifiMode = "FACTORY"

\* Variant: a handler saves before it has changed the settings.
ConfigSaveTooEarly ==
  flash' = [mode |-> nextConfigurationMode', settings |-> settings]

\* configSave(): what is saved as the mode is the requested one, which a boot reads
\* as its configurationMode.
ConfigSave == flash' = [mode |-> nextConfigurationMode', settings |-> settings']

\* Variants: the file keeps the request, or the radio is not told.
EndConfigurationModeUnsaved ==
  /\ configurationMode' = "NORMAL" /\ configurationModeEndTime' = Off
  /\ nextConfigurationMode' = "NORMAL" /\ nextConfigurationModeEndTime' = Off
  /\ UNCHANGED <<settings, flash>>
  /\ wantWifiModeSwitchAt' = After(0)
EndConfigurationModeQuietly ==
  /\ configurationMode' = "NORMAL" /\ configurationModeEndTime' = Off
  /\ nextConfigurationMode' = "NORMAL" /\ nextConfigurationModeEndTime' = Off
  /\ UNCHANGED <<settings, wantWifiModeSwitchAt>>
  /\ ConfigSave

\* Ends the current mode and forgets the requested one.
EndConfigurationMode ==
  /\ configurationMode' = "NORMAL"
  /\ configurationModeEndTime' = Off
  /\ nextConfigurationMode' = "NORMAL"
  /\ nextConfigurationModeEndTime' = Off
  /\ settings' = settings
  /\ ConfigSave
  /\ wantWifiModeSwitchAt' = After(0)

\* Variant: a mode that never ends.
BeginConfigurationModeUntimed ==
  /\ configurationMode' = "CONFIG"
  /\ UNCHANGED configurationModeEndTime

\* A new device has just been given its network.
BeginConfigurationMode ==
  /\ configurationMode' = "CONFIG"
  /\ configurationModeEndTime' = After(ModeTimeout)

\* Variant: a request that nobody honours is not timed out.
CurrentModeExpired == Passed(configurationModeEndTime)

\* loop() of the config module ends both when the deadline of either has passed.
SomeModeExpired ==
  Passed(configurationModeEndTime) \/ Passed(nextConfigurationModeEndTime)

ConfigModLoop ==
  /\ phase = "running"
  /\ SomeModeExpired
  /\ EndConfigurationMode
  /\ UNCHANGED <<phase, bootCause, wifiMode, rebootAt>>

\* Variant: the interaction gives configuration mode to who asked for nothing.
AllowSomeConfigurationMode ==
  /\ phase = "running"
  /\ nextConfigurationMode # configurationMode
  /\ configurationMode' = IF nextConfigurationMode = "NORMAL" THEN "CONFIG"
                          ELSE nextConfigurationMode
  /\ configurationModeEndTime' = After(ModeTimeout)
  /\ nextConfigurationMode' = "NORMAL"
  /\ nextConfigurationModeEndTime' = Off
  /\ wantWifiModeSwitchAt' = After(0)
  /\ UNCHANGED <<phase, bootCause, settings, flash, wifiMode, rebootAt>>

\* The program saw its own proof of physical access (a button, a BLE command).
AllowRequestedConfigurationMode ==
  /\ phase = "running"
  /\ nextConfigurationMode # configurationMode
  /\ configurationMode' = nextConfigurationMode
  /\ configurationModeEndTime' = After(ModeTimeout)
  /\ nextConfigurationMode' = "NORMAL"
  /\ nextConfigurationModeEndTime' = Off
  /\ IF nextConfigurationMode = "FACTORY_RESET"
     THEN phase' = "factoryReset" /\ UNCHANGED wantWifiModeSwitchAt
     ELSE phase' = phase /\ wantWifiModeSwitchAt' = After(0)
  /\ UNCHANGED <<bootCause, settings, flash, wifiMode, rebootAt>>

\* Activity (an OTA upload in progress, a user of the battery module) extends
\* the current mode; the code does not look which mode that is.
ExtendCurrentMode ==
  /\ phase = "running"
  /\ configurationModeEndTime' = After(ModeTimeout)
  /\ UNCHANGED <<phase, bootCause, configurationMode, nextConfigurationMode,
                 nextConfigurationModeEndTime, settings, flash, wifiVars, rebootAt>>

\* requestReboot() by any other module.
RequestReboot ==
  /\ phase = "running"
  /\ rebootAt' = After(RebootDelay)
  /\ UNCHANGED <<phase, bootCause, modeVars, settings, flash, wifiVars>>

--------------------------------------------------------------------------------
(* Requests over the network. *)

\* Variant: an absent argument is taken for a value.
GivenOrNot(argument, value) == argument

\* getFromRequest(): an absent argument leaves the value as it is.
Given(argument, value) == IF argument = None THEN value ELSE argument

\* Variant: asking for configuration mode is enough.
MayPutSettingsOnceAsked ==
  \/ InConfigurationMode \/ wifiMode' = "FACTORY"
  \/ nextConfigurationMode' = "CONFIG"

\* The settings may be put in configuration or factory mode, which is judged after
\* the radio argument of the request has changed wifiMode.
MayPutSettings == InConfigurationMode \/ wifiMode' = "FACTORY"

\* PUT /api/config.  The radio and the mode may be asked for at any time.
PutConfig(req) ==
  LET asked == req.requestedMode \in SpecialModes
      anySetting == \/ req.hostName # None
                    \/ req.modeTimeout # None
                    \/ req.wifiDisabledOnBoot # None
  IN /\ phase = "running"
     /\ wifiMode' = CASE req.wifiDisabled = None -> wifiMode
                      [] req.wifiDisabled = TRUE -> "DISABLED"
                      [] OTHER -> "NORMAL"
     /\ wantWifiModeSwitchAt' = IF req.wifiDisabled = None THEN wantWifiModeSwitchAt
                                ELSE After(RadioDelay)
     /\ nextConfigurationMode' = Given(req.requestedMode, nextConfigurationMode)
     /\ nextConfigurationModeEndTime' =
          IF asked THEN After(settings.configurationModeTimeout)
          ELSE nextConfigurationModeEndTime
     /\ settings' =
          IF MayPutSettings
          THEN [hostName |-> Given(req.hostName, settings.hostName),
                configurationModeTimeout |->
                  Given(req.modeTimeout, settings.configurationModeTimeout),
                wifiDisabledOnBoot |->
                  Given(req.wifiDisabledOnBoot, settings.wifiDisabledOnBoot)]
          ELSE settings
     /\ IF asked \/ (MayPutSettings /\ anySetting) THEN ConfigSave ELSE flash' = flash
     /\ rebootAt' = IF req.reboot THEN After(RebootDelay) ELSE rebootAt
     /\ UNCHANGED <<phase, bootCause, configurationMode, configurationModeEndTime>>

\* The form on /config.  Mode 0 ("Enter normal mode after next reboot") is the
\* form's default and ignored; changing the timeout or the WiFi setting extends
\* configuration mode; a new host name also requests a reboot.
WebConfig(form) ==
  LET host == /\ form.hostName \notin {None, settings.hostName}
              /\ InConfigurationOrFactoryMode
      timeout == /\ form.rebootTimeout \notin {None, settings.configurationModeTimeout}
                 /\ InConfigurationMode
      wifi == /\ form.wifiDisabledOnBoot \notin {None, settings.wifiDisabledOnBoot}
              /\ InConfigurationMode
      asked == form.factoryreset \/ form.mode \in SpecialModes
  IN /\ phase = "running"
     /\ settings' =
          [hostName |-> IF host THEN form.hostName ELSE settings.hostName,
           configurationModeTimeout |->
             IF timeout THEN form.rebootTimeout ELSE settings.configurationModeTimeout,
           wifiDisabledOnBoot |->
             IF wifi THEN form.wifiDisabledOnBoot ELSE settings.wifiDisabledOnBoot]
     /\ configurationModeEndTime' = IF timeout \/ wifi THEN After(ModeTimeout)
                                    ELSE configurationModeEndTime
     /\ nextConfigurationMode' = CASE form.factoryreset -> "FACTORY_RESET"
                                   [] ~form.factoryreset /\ asked -> form.mode
                                   [] OTHER -> nextConfigurationMode
     /\ nextConfigurationModeEndTime' =
          IF asked THEN After(settings'.configurationModeTimeout)
          ELSE nextConfigurationModeEndTime
     /\ IF host \/ timeout \/ wifi \/ asked THEN ConfigSave ELSE flash' = flash
     /\ rebootAt' = IF host THEN After(RebootDelay) ELSE rebootAt
     /\ UNCHANGED <<phase, bootCause, configurationMode, wifiVars>>

--------------------------------------------------------------------------------
(* The WiFi module, as seen from here, and the clock. *)

\* configSave() of the WiFi module (a form or a PUT to /wificonfig): a device on
\* its factory network begins configuration mode; the PUT may ask for a reboot.
WifiConfigSaved ==
  /\ phase = "running"
  /\ InConfigurationOrFactoryMode
  /\ IF wifiMode = "FACTORY" THEN BeginConfigurationMode
     ELSE UNCHANGED <<configurationMode, configurationModeEndTime>>
  /\ wantWifiModeSwitchAt' = After(0)
  /\ rebootAt' \in {rebootAt, After(RebootDelay)}
  /\ UNCHANGED <<phase, bootCause, nextConfigurationMode, nextConfigurationModeEndTime,
                 settings, flash, wifiMode>>

\* loop() of the WiFi module: carries out a requested switch, follows the state
\* of the connection, and may give up on the radio and request a reboot.
WifiLoopStep ==
  /\ phase = "running"
  /\ wifiMode' \in WifiModes
  /\ wantWifiModeSwitchAt' = IF Passed(wantWifiModeSwitchAt) THEN Off
                             ELSE wantWifiModeSwitchAt
  /\ rebootAt' \in {rebootAt, After(RebootDelay)}
  /\ UNCHANGED <<phase, bootCause, modeVars, settings, flash>>

\* millis() advances, while the loop() task is not blocked in a factory reset.
Tick ==
  /\ phase = "running"
  /\ configurationModeEndTime' = Ticked(configurationModeEndTime)
  /\ nextConfigurationModeEndTime' = Ticked(nextConfigurationModeEndTime)
  /\ wantWifiModeSwitchAt' = Ticked(wantWifiModeSwitchAt)
  /\ rebootAt' = Ticked(rebootAt)
  /\ UNCHANGED <<phase, bootCause, configurationMode, nextConfigurationMode,
                 settings, flash, wifiMode>>

--------------------------------------------------------------------------------

\* A device fresh from the factory, switched on for the first time.
Init ==
  /\ phase = "running" /\ bootCause = "power"
  /\ configurationMode = "NORMAL" /\ configurationModeEndTime = Off
  /\ nextConfigurationMode = "NORMAL" /\ nextConfigurationModeEndTime = Off
  /\ settings = DefaultSettings
  /\ flash = EmptyFile
  /\ wifiMode = "FACTORY" /\ wantWifiModeSwitchAt = Off
  /\ rebootAt = Off

\* What users, programs and power supplies do; none of it has to happen.
ConfigUserStep ==
  \/ \E cause \in BootCauses : Reset(cause)
  \/ PowerLossWhileSaving
  \/ AllowRequestedConfigurationMode
  \/ ExtendCurrentMode
  \/ RequestReboot
  \/ \E req \in Requests : PutConfig(req)
  \/ \E form \in Forms : WebConfig(form)
UserStep == ConfigUserStep \/ WifiConfigSaved

\* What the device does by itself.
ConfigStep ==
  \/ ConfigLoop
  \/ ConfigModLoop
  \/ \E cause \in BootCauses : FactoryResetDone(cause)
DeviceStep == ConfigStep \/ WifiLoopStep \/ Tick

Next == UserStep \/ DeviceStep

Spec == Init /\ [][Next]_configVars

\* loop() keeps being called and time passes, so what a module's loop() would do
\* is done; FactoryResetDone is the end of code that is already running.
Fairness ==
  /\ WF_configVars(ConfigLoop)
  /\ WF_configVars(ConfigModLoop)
  /\ WF_configVars(\E cause \in BootCauses : FactoryResetDone(cause))
  /\ WF_configVars(Tick)

FairSpec == Spec /\ Fairness

--------------------------------------------------------------------------------
(* Correctness. *)

TypeOK ==
  /\ phase \in {"running", "factoryReset"}
  /\ bootCause \in BootCauses
  /\ configurationMode \in Modes
  /\ configurationModeEndTime \in ModeDeadline
  /\ nextConfigurationMode \in Modes
  /\ nextConfigurationModeEndTime \in ModeDeadline
  /\ settings \in Settings
  /\ flash \in ConfigFile
  /\ wifiMode \in WifiModes
  /\ wantWifiModeSwitchAt \in Deadline(RadioDelay)
  /\ rebootAt \in Deadline(RebootDelay)

\* A request that lies in flash, waiting for a power cycle, is backed by an armed
\* deadline at whose passing loop() takes it out of flash again ("If nothing
\* happens during this period the server reverts to normal mode", README.md:473).
\* This is what keeps a forgotten request from being granted by a power cut
\* months later.
FlashedRequestExpires ==
  flash.mode # "NORMAL" =>
    Armed(configurationModeEndTime) \/ Armed(nextConfigurationModeEndTime)

\* Every special mode the device is in, and every request it remembers, has an
\* armed deadline (README.md:473: "for another few minutes").
ModesExpire ==
  phase = "running" =>
    /\ configurationMode # "NORMAL" => Armed(configurationModeEndTime)
    /\ nextConfigurationMode # "NORMAL" => Armed(nextConfigurationModeEndTime)

\* What is in RAM is in flash: whatever order requests, forms, mode changes and
\* resets come in, no handler changes a setting without saving it, and no save
\* writes anything but the settings in use.
SettingsSaved == flash.settings = settings

\* A special mode is entered only with a proof of physical access: by a reset
\* taken to be made by somebody at the device, for the mode then in flash; by the program's
\* own interaction, for the requested mode; or by giving a device on its factory
\* network a WiFi network (README.md:475, iotsaConfigMod.cpp:36-39).
EntryNeedsPhysicalAccess ==
  [][ configurationMode' \notin {"NORMAL", configurationMode} =>
        \/ /\ \E cause \in UserCauses : Reset(cause)
           /\ configurationMode' = flash.mode
           /\ flash'.mode = "NORMAL"
        \/ /\ AllowRequestedConfigurationMode
           /\ configurationMode' = nextConfigurationMode
        \/ wifiMode = "FACTORY" /\ configurationMode' = "CONFIG" ]_configVars

\* Settings change only while the device is in configuration or factory mode, or
\* get lost altogether: a request cannot slip a setting in together with a mode
\* request or a radio request.
SettingsGuarded ==
  [][ settings' # settings =>
        InConfigurationOrFactoryMode \/ settings' = DefaultSettings ]_configVars

\* Left alone, the device ends up in normal mode with no request pending, in RAM
\* or in flash, whatever was requested, entered, extended or interrupted before.
ReturnsToNormal ==
  (<>[][~UserStep]_configVars) =>
    <>[](/\ configurationMode = "NORMAL"
         /\ nextConfigurationMode = "NORMAL"
         /\ flash.mode = "NORMAL")

\* The device implements the two-step gate its documentation promises.
PendingModes == {flash.mode, nextConfigurationMode} \ {"NORMAL"}
Gate == INSTANCE ModeGate WITH
          Modes <- Modes, Normal <- "NORMAL", Config <- "CONFIG",
          mode <- configurationMode, pending <- PendingModes,
          factory <- (wifiMode = "FACTORY")
ImplementsGate == Gate!GateSpec
================================================================================
