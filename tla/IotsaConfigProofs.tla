--------------------------- MODULE IotsaConfigProofs ---------------------------
(***************************************************************************)
(* Proofs about IotsaConfig, for all host names, timeouts and requests.     *)
(* IInv, the conjunction of the invariants that TLC checks, is inductive.   *)
(***************************************************************************)
EXTENDS IotsaConfig, TLAPS

IInv ==
  /\ TypeOK
  /\ FlashedRequestExpires
  /\ ModesExpire
  /\ SettingsSaved

--------------------------------------------------------------------------------
(* Deadlines. *)

\* A deadline that a handler arms with one of the timeouts is a mode deadline, it
\* is armed, and letting time pass keeps it both.
LEMMA ModeDeadlines ==
  /\ Off \in ModeDeadline
  /\ \A t \in Timeouts : After(t) \in ModeDeadline /\ Armed(After(t))
  /\ \A d \in ModeDeadline :
       Ticked(d) \in ModeDeadline /\ (Armed(Ticked(d)) <=> Armed(d))
  BY ConfigAssumption DEF ModeDeadline, After, Off, Ticked, Armed

\* The same for the other two deadlines.
LEMMA ShortDeadlines ==
  ASSUME NEW max \in Nat
  PROVE  /\ Off \in Deadline(max)
         /\ After(max) \in Deadline(max)
         /\ After(0) \in Deadline(max)
         /\ \A d \in Deadline(max) : Ticked(d) \in Deadline(max)
  BY DEF Deadline, After, Off, Ticked

\* Saving the mode that was asked for together with the settings makes a file.
LEMMA FilesAreRecords ==
  ASSUME NEW m \in Modes, NEW s \in Settings
  PROVE  /\ [mode |-> m, settings |-> s] \in ConfigFile
         /\ [mode |-> m, settings |-> s].mode = m
         /\ [mode |-> m, settings |-> s].settings = s
  BY DEF ConfigFile

LEMMA DefaultsAreSettings == EmptyFile \in ConfigFile
  BY ConfigAssumption DEF EmptyFile, ConfigFile, DefaultSettings, Settings, Modes

--------------------------------------------------------------------------------
(* The initial state, and resets. *)

LEMMA InitIInv == Init => IInv
  <1> SUFFICES ASSUME Init PROVE IInv
    OBVIOUS
  <1>1. TypeOK
    BY ModeDeadlines, ShortDeadlines, DefaultsAreSettings, ConfigAssumption
       DEF Init, TypeOK, EmptyFile, ConfigFile, Modes, WifiModes, BootCauses
  <1>2. FlashedRequestExpires /\ ModesExpire /\ SettingsSaved
    BY DEF Init, FlashedRequestExpires, ModesExpire, SettingsSaved, EmptyFile
  <1> QED
    BY <1>1, <1>2 DEF IInv

\* However the device got down and whatever file it finds, it comes up in a state
\* of the invariant, with no request left in flash.
LEMMA BootIInv ==
  ASSUME NEW file \in ConfigFile, NEW cause \in BootCauses,
         Boot(file, cause), WifiModeAtBoot
  PROVE  IInv' /\ flash'.mode = "NORMAL"
  <1>1. file.mode \in Modes /\ file.settings \in Settings
        /\ file.settings.configurationModeTimeout \in Timeouts
    BY DEF ConfigFile, Settings
  <1>2. configurationMode' \in Modes
    BY <1>1 DEF Boot, ModeAtBoot, Modes
  <1>3. /\ configurationModeEndTime' \in ModeDeadline
        /\ configurationMode' # "NORMAL" => Armed(configurationModeEndTime')
    BY <1>1, ModeDeadlines DEF Boot, ModeAtBoot
  <1>4. /\ flash' \in ConfigFile /\ flash'.mode = "NORMAL"
        /\ flash'.settings = settings' /\ settings' \in Settings
    BY <1>1 DEF Boot, ModeAtBoot, ConfigFile, Modes
  <1>5. /\ nextConfigurationMode' = "NORMAL"
        /\ nextConfigurationModeEndTime' \in ModeDeadline
        /\ wantWifiModeSwitchAt' \in Deadline(RadioDelay)
        /\ rebootAt' \in Deadline(RebootDelay)
        /\ phase' \in {"running", "factoryReset"}
        /\ bootCause' \in BootCauses
    BY ModeDeadlines, ShortDeadlines, ConfigAssumption DEF Boot, ModeAtBoot
  <1>6. wifiMode' \in WifiModes
    BY DEF WifiModeAtBoot, WifiModes
  <1>7. TypeOK'
    BY <1>2, <1>3, <1>4, <1>5, <1>6 DEF TypeOK, Modes
  <1>8. FlashedRequestExpires' /\ ModesExpire' /\ SettingsSaved'
    BY <1>3, <1>4, <1>5 DEF FlashedRequestExpires, ModesExpire, SettingsSaved
  <1> QED
    BY <1>4, <1>7, <1>8 DEF IInv

--------------------------------------------------------------------------------
(* The steps of the running device. *)

LEMMA ConfigModLoopIInv ==
  ASSUME IInv, ConfigModLoop
  PROVE  IInv'
  <1> USE DEF IInv
  <1>1. flash' \in ConfigFile /\ flash'.mode = "NORMAL" /\ flash'.settings = settings
    BY FilesAreRecords DEF ConfigModLoop, EndConfigurationMode, ConfigSave, TypeOK, Modes
  <1>2. TypeOK'
    BY <1>1, ModeDeadlines, ShortDeadlines, ConfigAssumption
       DEF ConfigModLoop, EndConfigurationMode, ConfigSave, TypeOK, Modes
  <1>3. FlashedRequestExpires' /\ ModesExpire' /\ SettingsSaved'
    BY <1>1 DEF ConfigModLoop, EndConfigurationMode, ConfigSave,
               FlashedRequestExpires, ModesExpire, SettingsSaved
  <1> QED
    BY <1>2, <1>3

LEMMA AllowIInv ==
  ASSUME IInv, AllowRequestedConfigurationMode
  PROVE  IInv'
  <1> USE DEF IInv, AllowRequestedConfigurationMode
  <1>1. After(ModeTimeout) \in ModeDeadline /\ Armed(After(ModeTimeout))
    BY ModeDeadlines, ConfigAssumption
  <1>2. wantWifiModeSwitchAt' \in Deadline(RadioDelay)
    BY ShortDeadlines, ConfigAssumption DEF TypeOK
  <1>3. TypeOK'
    BY <1>1, <1>2, ModeDeadlines DEF TypeOK, Modes
  <1>4. FlashedRequestExpires' /\ ModesExpire' /\ SettingsSaved'
    BY <1>1 DEF FlashedRequestExpires, ModesExpire, SettingsSaved
  <1> QED
    BY <1>3, <1>4

LEMMA ExtendIInv ==
  ASSUME IInv, ExtendCurrentMode
  PROVE  IInv'
  <1>1. After(ModeTimeout) \in ModeDeadline /\ Armed(After(ModeTimeout))
    BY ModeDeadlines, ConfigAssumption
  <1> QED
    BY <1>1 DEF IInv, ExtendCurrentMode, TypeOK, FlashedRequestExpires, ModesExpire,
                SettingsSaved, wifiVars

\* A request saves the requested mode only together with a deadline for it, and
\* any setting that it changes.
LEMMA PutConfigIInv ==
  ASSUME IInv, NEW req \in Requests, PutConfig(req)
  PROVE  IInv'
  <1> USE DEF IInv
  <1>1. req \in PutRequest
    BY ConfigAssumption
  <1>2. settings' \in Settings
    BY <1>1 DEF PutConfig, MayPutSettings, ConfigSave, Given, TypeOK,
               Settings, PutRequest, Optional
  <1>3. nextConfigurationMode' \in Modes
    BY <1>1 DEF PutConfig, MayPutSettings, ConfigSave, Given, TypeOK,
               PutRequest, Optional
  <1>4. /\ nextConfigurationModeEndTime' \in ModeDeadline
        /\ nextConfigurationMode' # "NORMAL" => Armed(nextConfigurationModeEndTime')
    <2>1. After(settings.configurationModeTimeout) \in ModeDeadline
          /\ Armed(After(settings.configurationModeTimeout))
      BY ModeDeadlines DEF TypeOK, Settings
    <2> QED
      BY <1>1, <2>1
         DEF PutConfig, MayPutSettings, ConfigSave, Given, TypeOK,
               ModesExpire, SpecialModes, PutRequest, Optional
  <1>5. \/ flash' = flash /\ settings' = settings
        \/ flash' = [mode |-> nextConfigurationMode', settings |-> settings']
    BY <1>1 DEF PutConfig, MayPutSettings, ConfigSave, Given, TypeOK, Settings
  <1>6. flash' \in ConfigFile /\ flash'.settings = settings'
    BY <1>2, <1>3, <1>5, FilesAreRecords DEF TypeOK, SettingsSaved
  <1>7. wifiMode' \in WifiModes
    BY DEF PutConfig, MayPutSettings, ConfigSave, TypeOK, WifiModes
  <1>8. /\ wantWifiModeSwitchAt' \in Deadline(RadioDelay)
        /\ rebootAt' \in Deadline(RebootDelay)
    BY ShortDeadlines, ConfigAssumption DEF PutConfig, MayPutSettings, ConfigSave, TypeOK
  <1>9. TypeOK'
    BY <1>2, <1>3, <1>4, <1>6, <1>7, <1>8 DEF PutConfig, MayPutSettings, ConfigSave, TypeOK
  <1>10. ModesExpire' /\ SettingsSaved'
    BY <1>4, <1>6 DEF PutConfig, MayPutSettings, ConfigSave, ModesExpire,
               SettingsSaved
  <1>11. FlashedRequestExpires'
    <2>1. CASE flash' = flash
      BY <2>1, <1>4 DEF PutConfig, MayPutSettings, ConfigSave, FlashedRequestExpires
    <2>2. CASE flash' = [mode |-> nextConfigurationMode', settings |-> settings']
      BY <2>2, <1>4 DEF FlashedRequestExpires
    <2> QED
      BY <1>5, <2>1, <2>2
  <1> QED
    BY <1>9, <1>10, <1>11

LEMMA WebConfigIInv ==
  ASSUME IInv, NEW form \in Forms, WebConfig(form)
  PROVE  IInv'
  <1> USE DEF IInv
  <1>1. form \in WebForm
    BY ConfigAssumption
  <1>2. settings' \in Settings
    BY <1>1 DEF WebConfig, ConfigSave, TypeOK, Settings, WebForm, Optional
  <1>3. nextConfigurationMode' \in Modes
    BY DEF WebConfig, ConfigSave, TypeOK, SpecialModes, Modes
  <1>4. /\ nextConfigurationModeEndTime' \in ModeDeadline
        /\ nextConfigurationMode' # "NORMAL" => Armed(nextConfigurationModeEndTime')
    <2>1. After(settings'.configurationModeTimeout) \in ModeDeadline
          /\ Armed(After(settings'.configurationModeTimeout))
      BY <1>2, ModeDeadlines DEF Settings
    <2> QED
      BY <1>1, <2>1 DEF WebConfig, ConfigSave, TypeOK, ModesExpire, WebForm
  <1>5. /\ configurationModeEndTime' \in ModeDeadline
        /\ Armed(configurationModeEndTime) => Armed(configurationModeEndTime')
    BY ModeDeadlines, ConfigAssumption DEF WebConfig, ConfigSave, TypeOK
  <1>6. \/ flash' = flash /\ settings' = settings
        \/ flash' = [mode |-> nextConfigurationMode', settings |-> settings']
    BY DEF WebConfig, ConfigSave, TypeOK, Settings
  <1>7. flash' \in ConfigFile /\ flash'.settings = settings'
    BY <1>2, <1>3, <1>6, FilesAreRecords DEF TypeOK, SettingsSaved
  <1>8. rebootAt' \in Deadline(RebootDelay)
    BY ShortDeadlines, ConfigAssumption DEF WebConfig, ConfigSave, TypeOK
  <1>9. TypeOK'
    BY <1>2, <1>3, <1>4, <1>5, <1>7, <1>8 DEF WebConfig, ConfigSave, TypeOK, wifiVars
  <1>10. ModesExpire' /\ SettingsSaved'
    BY <1>4, <1>5, <1>7 DEF WebConfig, ConfigSave, ModesExpire, SettingsSaved
  <1>11. Armed(nextConfigurationModeEndTime) => Armed(nextConfigurationModeEndTime')
    BY <1>2, ModeDeadlines DEF WebConfig, ConfigSave, Settings
  <1>12. FlashedRequestExpires'
    <2>1. CASE flash' = flash
      BY <2>1, <1>5, <1>11 DEF FlashedRequestExpires
    <2>2. CASE flash' = [mode |-> nextConfigurationMode', settings |-> settings']
      BY <2>2, <1>4 DEF FlashedRequestExpires
    <2> QED
      BY <1>6, <2>1, <2>2
  <1> QED
    BY <1>9, <1>10, <1>12

LEMMA WifiConfigSavedIInv ==
  ASSUME IInv, WifiConfigSaved
  PROVE  IInv'
  <1> USE DEF IInv
  <1>1. After(ModeTimeout) \in ModeDeadline /\ Armed(After(ModeTimeout))
    BY ModeDeadlines, ConfigAssumption
  <1>2. /\ wantWifiModeSwitchAt' \in Deadline(RadioDelay)
        /\ rebootAt' \in Deadline(RebootDelay)
    BY ShortDeadlines, ConfigAssumption DEF WifiConfigSaved, BeginConfigurationMode, TypeOK
  <1>3. TypeOK'
    BY <1>1, <1>2 DEF WifiConfigSaved, BeginConfigurationMode, TypeOK, Modes
  <1>4. FlashedRequestExpires' /\ ModesExpire' /\ SettingsSaved'
    BY <1>1 DEF WifiConfigSaved, BeginConfigurationMode,
               FlashedRequestExpires, ModesExpire, SettingsSaved
  <1> QED
    BY <1>3, <1>4

\* Steps that touch neither a mode, nor the settings, nor the file.
LEMMA QuietIInv ==
  ASSUME IInv,
         UNCHANGED <<phase, bootCause, modeVars, settings, flash>>,
         wifiMode' \in WifiModes,
         wantWifiModeSwitchAt' \in Deadline(RadioDelay),
         rebootAt' \in Deadline(RebootDelay)
  PROVE  IInv'
  BY DEF IInv, TypeOK, FlashedRequestExpires, ModesExpire, SettingsSaved, modeVars

LEMMA TickIInv ==
  ASSUME IInv, Tick
  PROVE  IInv'
  <1> USE DEF IInv, Tick
  <1>1. /\ configurationModeEndTime' \in ModeDeadline
        /\ Armed(configurationModeEndTime') <=> Armed(configurationModeEndTime)
        /\ nextConfigurationModeEndTime' \in ModeDeadline
        /\ Armed(nextConfigurationModeEndTime') <=> Armed(nextConfigurationModeEndTime)
    BY ModeDeadlines DEF TypeOK
  <1>2. /\ wantWifiModeSwitchAt' \in Deadline(RadioDelay)
        /\ rebootAt' \in Deadline(RebootDelay)
    BY ShortDeadlines, ConfigAssumption DEF TypeOK
  <1>3. TypeOK'
    BY <1>1, <1>2 DEF TypeOK
  <1>4. FlashedRequestExpires' /\ ModesExpire' /\ SettingsSaved'
    BY <1>1 DEF FlashedRequestExpires, ModesExpire, SettingsSaved
  <1> QED
    BY <1>3, <1>4

--------------------------------------------------------------------------------
(* Every step. *)

LEMMA UserStepIInv ==
  ASSUME IInv, UserStep
  PROVE  IInv'
  <1>1. CASE \E cause \in BootCauses : Reset(cause)
    <2>1. PICK cause \in BootCauses : Reset(cause)
      BY <1>1
    <2>2. flash \in ConfigFile
      BY DEF IInv, TypeOK
    <2> QED
      BY <2>1, <2>2, BootIInv DEF Reset
  <1>2. CASE PowerLossWhileSaving
    BY <1>2, BootIInv, DefaultsAreSettings, ConfigAssumption
       DEF PowerLossWhileSaving, BootCauses
  <1>3. CASE AllowRequestedConfigurationMode
    BY <1>3, AllowIInv
  <1>4. CASE ExtendCurrentMode
    BY <1>4, ExtendIInv
  <1>5. CASE RequestReboot
    <2>1. rebootAt' \in Deadline(RebootDelay)
      BY <1>5, ShortDeadlines, ConfigAssumption DEF RequestReboot
    <2> QED
      BY <1>5, <2>1, QuietIInv DEF RequestReboot, IInv, TypeOK, modeVars, wifiVars
  <1>6. CASE \E req \in Requests : PutConfig(req)
    BY <1>6, PutConfigIInv
  <1>7. CASE \E form \in Forms : WebConfig(form)
    BY <1>7, WebConfigIInv
  <1>8. CASE WifiConfigSaved
    BY <1>8, WifiConfigSavedIInv
  <1> QED
    BY <1>1, <1>2, <1>3, <1>4, <1>5, <1>6, <1>7, <1>8 DEF UserStep, ConfigUserStep

LEMMA DeviceStepIInv ==
  ASSUME IInv, DeviceStep
  PROVE  IInv'
  <1>1. CASE ConfigLoop
    <2>1. flash \in ConfigFile
      BY DEF IInv, TypeOK
    <2> QED
      BY <1>1, <2>1, BootIInv, ConfigAssumption DEF ConfigLoop, BootCauses
  <1>2. CASE ConfigModLoop
    BY <1>2, ConfigModLoopIInv
  <1>3. CASE \E cause \in BootCauses : FactoryResetDone(cause)
    BY <1>3, BootIInv, DefaultsAreSettings DEF FactoryResetDone
  <1>4. CASE WifiLoopStep
    <2>1. /\ wantWifiModeSwitchAt' \in Deadline(RadioDelay)
          /\ rebootAt' \in Deadline(RebootDelay)
      BY <1>4, ShortDeadlines, ConfigAssumption DEF WifiLoopStep, IInv, TypeOK
    <2> QED
      BY <1>4, <2>1, QuietIInv DEF WifiLoopStep
  <1>5. CASE Tick
    BY <1>5, TickIInv
  <1> QED
    BY <1>1, <1>2, <1>3, <1>4, <1>5 DEF DeviceStep, ConfigStep

LEMMA NextIInv == IInv /\ [Next]_configVars => IInv'
  <1> SUFFICES ASSUME IInv, [Next]_configVars PROVE IInv'
    OBVIOUS
  <1>1. CASE UNCHANGED configVars
    BY <1>1, QuietIInv DEF configVars, wifiVars, IInv, TypeOK
  <1> QED
    BY <1>1, UserStepIInv, DeviceStepIInv DEF Next

\* The invariant of the configuration machinery, in every reachable state.
THEOREM Invariance == Spec => []IInv
  BY InitIInv, NextIInv, PTL DEF Spec

--------------------------------------------------------------------------------
(* The invariants that the runs check. *)

\* Whatever is requested, saved, interrupted and reset, each variable of the
\* configuration object keeps to its type, and no deadline is further away than
\* the longest timeout.
THEOREM TypeCorrect == Spec => []TypeOK
  BY Invariance, PTL DEF IInv

\* A request that lies in flash is always backed by an armed deadline, at whose
\* passing endConfigurationMode() takes it out of flash.
THEOREM FlashedRequestsExpire == Spec => []FlashedRequestExpires
  BY Invariance, PTL DEF IInv

\* No special mode, current or requested, is without an armed deadline.
THEOREM AllModesExpire == Spec => []ModesExpire
  BY Invariance, PTL DEF IInv

\* In every reachable state config.cfg holds the settings in use.
THEOREM SettingsAreSaved == Spec => []SettingsSaved
  BY Invariance, PTL DEF IInv

--------------------------------------------------------------------------------
(* What a step may never do. *)

\* What a boot does to the mode, the requests and the settings.
LEMMA BootModes ==
  ASSUME NEW file \in ConfigFile, NEW cause, Boot(file, cause)
  PROVE  /\ configurationMode' = (IF cause \in UserCauses THEN file.mode ELSE "NORMAL")
         /\ nextConfigurationMode' = "NORMAL"
         /\ flash'.mode = "NORMAL"
         /\ settings' = file.settings
  BY DEF Boot, ModeAtBoot, ConfigFile

\* The three boots that do not read the mode of a request.
LEMMA OrdinaryBoot ==
  ASSUME IInv,
         \/ PowerLossWhileSaving
         \/ ConfigLoop
         \/ \E cause \in BootCauses : FactoryResetDone(cause)
  PROVE  /\ configurationMode' = "NORMAL"
         /\ nextConfigurationMode' = "NORMAL"
         /\ flash'.mode = "NORMAL"
         /\ settings' \in {settings, DefaultSettings}
  <1>1. /\ flash \in ConfigFile /\ flash.settings = settings
        /\ EmptyFile \in ConfigFile
        /\ EmptyFile.mode = "NORMAL" /\ EmptyFile.settings = DefaultSettings
    BY DefaultsAreSettings DEF IInv, TypeOK, SettingsSaved, EmptyFile
  <1>2. "softwareReboot" \notin UserCauses
    BY ConfigAssumption
  <1> QED
    BY <1>1, <1>2, BootModes DEF PowerLossWhileSaving, ConfigLoop, FactoryResetDone

\* A reset gives back the settings, and the mode in flash if it was made by hand.
LEMMA ResetModes ==
  ASSUME IInv, NEW cause \in BootCauses, Reset(cause)
  PROVE  /\ configurationMode' = (IF cause \in UserCauses THEN flash.mode ELSE "NORMAL")
         /\ nextConfigurationMode' = "NORMAL"
         /\ flash'.mode = "NORMAL"
         /\ settings' = settings
  <1>1. flash \in ConfigFile /\ flash.settings = settings
    BY DEF IInv, TypeOK, SettingsSaved
  <1> QED
    BY <1>1, BootModes DEF Reset

LEMMA EntryStep ==
  ASSUME IInv, Next, configurationMode' \notin {"NORMAL", configurationMode}
  PROVE  \/ /\ \E cause \in UserCauses : Reset(cause)
            /\ configurationMode' = flash.mode
            /\ flash'.mode = "NORMAL"
         \/ /\ AllowRequestedConfigurationMode
            /\ configurationMode' = nextConfigurationMode
         \/ wifiMode = "FACTORY" /\ configurationMode' = "CONFIG"
  <1>1. CASE \E cause \in BootCauses : Reset(cause)
    BY <1>1, ResetModes
  <1>2. CASE AllowRequestedConfigurationMode
    BY <1>2 DEF AllowRequestedConfigurationMode
  <1>3. CASE WifiConfigSaved
    BY <1>3 DEF WifiConfigSaved, BeginConfigurationMode
  <1>4. CASE ExtendCurrentMode \/ RequestReboot \/ WifiLoopStep \/ Tick
    BY <1>4 DEF ExtendCurrentMode, RequestReboot, WifiLoopStep, Tick, modeVars
  <1>5. CASE (\E req \in Requests : PutConfig(req)) \/ (\E form \in Forms : WebConfig(form))
    BY <1>5 DEF PutConfig, MayPutSettings, ConfigSave, WebConfig
  <1>6. CASE ConfigModLoop
    BY <1>6 DEF ConfigModLoop, EndConfigurationMode, ConfigSave
  <1> QED
    BY <1>1, <1>2, <1>3, <1>4, <1>5, <1>6, OrdinaryBoot
       DEF Next, UserStep, ConfigUserStep, DeviceStep, ConfigStep

\* However requests, resets, power failures and programs are interleaved, no
\* device is in a special mode without the proof of physical access for it.
THEOREM EntryNeedsAccess == Spec => EntryNeedsPhysicalAccess
  <1>1. IInv /\ [Next]_configVars =>
          [ configurationMode' \notin {"NORMAL", configurationMode} =>
              \/ /\ \E cause \in UserCauses : Reset(cause)
                 /\ configurationMode' = flash.mode
                 /\ flash'.mode = "NORMAL"
              \/ /\ AllowRequestedConfigurationMode
                 /\ configurationMode' = nextConfigurationMode
              \/ wifiMode = "FACTORY" /\ configurationMode' = "CONFIG" ]_configVars
    BY EntryStep
  <1> QED
    BY <1>1, Invariance, PTL DEF Spec, EntryNeedsPhysicalAccess

LEMMA SettingsStep ==
  ASSUME IInv, Next, settings' # settings
  PROVE  InConfigurationOrFactoryMode \/ settings' = DefaultSettings
  <1> USE DEF InConfigurationMode, InConfigurationOrFactoryMode
  <1>1. CASE \E cause \in BootCauses : Reset(cause)
    BY <1>1, ResetModes
  <1>2. CASE \E req \in Requests : PutConfig(req)
    BY <1>2 DEF PutConfig, MayPutSettings, ConfigSave
  <1>3. CASE \E form \in Forms : WebConfig(form)
    <2>1. settings = [hostName |-> settings.hostName,
                      configurationModeTimeout |-> settings.configurationModeTimeout,
                      wifiDisabledOnBoot |-> settings.wifiDisabledOnBoot]
      BY DEF IInv, TypeOK, Settings
    <2> QED
      BY <1>3, <2>1 DEF WebConfig, ConfigSave
  <1>4. CASE \/ AllowRequestedConfigurationMode \/ ExtendCurrentMode \/ RequestReboot
             \/ WifiConfigSaved \/ ConfigModLoop \/ WifiLoopStep \/ Tick
    BY <1>4 DEF AllowRequestedConfigurationMode, ExtendCurrentMode,
               RequestReboot, WifiConfigSaved, BeginConfigurationMode,
               ConfigModLoop, EndConfigurationMode, ConfigSave, WifiLoopStep,
               Tick
  <1> QED
    BY <1>1, <1>2, <1>3, <1>4, OrdinaryBoot
       DEF Next, UserStep, ConfigUserStep, DeviceStep, ConfigStep

\* A setting only changes in configuration or factory mode.  That a reset gives
\* back the settings in use, and so cannot change one, is SettingsSaved.
THEOREM SettingsAreGuarded == Spec => SettingsGuarded
  <1>1. IInv /\ [Next]_configVars =>
          [ settings' # settings =>
              InConfigurationOrFactoryMode \/ settings' = DefaultSettings ]_configVars
    BY SettingsStep
  <1> QED
    BY <1>1, Invariance, PTL DEF Spec, SettingsGuarded

--------------------------------------------------------------------------------
(* The device implements the gate. *)

LEMMA GateStep ==
  ASSUME IInv, Next
  PROVE  Gate!GateNext
  <1> USE DEF PendingModes
  <1>1. CASE \E cause \in BootCauses : Reset(cause)
    <2>1. Gate!Enter \/ Gate!Revert
      BY <1>1, ResetModes DEF Gate!Enter, Gate!Revert
    <2> QED
      BY <2>1 DEF Gate!GateNext
  <1>2. CASE \/ PowerLossWhileSaving
             \/ ConfigLoop
             \/ \E cause \in BootCauses : FactoryResetDone(cause)
    <2>1. Gate!Revert
      BY <1>2, OrdinaryBoot DEF Gate!Revert
    <2> QED
      BY <2>1 DEF Gate!GateNext
  <1>3. CASE ConfigModLoop
    <2>1. Gate!Revert
      BY <1>3 DEF Gate!Revert, ConfigModLoop, EndConfigurationMode, ConfigSave
    <2> QED
      BY <2>1 DEF Gate!GateNext
  <1>4. CASE AllowRequestedConfigurationMode
    <2>1. Gate!Enter \/ Gate!Revert
      BY <1>4 DEF Gate!Enter, Gate!Revert, AllowRequestedConfigurationMode
    <2> QED
      BY <2>1 DEF Gate!GateNext
  <1>5. CASE WifiConfigSaved
    <2>1. Gate!SetUpNewDevice \/ Gate!Withdraw
      BY <1>5 DEF Gate!SetUpNewDevice, Gate!Withdraw, WifiConfigSaved,
               BeginConfigurationMode
    <2> QED
      BY <2>1 DEF Gate!GateNext
  <1>6. CASE ExtendCurrentMode \/ RequestReboot \/ WifiLoopStep \/ Tick
    <2>1. Gate!Withdraw
      BY <1>6 DEF Gate!Withdraw, ExtendCurrentMode, RequestReboot, WifiLoopStep, Tick,
                  modeVars
    <2> QED
      BY <2>1 DEF Gate!GateNext
  <1>7. CASE \E req \in Requests : PutConfig(req)
    <2>1. PICK req \in Requests : PutConfig(req)
      BY <1>7
    <2>2. req \in PutRequest
      BY ConfigAssumption
    <2>3. CASE req.requestedMode \in SpecialModes
      <3>1. nextConfigurationMode' = req.requestedMode /\ flash'.mode = req.requestedMode
        BY <2>1, <2>2, <2>3, ConfigAssumption
           DEF PutConfig, MayPutSettings, ConfigSave, Given, SpecialModes
      <3>2. Gate!Request
        BY <2>1, <2>3, <3>1 DEF Gate!Request, PutConfig, MayPutSettings, ConfigSave,
               SpecialModes
      <3> QED
        BY <3>2 DEF Gate!GateNext
    <2>4. CASE req.requestedMode \notin SpecialModes
      <3>1. nextConfigurationMode' \in {nextConfigurationMode, "NORMAL"}
        BY <2>1, <2>2, <2>4 DEF PutConfig, MayPutSettings, ConfigSave, Given, SpecialModes,
               PutRequest, Optional
      <3>2. flash' = flash \/ flash'.mode = nextConfigurationMode'
        BY <2>1 DEF PutConfig, MayPutSettings, ConfigSave
      <3>3. Gate!Withdraw
        BY <2>1, <3>1, <3>2 DEF Gate!Withdraw, PutConfig, MayPutSettings, ConfigSave
      <3> QED
        BY <3>3 DEF Gate!GateNext
    <2> QED
      BY <2>3, <2>4
  <1>8. CASE \E form \in Forms : WebConfig(form)
    <2>1. PICK form \in Forms : WebConfig(form)
      BY <1>8
    <2>2. form \in WebForm
      BY ConfigAssumption
    <2>3. flash' = flash \/ flash'.mode = nextConfigurationMode'
      BY <2>1 DEF WebConfig, ConfigSave
    <2>4. CASE form.factoryreset \/ form.mode \in SpecialModes
      <3>1. nextConfigurationMode' \in SpecialModes
            /\ flash'.mode = nextConfigurationMode'
        BY <2>1, <2>2, <2>4 DEF WebConfig, ConfigSave, SpecialModes, Modes, WebForm
      <3>2. Gate!Request
        BY <2>1, <3>1 DEF Gate!Request, WebConfig, ConfigSave, SpecialModes
      <3> QED
        BY <3>2 DEF Gate!GateNext
    <2>5. CASE ~(form.factoryreset \/ form.mode \in SpecialModes)
      <3>1. nextConfigurationMode' = nextConfigurationMode
        BY <2>1, <2>5 DEF WebConfig, ConfigSave
      <3>2. Gate!Withdraw
        BY <2>1, <2>3, <3>1 DEF Gate!Withdraw, WebConfig, ConfigSave
      <3> QED
        BY <3>2 DEF Gate!GateNext
    <2> QED
      BY <2>4, <2>5
  <1> QED
    BY <1>1, <1>2, <1>3, <1>4, <1>5, <1>6, <1>7, <1>8
       DEF Next, UserStep, ConfigUserStep, DeviceStep, ConfigStep

\* Every behaviour of the device is one of the two-step gate of README.md: only a
\* mode that was requested is entered, and a mode that ends, ends in normal mode.
THEOREM ConfigImplementsGate == Spec => ImplementsGate
  <1>1. Init => Gate!GateInit
    BY DEF Init, Gate!GateInit, PendingModes, EmptyFile
  <1>2. IInv /\ [Next]_configVars => [Gate!GateNext]_(Gate!gateVars)
    <2>1. ASSUME UNCHANGED configVars PROVE UNCHANGED Gate!gateVars
      BY <2>1 DEF configVars, modeVars, wifiVars, Gate!gateVars, PendingModes
    <2> QED
      BY <2>1, GateStep
  <1> QED
    BY <1>1, <1>2, Invariance, PTL DEF Spec, ImplementsGate, Gate!GateSpec
================================================================================
