SPECIFICATION FairSpec
CONSTANTS
  h0 = h0
  h1 = h1
  None = None
  HostNames <- MCHostNames
  DefaultHostName = h0
  Timeouts <- MCTimeouts
  ModeTimeout = 2
  UserCauses <- MCUserCauses
  OtherCauses <- MCOtherCauses
  RebootDelay = 0
  RadioDelay = 0
  Requests <- MCRequests
  Forms <- MCForms
INVARIANTS TypeOK FlashedRequestExpires ModesExpire SettingsSaved
PROPERTIES EntryNeedsPhysicalAccess SettingsGuarded ImplementsGate ReturnsToNormal
