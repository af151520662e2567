SPECIFICATION DeviceSpec
CONSTANTS
  h0 = h0
  s1 = s1
  None = None
  HostNames <- MCHostNames
  DefaultHostName = h0
  Timeouts <- MCTimeouts
  ModeTimeout = 1
  UserCauses <- MCUserCauses
  OtherCauses <- MCOtherCauses
  RebootDelay = 0
  RadioDelay = 0
  Requests <- MCRadioRequests
  Forms <- MCForms
  Ssids <- MCSsids
  NoSsid = NoSsid
  SearchTime = 1
  ApTime = 1
  RadioMayFail = TRUE
PROPERTY ImplementsConfig
