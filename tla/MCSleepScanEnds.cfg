SPECIFICATION Spec
CONSTANTS
  Settings <- MCAllSettings
  MaxCentrals = 1
  SwitchDelay = 0
  PostponeTime = 1
  RebootDelay = 0
  LongAwake = 2
  MaxScans = 1
  DetachesWatchdog = FALSE
PROPERTY AwakeWhileConnected
