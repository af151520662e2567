SPECIFICATION FairSpec
CONSTANTS
  Settings <- MCSettings
  MaxCentrals = 1
  SwitchDelay = 0
  PostponeTime = 1
  RebootDelay = 0
  LongAwake = 2
  MaxScans = 1
  DetachesWatchdog = FALSE
INVARIANTS TypeOK WifiOffBeforeSleep WatchdogGuards
PROPERTIES SleepsOnlyAfterScans SleepsInTheEnd
