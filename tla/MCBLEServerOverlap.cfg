SPECIFICATION Spec
CONSTANTS
  MaxCentrals = 1
  SwitchDelay = 1
  RetryTime = 1
  Durations <- MCDurations
INVARIANT NeverStranded
