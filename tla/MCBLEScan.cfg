SPECIFICATION Spec
CONSTANTS
  d1 = d1
  d2 = d2
  Devices <- MCDevices
  Cooldown = 1
  RetryTime = 1
  SettleTime = 1
  UnknownTime = 0
  CoordinateWithServer = TRUE
  ScannerReconfigured = FALSE
SYMMETRY Symmetry
INVARIANTS TypeOK DiscoveryScheduled ConnectBlockedByScan AttemptsCounted
