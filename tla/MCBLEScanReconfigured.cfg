SPECIFICATION Spec
CONSTANTS
  d1 = d1
  d2 = d2
  Devices <- MCDevices
  Cooldown = 1
  RetryTime = 1
  SettleTime = 1
  UnknownTime = 0
  CoordinateWithServer = FALSE
  ScannerReconfigured = TRUE
SYMMETRY Symmetry
INVARIANT ConnectBlockedByScan
