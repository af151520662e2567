SPECIFICATION FairSpec
CONSTANTS
  d1 = d1
  d2 = d2
  Devices <- MCOneDevice
  Cooldown = 1
  RetryTime = 1
  SettleTime = 1
  UnknownTime = 0
  CoordinateWithServer = FALSE
  ScannerReconfigured = FALSE
PROPERTY DiscoveryHappens
