SPECIFICATION ModulesSpec
CONSTANTS
  MaxCentrals = 2
  SwitchDelay = 1
  RetryTime = 1
  Durations <- MCDurations
  HpsCalls <- MCCalls
  HpsReplies <- MCReplies
  Providers <- MCProviders
  HPSMaxBodySize = 2
  StreamMTU = 1
  MaxLeftOver = 1
  NoBody = NoBody
  NoHpsCall = NoHpsCall
  NoHpsReply = NoHpsReply
  Addresses = {a1, a2}
  NoAddress = NoAddress
  MaxCalls = 3
  DebounceDelay = 1
  FirstRepeat = 2
  MinRepeat = 1
  IntMin = 0
  IntMax = 2
  IntStep = 1
  MaxTurns = 2
  TextValues <- MCTextValues
  RootCAs <- MCTextValues
  NoValue = NoValue
  NoText = NoText
  AllRights = AllRights
  UserNames = {NoText, u1}
  Passwords = {NoText, p1}
  Rights <- MCRights
  UserRights <- MCUserRights
  MaxUsers = 3
  LoggerTasks = {t1, t2}
  LoggedBytes = {b1, b2}
  BufferSize = 3
  NumOtaSlots = 2
  HasFactory = FALSE
  MaxOtaSeq = 5
  DeviceModes = {"normal", "config", "ota"}
  NormalMode = "normal"
  MaxRetries = 1
INVARIANTS ModulesTypeOK StrandedOnlyByOverlap Accounted ClosingIsSeen SettingsSurvive UsersSurvive LogIsLastBytes SetSlotBoots GivesUpOnLostRequest
PROPERTIES AdvertisesInTheEnd ImplementsRemoteCall CallEnds StablePinIsSeen ShortPressSwitches CyclesThrough AddingKeepsRights
