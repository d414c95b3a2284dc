SPECIFICATION FairSpec
CONSTANTS
  Clients = {1, 2}
  SizeLimit = 0
  EmergencySpace = 9
  AutoResetThreshold = 5
  CanStream <- HostOnly
  Quality <- SameQuality
  Invited <- Guest
  HasOpword = FALSE
  Host = 1
  Features <- NoTraffic
  MaxDraws = 0
  MaxJoins = 1
  MaxCommands = 2
  MaxRetries = 1
INVARIANTS TypeOK CanvasesAgree UsersAgree ResetterPresent
PROPERTIES QueryEnds Delivered
CHECK_DEADLOCK FALSE
