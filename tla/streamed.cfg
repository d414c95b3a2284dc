SPECIFICATION SyncSpec
CONSTANTS
  Clients = {1, 2}
  SizeLimit = 8
  EmergencySpace = 9
  AutoResetThreshold = 1
  CanStream <- Everyone
  Quality <- GuestBetter
  Invited <- Guest
  HasOpword = TRUE
  Host = 1
  Features <- NoTraffic
  MaxDraws = 1
  MaxJoins = 1
  MaxCommands = 1
  MaxRetries = 0
INVARIANTS CanvasesAgree UsersAgree IndicesExact StreamerAsked
CHECK_DEADLOCK FALSE
