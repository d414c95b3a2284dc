SPECIFICATION SyncSpec
CONSTANTS
  Clients = {1, 2}
  SizeLimit = 0
  EmergencySpace = 9
  AutoResetThreshold = 1
  CanStream <- Everyone
  Quality <- SameQuality
  Invited <- Nobody
  HasOpword = FALSE
  Host = 1
  Features <- PendingOnly
  MaxDraws = 1
  MaxJoins = 1
  MaxCommands = 1
  MaxRetries = 0
INVARIANTS CanvasesAgree
CHECK_DEADLOCK FALSE
