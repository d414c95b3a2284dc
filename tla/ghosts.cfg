SPECIFICATION SyncSpec
CONSTANTS
  Clients = {1, 2}
  SizeLimit = 0
  EmergencySpace = 9
  AutoResetThreshold = 3
  CanStream <- Everyone
  Quality <- SameQuality
  Invited <- Guest
  HasOpword = FALSE
  Host = 1
  Features <- UnseenOnly
  MaxDraws = 0
  MaxJoins = 1
  MaxCommands = 1
  MaxRetries = 0
INVARIANTS UsersAgree
CHECK_DEADLOCK FALSE
