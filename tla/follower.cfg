SPECIFICATION SyncSpec
CONSTANTS
  Ids = {0, 1}
  ALL_IDS = 2
  Pixels = {"left", "right"}
  Users = {"me", "you", "they"}
  Nobody = "nobody"
  LocalUser = "me"
  NoState = NoState
  StrayAreas <- Stray
  AnyId = 0
  MAX_FALLBEHIND = 100
  UndoDepthDefault = 3
  UndoDepthMin = 3
  UndoDepthMax = 4
  NewLimit = 4
  LocalAreas <- NoAreas
  RemoteAreas <- RightOnly
  Features <- FollowTraffic
  MaxIssued = 0
  MaxForeign = 7
  MaxUplink = 0
INVARIANTS UndoReachable
PROPERTY FollowsUndoLog
CHECK_DEADLOCK FALSE
