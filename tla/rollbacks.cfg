SPECIFICATION SyncSpec
CONSTANTS
  Ids = {0, 1}
  ALL_IDS = 2
  Pixels = {"left", "right"}
  Users = {"me", "you"}
  Nobody = "nobody"
  LocalUser = "me"
  NoState = NoState
  StrayAreas <- Stray
  AnyId = 0
  MAX_FALLBEHIND = 2
  UndoDepthDefault = 3
  UndoDepthMin = 3
  UndoDepthMax = 4
  NewLimit = 4
  LocalAreas <- LeftOrAll
  RemoteAreas <- RightOnly
  Features <- RollbackTraffic
  MaxIssued = 3
  MaxForeign = 3
  MaxUplink = 3
INVARIANTS Converged SavePointsCoherent
CHECK_DEADLOCK FALSE
