SPECIFICATION SyncSpec
CONSTANTS
  Ids = {0, 1}
  ALL_IDS = 2
  Pixels = {"left", "right"}
  Users = {"me", "you"}
  Nobody = "nobody"
  LocalUser = "me"
  NoState = NoState
  StrayAreas <- Stray
  AnyId = 0
  MAX_FALLBEHIND = 100
  UndoDepthDefault = 3
  UndoDepthMin = 3
  UndoDepthMax = 4
  NewLimit = 4
  LocalAreas <- LeftOnly
  RemoteAreas <- RightOnly
  Features <- StrokeTraffic
  MaxIssued = 3
  MaxForeign = 3
  MaxUplink = 2
INVARIANTS Converged MarksAgree UndosAgree SavePointsCoherent SavePointsValid ForkInFlight
CHECK_DEADLOCK FALSE
