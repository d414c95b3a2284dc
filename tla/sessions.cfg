SPECIFICATION FairSpec
CONSTANTS
  Ids = {0, 1}
  ALL_IDS = 2
  Pixels = {"left", "right"}
  Users = {"me", "you"}
  Nobody = "nobody"
  LocalUser = "me"
  NoState = NoState
  StrayAreas <- Stray
  AnyId = 0
  MAX_FALLBEHIND = 100
  UndoDepthDefault = 3
  UndoDepthMin = 3
  UndoDepthMax = 4
  NewLimit = 9
  LocalAreas <- LeftOnly
  RemoteAreas <- RightOnly
  Features <- SessionTraffic
  MaxIssued = 3
  MaxForeign = 3
  MaxUplink = 2
INVARIANTS TypeOK Converged SavePointsCoherent ForkInFlight ForkStartReachable
PROPERTY ForkDrains
CHECK_DEADLOCK FALSE
