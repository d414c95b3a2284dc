SPECIFICATION StoredFairSpec
CONSTANTS
  Clients = {1, 2, 3}
  MaxId = 3
  Names = {"a", "b"}
  MaxUsers = 2
  SizeLimit = 7
  EmergencySpace = 20
  AutoResetThreshold = 0
  MaxBlockSize = 1
  Drawings = {1}
  Features <- NoFeatures
  MaxJoins = 2
  MaxResets = 1
  MaxStreams = 1
  MaxFetches = 1
  MaxStops = 2
INVARIANTS StoredTypeOK Recoverable BatchesExact PresentAgree
PROPERTIES ImplementsDurable LateReuse SavedEventually
CHECK_DEADLOCK FALSE
