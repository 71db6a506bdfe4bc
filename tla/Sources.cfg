SPECIFICATION SourcesFairSpec
CONSTANTS
  Manifests <- Pairs
  MAX_SOURCES = 2
  EarlyUsers = {"root", "admin"}
  MaxLate = 1
  MaxAge = 3
  Faults = TRUE
INVARIANTS
  FirstVisible
PROPERTIES
  LockFollows
  CollectorRecovers
CHECK_DEADLOCK FALSE
