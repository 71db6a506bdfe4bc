SPECIFICATION Spec
CONSTANTS
  v1 = v1
  v2 = v2
  d1 = d1
  d2 = d2
  d3 = d3
  d4 = d4
  Session = {s1, s2, s3}
  NoSession = NoSession
  Video = {v1}
  Display = {d1, d2, d3}
  VideoOf <- SameDevice
  VtKind = "real"
  SessionControl = TRUE
  SessionMax = 0
  DpmsTimeout = TRUE
  Background = FALSE
  Faults = FALSE
INVARIANTS
  MasterReleased
  InputBalance
  OneAwake
  EveryDisplayShown
PROPERTIES
  InputUnblanks
CHECK_DEADLOCK FALSE
