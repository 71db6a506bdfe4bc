SPECIFICATION Spec
CONSTANTS
  v1 = v1
  v2 = v2
  d1 = d1
  d2 = d2
  d3 = d3
  d4 = d4
  Session = {s1, s2}
  NoSession = NoSession
  Video = {v1, v2}
  Display = {d1, d2}
  VideoOf <- OwnDevice
  VtKind = "fake"
  SessionControl = TRUE
  SessionMax = 0
  DpmsTimeout = TRUE
  Background = TRUE
  Faults = TRUE
SYMMETRY SessionSymmetry
INVARIANTS
  SessionScreens
CHECK_DEADLOCK FALSE
