SPECIFICATION Spec
CONSTANTS
  c1 = c1
  c2 = c2
  k1 = k1
  k2 = k2
  Connector = {c1, c2}
  Crtc = {k1, k2}
  NoCrtc = NoCrtc
  Works = {"wanted", "default"}
  Faults = TRUE
  MaxEvents = 2
  MaxLeaked = 1
INVARIANTS
  RefsOwed
  MasterAwake
  Retried
PROPERTIES
  DeviceKept
SYMMETRY Symmetry
CHECK_DEADLOCK FALSE
