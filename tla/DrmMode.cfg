SPECIFICATION FairSpec
CONSTANTS
  c1 = c1
  c2 = c2
  k1 = k1
  k2 = k2
  Connector = {c1}
  Crtc = {k1}
  NoCrtc = NoCrtc
  Works = {"default"}
  Faults = FALSE
  MaxEvents = 2
  MaxLeaked = 1
PROPERTIES
  ComesUp
CHECK_DEADLOCK FALSE
