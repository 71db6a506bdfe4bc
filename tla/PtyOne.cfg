SPECIFICATION FairSpec
CONSTANTS
  s1 = s1
  s2 = s2
  p1 = p1
  p2 = p2
  p3 = p3
  p4 = p4
  p5 = p5
  Session = {s1}
  Pid = {p1, p2, p3}
  NoPid = NoPid
  Oneshot = FALSE
  MaxRetryTime = 1
  MaxRetryCount = 1
  Steps = 1
  Cap = 1
  Stamps = 4
  MaxBacklog = 2
  MaxFaults = 1
INVARIANTS
  InOrder
  FeedLogin
PROPERTIES
  LoginKept
  ExitNoticed
CHECK_DEADLOCK FALSE
