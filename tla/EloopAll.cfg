SPECIFICATION FairSpec
CONSTANTS
  f1 = f1
  t1 = t1
  s1 = s1
  c1 = c1
  c2 = c2
  h1 = h1
  h2 = h2
  n1 = n1
  n2 = n2
  File = {f1}
  Timer = {t1}
  Signal = {s1}
  Callback = {c1, c2}
  SigHook = {h1, h2}
  Idlers = Idlers
  Node = {n1, n2}
  ListHead = ListHead
  Loop = Loop
  None = None
  Events = 1
  MaxLive = 2
  MaxFaults = 1
INVARIANTS
  BatchLive
  WatchExact
  CursorLive
PROPERTIES
  IdleRuns
CHECK_DEADLOCK FALSE
