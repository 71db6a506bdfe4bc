SPECIFICATION HostLoginFairSpec
CONSTANTS
  t1 = t1
  t2 = t2
  j1 = j1
  j2 = j2
  j3 = j3
  NoJob = NoJob
  Terminal = {t1, t2}
  Job = {j1, j2, j3}
  Backlog = 0
  SocketActivated = FALSE
  Faults = TRUE
  LogOut = TRUE
INVARIANTS
  WaitsForHelper
PROPERTIES
  ClosedLoginEnds
  LoginComes
