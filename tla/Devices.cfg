SPECIFICATION DevicesSpec
CONSTANTS
  k1 = k1
  m1 = m1
  d1 = d1
  d2 = d2
  d3 = d3
  NoDev = NoDev
  Node = {k1, m1}
  Keyboard = {k1}
  Useful = {k1, m1}
  Dev = {d1, d2, d3}
  Key = {"a", "b"}
  Silent = {"b"}
  Faults = TRUE
  Reuse = FALSE
  MaxQueue = 3
  MaxAwake = 2
SYMMETRY Symmetry
INVARIANTS
  ClosedAsleep
  Settled
  HandleBack
  NothingSticks
