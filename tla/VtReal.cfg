SPECIFICATION FairSpec
CONSTANTS
  c1 = c1
  c2 = c2
  c3 = c3
  t1 = t1
  Vt = {c1, c2, c3, t1}
  NoVt = NoVt
  Console = {c1, c2, c3}
INVARIANTS
  InputHeld
  ActiveOwnsVt
PROPERTIES
  EnterTold
