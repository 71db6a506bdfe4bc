SPECIFICATION Spec
CONSTANTS
  t1 = t1
  t2 = t2
  d1 = d1
  d2 = d2
  Terminal = {t1, t2}
  Display = {d1, d2}
  Lit = d1
  Mode <- Modes
  Fit <- Fits
  Uses <- SwitchUses
INVARIANTS
  ExactAfterSwitch
