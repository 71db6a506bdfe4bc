SPECIFICATION FairSpec
CONSTANTS
  Terminal = {t1, t2}
  Display = {d1, d2}
  Uses <- MainUses
  MaxEvents = 4
INVARIANTS
  VsyncBacked
  ScannedHeld
  FlipExpected
PROPERTIES
  Shown
