SPECIFICATION Spec
CONSTANTS
  e1 = e1
  k1 = k1
  k2 = k2
  d1 = d1
  d2 = d2
  Elements = {e1}
  Keys = {k1, k2}
  Owns <- OwnsTwo
  MaxTime = 2
  Contents <- Findings
  Deliveries = {d1, d2}
  Engines = {e1}
  MaxCrashes = 1
SYMMETRY Symmetry
CHECK_DEADLOCK FALSE
INVARIANTS
  ShowsTheNewest
  DriftIsNotForgotten
  VerdictIsCurrent
