SPECIFICATION Spec
CONSTANTS
  e1 = e1
  k1 = k1
  k2 = k2
  d1 = d1
  d2 = d2
  Elements = {e1}
  Keys = {k1, k2}
  Owns <- OwnsTwo
  MaxTime = 2
  Contents <- OneAtATime
  Deliveries = {d1}
  Engines = {e1}
  MaxCrashes = 0
CHECK_DEADLOCK FALSE
INVARIANT
  SilenceIsNotHealth
