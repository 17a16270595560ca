SPECIFICATION SweptSpec
CONSTANTS
  a1 = a1
  a2 = a2
  s1 = s1
  d1 = d1
  Approvals = {a1, a2}
  Sweeps = {s1}
  Deploys = {d1}
  Roots = {a1}
  Windows = {1, 3}
  MaxTime = 3
  Faults = {"crash", "query"}
  MaxFaults = 1
CHECK_DEADLOCK FALSE
INVARIANTS
  BuiltOnce
  ScheduleIsConsistent
  WaiverMeansCommitted
  ProvisioningIsAtWork
PROPERTIES
  KeepsPromise
  ScheduledIsDecided
