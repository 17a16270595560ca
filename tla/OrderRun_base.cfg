SPECIFICATION Spec
CONSTANTS
  h1 = h1
  h2 = h2
  h3 = h3
  Quantity = 1
  Webhooks = {"w"}
  Stacks = {"s"}
  MaxRuns = 2
  Handlers = {h1, h2}
  Reports = {"success", "failed"}
  Overlaps = {"settle"}
  Faults = {"crash", "record"}
  MaxFaults = 1
SYMMETRY HandlerSymmetry
CHECK_DEADLOCK FALSE
INVARIANTS
  NoCompletionWhileFiring
  PendingMeansNothingRan
PROPERTIES
  KeepsPromise
