SPECIFICATION Spec
CONSTANTS
  h1 = h1
  h2 = h2
  h3 = h3
  Quantity = 2
  Webhooks = {}
  Stacks = {"s"}
  MaxRuns = 2
  Handlers = {h1, h2}
  Reports = {"success", "failed"}
  Overlaps = {"event"}
  Faults = {"record", "query", "lookup", "crash"}
  MaxFaults = 1
SYMMETRY HandlerSymmetry
CHECK_DEADLOCK FALSE
INVARIANTS
  CompletedMeansWholeRun
  NothingStartedIsForgotten
  OutputsOfOwnPipelines
