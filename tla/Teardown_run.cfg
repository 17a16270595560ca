SPECIFICATION Spec
CONSTANTS
  e1 = e1
  e2 = e2
  h1 = h1
  h2 = h2
  Elements = {e1, e2}
  Webhooks = {"w"}
  Stacks = {"s"}
  Setups = {{"w"}, {"w", "s"}}
  MaxWork = 2
  MaxJobs = 2
  Handlers = {h1}
  Races = {}
  Faults = {"crash", "throw", "record", "failed", "edit"}
SYMMETRY TeardownSymmetry
CHECK_DEADLOCK FALSE
INVARIANTS
  GoneMeansDestroyed
  ActiveMeansNoDestroy
  SettledIsBeingSwapped
  RetriedStaysActive
  RetiredMeansFired
PROPERTIES
  KeepsPromise
