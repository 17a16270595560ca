SPECIFICATION ServedSpec
CONSTANTS
  h1 = h1
  h2 = h2
  h3 = h3
  Quantity = 1
  Webhooks = {"w"}
  Stacks = {"s"}
  MaxRuns = 2
  Handlers = {h1, h2}
  Reports = {"success"}
  Overlaps = {"settle"}
  Faults = {"answer"}
  MaxFaults = 1
CHECK_DEADLOCK FALSE
PROPERTIES
  SettledOrderCompletes
  StartedOrderCompletes
