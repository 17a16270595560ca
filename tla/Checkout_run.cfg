SPECIFICATION Spec
CONSTANTS
  l1 = l1
  l2 = l2
  l3 = l3
  c1 = c1
  c2 = c2
  a1 = a1
  a2 = a2
  Lines = {l1, l2, l3}
  Checkouts = {c1, c2}
  Adders = {a1, a2}
  MaxItems = 2
  MaxElements = 2
  MaxQuantity = 2
  Prices = {1}
  Amounts = {0, 2}
  MaxChanges = 2
  Races = {}
  Faults = {"crash", "late"}
SYMMETRY Symmetry
CHECK_DEADLOCK FALSE
INVARIANTS TypeOK OrderedOnce NothingIsLost AsTheShopperSaid CartIsBounded
PROPERTY NeverPlacedOverBudget
