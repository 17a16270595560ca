SPECIFICATION Spec
CONSTANTS
  p1 = p1
  p2 = p2
  c1 = c1
  c2 = c2
  j1 = j1
  o1 = o1
  o2 = o2
  d1 = d1
  d2 = d2
  Products = {p1, p2}
  Categories = {c1, c2}
  Projects = {j1}
  Orders = {o1, o2}
  Deletions = {d1, d2}
SYMMETRY Symmetry
CHECK_DEADLOCK FALSE
INVARIANTS
  OrdersAreKept
  NotFoundIsTrue
