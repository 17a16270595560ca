SPECIFICATION Spec
CONSTANTS
  u1 = u1
  u2 = u2
  s1 = s1
  s2 = s2
  s3 = s3
  q1 = q1
  q2 = q2
  p1 = p1
  p2 = p2
  w1 = w1
  w2 = w2
  Users = {u1, u2}
  Sessions = {s1, s2}
  Logins = {q1}
  Changers = {p1}
  Admins = {w1, w2}
  MaxChanges = 2
SYMMETRY Symmetry
CHECK_DEADLOCK FALSE
INVARIANT NoTwoRootsCross
