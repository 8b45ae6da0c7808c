SPECIFICATION Spec
CONSTANTS
  User = {u1}
  Pair = {p1, p2, p3, p4}
  Request = {q1, q2, q3}
  AccessLife = 1
  RefreshLife = 2
  MaxTime = 3
  None = None
SYMMETRY Keys
INVARIANTS SingleUse OneGoodPerLogin LoggedOutRefused
PROPERTIES Rotates
CHECK_DEADLOCK FALSE
