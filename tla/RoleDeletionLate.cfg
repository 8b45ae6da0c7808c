SPECIFICATION Spec
CONSTANTS
  User = {u1, u2}
  Role = {guest, r1, r2}
  Guest = guest
  Txn = {t1, t2, t3}
  Deleters = {t1}
  None = None
SYMMETRY Keys
INVARIANTS LateAssignmentFallsBack
CHECK_DEADLOCK FALSE
