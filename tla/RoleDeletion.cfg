SPECIFICATION Spec
CONSTANTS
  User = {u1, u2}
  Role = {guest, r1, r2}
  Guest = guest
  Txn = {t1, t2, t3}
  Deleters = {t1, t2}
  None = None
SYMMETRY Keys
INVARIANTS TypeOK OneGuest NoOrphanRow NobodyDropped
PROPERTIES FallbackSurvives
CHECK_DEADLOCK FALSE
