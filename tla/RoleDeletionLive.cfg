SPECIFICATION FairSpec
CONSTANTS
  User = {u1, u2}
  Role = {guest, r1}
  Guest = guest
  Txn = {t1, t2}
  Deleters = {t1, t2}
  None = None
PROPERTIES Answered
CHECK_DEADLOCK FALSE
