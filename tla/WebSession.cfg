SPECIFICATION Spec
CONSTANTS
  t1 = t1
  t2 = t2
  ann = ann
  bob = bob
  Tab <- MCTab
  User <- MCUser
  MaxLogins = 2
  MaxCalls = 2
  None = None
INVARIANTS
  IdentityAgrees
  EndedStaysEnded
PROPERTIES
  TabsSettle
  OnlyStaleAnswersWipe
CHECK_DEADLOCK FALSE
