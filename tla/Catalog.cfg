SPECIFICATION Spec
CONSTANTS
  ResourceId = {r1, r2, r3}
  PermissionId = {p1, p2, p3, p4, p5}
  ResourceName = {"users", "resources", "errors", "*"}
  PermName = {"admin", "users.read", "resources.read", "errors.read"}
  FreeText = {"errors"}
  DefaultResources = {"users", "resources"}
  MigratedResources = {"users"}
  DefaultPerms <- MCDefaultPerms
  MigratedPerms = {"admin", "users.read"}
  Txn = {t1, t2}
  None = None
  Unset = Unset
  MaxRequests = 3
SYMMETRY Keys
INVARIANTS WildcardKept LabelFollowsLink SeededStayLinked
PROPERTIES ProtectedKept
CHECK_DEADLOCK FALSE
