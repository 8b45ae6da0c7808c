SPECIFICATION Spec
CONSTANTS
  UserId = {u1, u2, u3}
  RoleId = {r1, r2, r3}
  GroupId = {g1, g2, g3}
  Email <- MCEmail
  Username <- MCUsername
  RoleName <- MCRoleName
  GroupName <- MCGroupName
  PermName <- MCPermName
  SuperEmail = "root@"
  SuperName = "root"
  GuestEmail = "guest@"
  GuestName = "visitor"
  InitialRoles <- MCInitialRoles
  DefaultPerms <- MCDefaultPerms
  DefaultRolePerms <- MCDefaultRolePerms
  MigratedPerms = {"admin"}
  None = None
  MaxRequests = 4
SYMMETRY Keys
INVARIANTS ReferentialIntegrity AnchorsExist
PROPERTIES SystemAdminKept AdminStaysLost FallbackKept StartRestores
CHECK_DEADLOCK FALSE
