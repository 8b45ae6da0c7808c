-------------------------------- MODULE Rbac --------------------------------
(***************************************************************************)
(* The access-control database of the service: users, roles, permissions   *)
(* and groups, the endpoints that change them, and the seeding that runs   *)
(* at every start of the server.                                           *)
(*                                                                         *)
(* A request is one step: get_db opens one session per request and commits *)
(* it after the handler, or rolls it back when the handler raises, so a    *)
(* refused request is a step that changes nothing and has no action here.  *)
(* Interleavings inside a request are the subject of RoleDeletion.         *)
(*                                                                         *)
(* A table is a function from its keys.  None in a unique column means     *)
(* that the row does not exist; an association table is the set-valued     *)
(* function of its first column.  Permissions are identified by their name *)
(* and the rows of the resources table are left to another module.         *)
(***************************************************************************)
EXTENDS Naturals

CONSTANTS
  UserId, RoleId, GroupId,                 \* keys the database can hand out
  Email, Username, RoleName, GroupName, PermName,   \* values of the columns
  SuperEmail, SuperName,                   \* settings.first_superuser_*
  GuestEmail, GuestName,                   \* settings.guest_user_*
  InitialRoles,                            \* INITIAL_ROLES
  DefaultPerms,                            \* DEFAULT_PERMISSIONS
  DefaultRolePerms,                        \* DEFAULT_ROLE_PERMISSIONS
  MigratedPerms,                           \* those migration 0003 inserts
  None,                                    \* the absent row
  MaxRequests                              \* bound: mutating requests served

ASSUME NamesAssumption ==
  /\ {SuperEmail, GuestEmail} \subseteq Email /\ SuperEmail # GuestEmail
  /\ {SuperName, GuestName} \subseteq Username /\ SuperName # GuestName
  /\ {"admin", "guest"} \subseteq InitialRoles /\ InitialRoles \subseteq RoleName
  /\ {"admin", "guest"} \subseteq GroupName
  /\ DefaultPerms \subseteq PermName /\ MigratedPerms \subseteq PermName
  /\ DefaultRolePerms \in [InitialRoles -> SUBSET DefaultPerms]
  /\ "admin" \in DefaultRolePerms["admin"]

ASSUME NoneAssumption ==
  None \notin Email \cup Username \cup RoleName \cup GroupName

ASSUME BoundAssumption == MaxRequests \in Nat

VARIABLES
  server,       \* "new" before the first start, "up", "down", "failed"
  email,        \* users.email
  username,     \* users.username
  active,       \* users.is_active
  rolesOf,      \* user_roles, by user
  roleName,     \* roles.name
  perms,        \* the names in the permissions table
  permsOf,      \* role_permissions, by role
  groupName,    \* user_groups.name
  members,      \* user_group_members, by group
  grolesOf,     \* user_group_roles, by group
  requests      \* mutating requests served so far

userTables  == <<email, username, active, rolesOf>>
roleTables  == <<roleName, perms, permsOf>>
groupTables == <<groupName, members, grolesOf>>
database    == <<userTables, roleTables, groupTables>>
vars        == <<server, requests, database>>

TypeOK ==
  /\ server \in {"new", "up", "down", "failed"}
  /\ email \in [UserId -> Email \cup {None}]
  /\ username \in [UserId -> Username \cup {None}]
  /\ active \in [UserId -> BOOLEAN]
  /\ rolesOf \in [UserId -> SUBSET RoleId]
  /\ roleName \in [RoleId -> RoleName \cup {None}]
  /\ perms \subseteq PermName
  /\ permsOf \in [RoleId -> SUBSET PermName]
  /\ groupName \in [GroupId -> GroupName \cup {None}]
  /\ members \in [GroupId -> SUBSET UserId]
  /\ grolesOf \in [GroupId -> SUBSET RoleId]
  /\ requests \in 0 .. MaxRequests

Init ==
  /\ server = "new"
  /\ email = [u \in UserId |-> None]
  /\ username = [u \in UserId |-> None]
  /\ active = [u \in UserId |-> FALSE]
  /\ rolesOf = [u \in UserId |-> {}]
  /\ roleName = [r \in RoleId |-> None]
  /\ perms = MigratedPerms
  /\ permsOf = [r \in RoleId |-> {}]
  /\ groupName = [g \in GroupId |-> None]
  /\ members = [g \in GroupId |-> {}]
  /\ grolesOf = [g \in GroupId |-> {}]
  /\ requests = 0

-----------------------------------------------------------------------------
(* Reading the tables *)

(* Some row of the table holds the value: the get_by_* lookups. *)
Held(column, value) == \E k \in DOMAIN column : column[k] = value

(* The operators with a suffix after their name are slips someone could    *)
(* make in the operator that follows; no action uses them.                 *)

(* Key k may take the value: the unique index of the column. *)
FreeFor(column, k, value) ==
  \A other \in DOMAIN column : column[other] = value => other = k

(* The roles a user holds directly or through the groups it belongs to. *)
EffectiveRoles(u) ==
  rolesOf[u] \cup UNION {grolesOf[g] : g \in {h \in GroupId : u \in members[h]}}

PermissionsOf(u) == UNION {permsOf[r] : r \in EffectiveRoles(u)}

IsAdmin(u) == "admin" \in PermissionsOf(u)

(* The bearer is a live account: 401 and 403 otherwise. *)
Authenticated(a) == email[a] # None /\ active[a]

HasPermission(a, p) == p \in PermissionsOf(a) \/ IsAdmin(a)

MayCall(a, p) == Authenticated(a) /\ HasPermission(a, p)

-----------------------------------------------------------------------------
(* Users: user_service and crud/user *)

CreateUser(e, n) ==
  \E u \in UserId :
    /\ email[u] = None
    /\ ~Held(email, e)
    /\ ~Held(username, n)
    /\ email' = [email EXCEPT ![u] = e]
    /\ username' = [username EXCEPT ![u] = n]
    /\ active' = [active EXCEPT ![u] = TRUE]
    /\ UNCHANGED <<rolesOf, roleTables, groupTables>>

(* e and n are the values of the row after the PATCH; flag is the is_active *)
(* field of its body.  Only the address of the row BEFORE the PATCH decides *)
(* whether the account may be switched off.                                 *)
UpdateUser(u, e, n, flag) ==
  /\ email[u] # None
  /\ ~(email[u] = SuperEmail /\ flag = "false")
  /\ FreeFor(email, u, e) /\ FreeFor(username, u, n)
  /\ email' = [email EXCEPT ![u] = e]
  /\ username' = [username EXCEPT ![u] = n]
  /\ active' = [active EXCEPT ![u] = IF flag = "omitted" THEN @ ELSE flag = "true"]
  /\ UNCHANGED <<rolesOf, roleTables, groupTables>>

(* The foreign keys of user_roles and user_group_members cascade. *)
DeleteUser(a, u) ==
  /\ email[u] \notin {None, SuperEmail}
  /\ u # a
  /\ email' = [email EXCEPT ![u] = None]
  /\ username' = [username EXCEPT ![u] = None]
  /\ active' = [active EXCEPT ![u] = FALSE]
  /\ rolesOf' = [rolesOf EXCEPT ![u] = {}]
  /\ members' = [g \in GroupId |-> members[g] \ {u}]
  /\ UNCHANGED <<roleTables, groupName, grolesOf>>

(* crud.user.assign_role: no second row for the same pair. *)
InsertUserRole(u, r) ==
  /\ r \notin rolesOf[u]
  /\ rolesOf' = [rolesOf EXCEPT ![u] = @ \cup {r}]

AssignRole_AnyActor(a, u, r) ==
  /\ email[u] # None
  /\ roleName[r] # None
  /\ InsertUserRole(u, r)
  /\ UNCHANGED <<email, username, active, roleTables, groupTables>>

AssignRole(a, u, r) ==
  /\ email[u] # None
  /\ roleName[r] # None
  /\ roleName[r] = "admin" => IsAdmin(a)
  /\ InsertUserRole(u, r)
  /\ UNCHANGED <<email, username, active, roleTables, groupTables>>

RemoveRole(a, u, r) ==
  /\ roleName[r] = "admin" => IsAdmin(a) /\ email[u] # SuperEmail
  /\ r \in rolesOf[u]
  /\ rolesOf' = [rolesOf EXCEPT ![u] = @ \ {r}]
  /\ UNCHANGED <<email, username, active, roleTables, groupTables>>

-----------------------------------------------------------------------------
(* Roles: role_service *)

CreateRole(n) ==
  \E r \in RoleId :
    /\ roleName[r] = None
    /\ ~Held(roleName, n)
    /\ roleName' = [roleName EXCEPT ![r] = n]
    /\ UNCHANGED <<perms, permsOf, userTables, groupTables>>

RenameRole(r, n) ==
  /\ roleName[r] \notin {None, "admin"}
  /\ FreeFor(roleName, r, n)
  /\ roleName' = [roleName EXCEPT ![r] = n]
  /\ UNCHANGED <<perms, permsOf, userTables, groupTables>>

(* The users for whom r is the last role, as counted after its removal. *)
LosersOf_CountedBefore(r) == {u \in UserId : r \in rolesOf[u] /\ rolesOf[u] = {}}

LosersOf(r) == {u \in UserId : rolesOf[u] = {r}}

(* The role the losers fall back to: the one named guest, created when no  *)
(* role has that name.                                                     *)
FallbackRoles ==
  IF Held(roleName, "guest")
  THEN {r \in RoleId : roleName[r] = "guest"}
  ELSE {r \in RoleId : roleName[r] = None}

(* What ON DELETE CASCADE leaves of user_group_roles. *)
GroupRolesWithout_NoCascade(r) == grolesOf

GroupRolesWithout(r) == [g \in GroupId |-> grolesOf[g] \ {r}]

(* Each affected user loses r and, if nothing is left, gets the fallback;  *)
(* then the row of r goes and its foreign keys cascade.  When r is itself  *)
(* the guest role the fallback assignment is cascaded away with it, and    *)
(* with no losers no fallback is looked up: g stands for nothing then.     *)
DeleteRole(r) ==
  /\ roleName[r] \notin {None, "admin"}
  /\ \E g \in (IF LosersOf(r) = {} THEN {r} ELSE FallbackRoles) :
       /\ roleName' = [[roleName EXCEPT ![g] = "guest"] EXCEPT ![r] = None]
       /\ rolesOf' = [u \in UserId |->
                        (rolesOf[u] \cup IF u \in LosersOf(r) THEN {g} ELSE {}) \ {r}]
  /\ permsOf' = [permsOf EXCEPT ![r] = {}]
  /\ grolesOf' = GroupRolesWithout(r)
  /\ UNCHANGED <<perms, email, username, active, groupName, members>>

-----------------------------------------------------------------------------
(* Groups: group_service *)

CreateGroup(n) ==
  \E g \in GroupId :
    /\ groupName[g] = None
    /\ ~Held(groupName, n)
    /\ groupName' = [groupName EXCEPT ![g] = n]
    /\ UNCHANGED <<members, grolesOf, userTables, roleTables>>

RenameGroup_GuestToo(g, n) ==
  /\ groupName[g] \notin {None, "admin"}
  /\ FreeFor(groupName, g, n)
  /\ groupName' = [groupName EXCEPT ![g] = n]
  /\ UNCHANGED <<members, grolesOf, userTables, roleTables>>

RenameGroup(g, n) ==
  /\ groupName[g] \notin {None, "admin", "guest"}
  /\ FreeFor(groupName, g, n)
  /\ groupName' = [groupName EXCEPT ![g] = n]
  /\ UNCHANGED <<members, grolesOf, userTables, roleTables>>

DeleteGroup(g) ==
  /\ groupName[g] \notin {None, "admin", "guest"}
  /\ members[g] = {}
  /\ groupName' = [groupName EXCEPT ![g] = None]
  /\ grolesOf' = [grolesOf EXCEPT ![g] = {}]
  /\ UNCHANGED <<members, userTables, roleTables>>

(* An unknown user or group violates a foreign key of the membership row. *)
AddMember(a, g, u) ==
  /\ groupName[g] = "admin" => IsAdmin(a)
  /\ groupName[g] # None /\ email[u] # None
  /\ u \notin members[g]
  /\ members' = [members EXCEPT ![g] = @ \cup {u}]
  /\ UNCHANGED <<groupName, grolesOf, userTables, roleTables>>

RemoveMember_SuperToo(a, g, u) ==
  /\ groupName[g] = "admin" => IsAdmin(a)
  /\ u \in members[g]
  /\ members' = [members EXCEPT ![g] = @ \ {u}]
  /\ UNCHANGED <<groupName, grolesOf, userTables, roleTables>>

RemoveMember(a, g, u) ==
  /\ groupName[g] = "admin" => IsAdmin(a) /\ email[u] # SuperEmail
  /\ u \in members[g]
  /\ members' = [members EXCEPT ![g] = @ \ {u}]
  /\ UNCHANGED <<groupName, grolesOf, userTables, roleTables>>

AssignGroupRole(a, g, r) ==
  /\ roleName[r] # None /\ groupName[g] # None
  /\ roleName[r] = "admin" => IsAdmin(a)
  /\ r \notin grolesOf[g]
  /\ grolesOf' = [grolesOf EXCEPT ![g] = @ \cup {r}]
  /\ UNCHANGED <<groupName, members, userTables, roleTables>>

RemoveGroupRole(g, r) ==
  /\ r \in grolesOf[g]
  /\ grolesOf' = [grolesOf EXCEPT ![g] = @ \ {r}]
  /\ UNCHANGED <<groupName, members, userTables, roleTables>>

-----------------------------------------------------------------------------
(* Permissions: permission_service *)

CreatePermission(p) ==
  /\ p \notin perms
  /\ perms' = perms \cup {p}
  /\ UNCHANGED <<roleName, permsOf, userTables, groupTables>>

(* The row keeps its key, so its assignments follow the new name. *)
RenamePermission(p, q) ==
  /\ p \in perms \ {"admin"}
  /\ q \notin perms
  /\ perms' = (perms \ {p}) \cup {q}
  /\ permsOf' = [r \in RoleId |-> IF p \in permsOf[r]
                                  THEN (permsOf[r] \ {p}) \cup {q}
                                  ELSE permsOf[r]]
  /\ UNCHANGED <<roleName, userTables, groupTables>>

DeletePermission(p) ==
  /\ p \in perms \ {"admin"}
  /\ perms' = perms \ {p}
  /\ permsOf' = [r \in RoleId |-> permsOf[r] \ {p}]
  /\ UNCHANGED <<roleName, userTables, groupTables>>

AssignPermission(r, p) ==
  /\ roleName[r] # None
  /\ p \in perms
  /\ p \notin permsOf[r]
  /\ permsOf' = [permsOf EXCEPT ![r] = @ \cup {p}]
  /\ UNCHANGED <<roleName, perms, userTables, groupTables>>

RemovePermission(r, p) ==
  /\ p \in permsOf[r]
  /\ permsOf' = [permsOf EXCEPT ![r] = @ \ {p}]
  /\ UNCHANGED <<roleName, perms, userTables, groupTables>>

SetRolePermissions(r, ps) ==
  /\ roleName[r] # None
  /\ ps \subseteq perms
  /\ permsOf' = [permsOf EXCEPT ![r] = ps]
  /\ UNCHANGED <<roleName, perms, userTables, groupTables>>

(* delete_resource takes the permissions that were linked to the resource  *)
(* with it: any but admin, which has no resource_id and cannot get one.    *)
DeleteResource(ps) ==
  /\ ps \subseteq perms \ {"admin"}
  /\ perms' = perms \ ps
  /\ permsOf' = [r \in RoleId |-> permsOf[r] \ ps]
  /\ UNCHANGED <<roleName, userTables, groupTables>>

-----------------------------------------------------------------------------
(* The endpoints: who may call what.  a is the bearer of the access token. *)

UsersApi ==
  \E a \in UserId :
    \/ /\ MayCall(a, "users.write")
       /\ \E e \in Email, n \in Username : CreateUser(e, n)
    \/ /\ Authenticated(a)
       /\ \E u \in UserId, e \in Email, n \in Username,
             flag \in {"omitted", "true", "false"} :
            /\ u # a => HasPermission(a, "users.write")
            /\ UpdateUser(u, e, n, flag)
    \/ MayCall(a, "users.delete") /\ \E u \in UserId : DeleteUser(a, u)
    \/ /\ MayCall(a, "users.write")
       /\ \E u \in UserId, r \in RoleId : AssignRole(a, u, r) \/ RemoveRole(a, u, r)

RolesApi ==
  \E a \in UserId :
    \/ /\ MayCall(a, "roles.write")
       /\ \E n \in RoleName : CreateRole(n) \/ \E r \in RoleId : RenameRole(r, n)
    \/ MayCall(a, "roles.delete") /\ \E r \in RoleId : DeleteRole(r)

GroupsApi ==
  \E a \in UserId :
    \/ /\ MayCall(a, "groups.write")
       /\ \/ \E n \in GroupName : CreateGroup(n) \/ \E g \in GroupId : RenameGroup(g, n)
          \/ \E g \in GroupId, u \in UserId : AddMember(a, g, u) \/ RemoveMember(a, g, u)
          \/ \E g \in GroupId, r \in RoleId : AssignGroupRole(a, g, r) \/ RemoveGroupRole(g, r)
    \/ MayCall(a, "groups.delete") /\ \E g \in GroupId : DeleteGroup(g)

PermissionsApi ==
  \E a \in UserId :
    \/ /\ MayCall(a, "permissions.write")
       /\ \/ \E p \in PermName : CreatePermission(p) \/ \E q \in PermName : RenamePermission(p, q)
          \/ \E r \in RoleId, p \in PermName : AssignPermission(r, p) \/ RemovePermission(r, p)
          \/ \E r \in RoleId, ps \in SUBSET PermName : SetRolePermissions(r, ps)
    \/ MayCall(a, "permissions.delete") /\ \E p \in PermName : DeletePermission(p)
    \/ MayCall(a, "resources.delete") /\ \E ps \in SUBSET PermName : DeleteResource(ps)

Serve ==
  /\ server = "up"
  /\ requests < MaxRequests
  /\ requests' = requests + 1
  /\ UsersApi \/ RolesApi \/ GroupsApi \/ PermissionsApi
  /\ UNCHANGED server

-----------------------------------------------------------------------------
(* Seeding: the lifespan handler, in one transaction *)

(* The ways to insert one row per name under keys the column does not use. *)
Insertions(column, names) ==
  {f \in [names -> {k \in DOMAIN column : column[k] = None}] :
     \A m, n \in names : f[m] = f[n] => m = n}

WithRows(column, f) ==
  [k \in DOMAIN column |->
     IF \E n \in DOMAIN f : f[n] = k THEN CHOOSE n \in DOMAIN f : f[n] = k
                                     ELSE column[k]]

Missing(column, names) == {n \in names : ~Held(column, n)}

SeedRoles ==
  \E f \in Insertions(roleName, Missing(roleName, InitialRoles)) :
    roleName' = WithRows(roleName, f)

(* The roles are looked up by name after SeedRoles has run.  Assignments   *)
(* an administrator added are kept.                                        *)
SeedPermissions_BeforeRoles ==
  /\ perms' = perms \cup DefaultPerms
  /\ permsOf' = [r \in RoleId |->
       permsOf[r] \cup IF roleName[r] \in InitialRoles THEN DefaultRolePerms[roleName[r]] ELSE {}]

SeedPermissions ==
  /\ perms' = perms \cup DefaultPerms
  /\ permsOf' = [r \in RoleId |->
       permsOf[r] \cup IF roleName'[r] \in InitialRoles THEN DefaultRolePerms[roleName'[r]] ELSE {}]

(* The group named admin gets the role of that name, and so does guest. *)
SeedGroups ==
  /\ \E f \in Insertions(groupName, Missing(groupName, {"admin", "guest"})) :
       groupName' = WithRows(groupName, f)
  /\ grolesOf' = [g \in GroupId |-> grolesOf[g] \cup
       {r \in RoleId : groupName'[g] \in {"admin", "guest"} /\ roleName'[r] = groupName'[g]}]

(* The two accounts are found by address and created under their user      *)
(* name; each then gets the role, and joins the group, of its own name.    *)
SeededName(e) == IF e = SuperEmail THEN SuperName ELSE GuestName

CanSeedUsers ==
  \A e \in {SuperEmail, GuestEmail} : Held(email, e) \/ ~Held(username, SeededName(e))

SeedUsers ==
  /\ CanSeedUsers
  /\ \E f \in Insertions(email, Missing(email, {SuperEmail, GuestEmail})) :
       LET created == {f[e] : e \in DOMAIN f}
       IN  /\ email' = WithRows(email, f)
           /\ username' = [u \in UserId |-> IF u \in created THEN SeededName(email'[u])
                                                             ELSE username[u]]
           /\ active' = [u \in UserId |-> u \in created \/ active[u]]
  /\ LET nameOf(u) == IF email'[u] = SuperEmail THEN "admin"
                      ELSE IF email'[u] = GuestEmail THEN "guest" ELSE None
     IN  /\ rolesOf' = [u \in UserId |-> rolesOf[u] \cup
              {r \in RoleId : nameOf(u) # None /\ roleName'[r] = nameOf(u)}]
         /\ members' = [g \in GroupId |-> members[g] \cup
              {u \in UserId : nameOf(u) # None /\ groupName'[g] = nameOf(u)}]

Boot ==
  /\ server \in {"new", "down"}
  /\ SeedRoles /\ SeedPermissions /\ SeedGroups /\ SeedUsers
  /\ server' = "up"
  /\ UNCHANGED requests

(* A unique index rejects a seeded account: the transaction rolls back and *)
(* the lifespan handler raises, so the process ends.                       *)
BootFails ==
  /\ server = "down"
  /\ ~CanSeedUsers
  /\ server' = "failed"
  /\ UNCHANGED <<requests, database>>

(* The server stops, or crashes, between two transactions. *)
Stop ==
  /\ server = "up"
  /\ server' = "down"
  /\ UNCHANGED <<requests, database>>

Next == Serve \/ Boot \/ BootFails \/ Stop

Spec == Init /\ [][Next]_vars

-----------------------------------------------------------------------------
(* Safety *)

(* Every association row refers to existing rows and every assigned        *)
(* permission exists, whatever was deleted, renamed or replaced: the       *)
(* cascades of delete_user, delete_role, delete_group, delete_permission.  *)
ReferentialIntegrity ==
  /\ \A u \in UserId : email[u] = None =>
       rolesOf[u] = {} /\ \A g \in GroupId : u \notin members[g]
  /\ \A r \in RoleId : roleName[r] = None =>
       /\ permsOf[r] = {}
       /\ \A u \in UserId : r \notin rolesOf[u]
       /\ \A g \in GroupId : r \notin grolesOf[g]
  /\ \A g \in GroupId : groupName[g] = None => members[g] = {} /\ grolesOf[g] = {}
  /\ \A r \in RoleId : permsOf[r] \subseteq perms

UniqueIn(column) ==
  \A j, k \in DOMAIN column : column[j] = column[k] /\ column[j] # None => j = k

(* No two rows share an address, a user name, a role name or a group name, *)
(* through creations, renames, on-demand guest roles and seeding.          *)
UniqueNames ==
  /\ UniqueIn(email) /\ UniqueIn(username)
  /\ UniqueIn(roleName) /\ UniqueIn(groupName)

(* Once the server has started, the rows every guard is keyed on exist for *)
(* good: the admin role, the admin permission, the admin and guest groups. *)
AnchorsExist ==
  server # "new" =>
    /\ Held(roleName, "admin")
    /\ "admin" \in perms
    /\ Held(groupName, "admin")
    /\ Held(groupName, "guest")

HoldsRole(u, n) == \E r \in rolesOf[u] : roleName[r] = n

InGroup(u, n) == \E g \in GroupId : groupName[g] = n /\ u \in members[g]

SystemAdmin(u) == active[u] /\ HoldsRole(u, "admin") /\ InGroup(u, "admin")

(* While an account keeps the superuser address, no request deletes it,    *)
(* switches it off, or takes it out of the admin role or the admin group,  *)
(* be it directly or by deleting or renaming the role or the group.        *)
SystemAdminKept ==
  [][\A u \in UserId :
       email[u] = SuperEmail /\ email'[u] \in {SuperEmail, None} =>
         /\ email'[u] = SuperEmail
         /\ SystemAdmin(u) => SystemAdmin(u)']_vars

(* What administration rests on: the permission that passes every check,   *)
(* and the one that lets its holder assign any permission to any role.     *)
Powers == {"admin", "permissions.write"}

(* Nobody administers, and there is no side door.  No account has a power, *)
(* a deactivated one included (a users.write holder could reactivate it);  *)
(* no role but the one named admin carries a power (it is assigned without *)
(* a check); no group but the one named admin brings the admin role with   *)
(* it (it is joined without a check).                                      *)
Sealed ==
  /\ \A u \in UserId : PermissionsOf(u) \cap Powers = {}
  /\ \A r \in RoleId : permsOf[r] \cap Powers # {} => roleName[r] = "admin"
  /\ \A g \in GroupId, r \in RoleId :
       r \in grolesOf[g] /\ roleName[r] = "admin" => groupName[g] = "admin"

(* Once administration is lost like that it stays lost for as long as the  *)
(* server runs: no request opens a side door or moves anybody into the     *)
(* admin role or the admin group, so neither does any sequence of them.    *)
(* The next start gives the admin role its permission back, and finds      *)
(* there only those who were in it before.                                 *)
AdminStaysLost ==
  [][server = "up" /\ Sealed =>
       /\ Sealed'
       /\ \A u \in UserId : /\ HoldsRole(u, "admin")' => HoldsRole(u, "admin")
                            /\ InGroup(u, "admin")' => InGroup(u, "admin")]_vars

Deleted(n) == \E r \in RoleId : roleName[r] = n /\ roleName'[r] = None

(* A user whose account remains loses its last role only by a request that *)
(* removes that very assignment, or by the deletion of the guest role.     *)
FallbackKept ==
  [][\A u \in UserId :
       rolesOf[u] # {} /\ rolesOf'[u] = {} /\ email'[u] # None =>
         roleName' = roleName \/ Deleted("guest")]_vars

(* What a start of the server promises of the database. *)
Seeded ==
  /\ DefaultPerms \subseteq perms
  /\ \A n \in InitialRoles : \E r \in RoleId :
       roleName[r] = n /\ DefaultRolePerms[n] \subseteq permsOf[r]
  /\ \A n \in {"admin", "guest"} : \E g \in GroupId, r \in RoleId :
       groupName[g] = n /\ roleName[r] = n /\ r \in grolesOf[g]
  /\ \E u \in UserId : email[u] = SuperEmail /\ HoldsRole(u, "admin") /\ InGroup(u, "admin")
  /\ \E u \in UserId : email[u] = GuestEmail /\ HoldsRole(u, "guest") /\ InGroup(u, "guest")

Starts == server # "up" /\ server' = "up"

(* Whatever administrators removed or renamed, a start that succeeds puts  *)
(* every seeded row and assignment back, and the superuser account is an   *)
(* administrator again.                                                    *)
StartRestores ==
  [][Starts => /\ Seeded'
               /\ (\A u \in UserId : email[u] = SuperEmail => IsAdmin(u))']_vars

(* Seeding is idempotent: on a database that already has every seeded row  *)
(* it changes nothing, what administrators added included.                 *)
SeedingIdempotent == [][Starts /\ Seeded => UNCHANGED database]_vars
=============================================================================
