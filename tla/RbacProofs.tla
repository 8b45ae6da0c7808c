----------------------------- MODULE RbacProofs -----------------------------
(***************************************************************************)
(* Proofs about Rbac, for any sets of keys, names and permissions, any     *)
(* initial roles with their permissions, and any number of requests.       *)
(***************************************************************************)
EXTENDS Rbac, TLAPS

-----------------------------------------------------------------------------
(* Operators the steps are built from *)

(* What seeding does to a column with a unique index: it gets every name   *)
(* it misses, once, in rows that did not exist.                            *)
Seeding(column, new, K, V, N) ==
  /\ new \in [K -> V \cup {None}]
  /\ \A n \in N : \E k \in K : new[k] = n
  /\ \A k \in K : column[k] # None => new[k] = column[k]
  /\ \A k \in K : column[k] = None => new[k] \in {None} \cup Missing(column, N)
  /\ UniqueIn(column) => UniqueIn(new)
  /\ Missing(column, N) = {} => new = column

(* The rows f fills are the new ones.                                      *)
Fills(f, column, new, K) ==
  \A k \in K : (\E n \in DOMAIN f : f[n] = k) <=> column[k] = None /\ new[k] # None

LEMMA SeededColumn ==
  ASSUME NEW K, NEW V, NEW N, N \subseteq V, None \notin V,
         NEW column, column \in [K -> V \cup {None}],
         NEW f \in Insertions(column, Missing(column, N))
  PROVE  /\ Seeding(column, WithRows(column, f), K, V, N)
         /\ Fills(f, column, WithRows(column, f), K)
<1> DEFINE M == Missing(column, N)
           w == WithRows(column, f)
           Filled(k) == \E n \in M : f[n] = k
<1>1. /\ DOMAIN column = K /\ DOMAIN f = M /\ M \subseteq N
      /\ \A n \in M : f[n] \in K /\ column[f[n]] = None
      /\ \A m, n \in M : f[m] = f[n] => m = n
      /\ \A n \in M, k \in K : column[k] # n
  BY DEF Insertions, Missing, Held
<1>2. w = [k \in K |-> IF Filled(k) THEN CHOOSE n \in M : f[n] = k ELSE column[k]]
  BY <1>1 DEF WithRows
<1>3. ASSUME NEW k \in K, Filled(k) PROVE w[k] \in M /\ f[w[k]] = k
  <2>1. w[k] = CHOOSE n \in M : f[n] = k
    BY <1>2, <1>3
  <2> QED
    BY <1>3, <2>1
<1>4. ASSUME NEW k \in K, ~Filled(k) PROVE w[k] = column[k]
  BY <1>2, <1>4
<1>5. \A n \in M : w[f[n]] = n
  BY <1>1, <1>3
<1>6. w \in [K -> V \cup {None}]
  BY <1>1, <1>2, <1>3, <1>4
<1>7. DOMAIN w = K
  BY <1>2
<1> HIDE DEF w, Filled
<1>8. \A n \in N : \E k \in K : w[k] = n
  <2>1. ASSUME NEW n \in M PROVE \E k \in K : w[k] = n
    BY <1>1, <1>5
  <2>2. ASSUME NEW n \in N, n \notin M PROVE \E k \in K : w[k] = n
    <3>1. PICK k \in K : column[k] = n
      BY <1>1, <2>2 DEF Missing, Held
    <3>2. ~Filled(k)
      BY <1>1, <3>1 DEF Filled
    <3> QED
      BY <1>4, <3>1, <3>2
  <2> QED
    BY <2>1, <2>2
<1>9. \A k \in K : column[k] # None => w[k] = column[k]
  BY <1>1, <1>4 DEF Filled
<1>10. \A k \in K : column[k] = None => w[k] \in {None} \cup M
  BY <1>3, <1>4
<1>11. UniqueIn(column) => UniqueIn(w)
  <2> SUFFICES ASSUME UniqueIn(column), NEW j \in K, NEW k \in K, w[j] = w[k], w[j] # None
               PROVE  j = k
    BY <1>7 DEF UniqueIn
  <2>1. CASE Filled(j) /\ Filled(k)
    BY <1>3, <2>1
  <2>2. CASE Filled(j) /\ ~Filled(k)
    BY <1>1, <1>3, <1>4, <2>2
  <2>3. CASE ~Filled(j) /\ Filled(k)
    BY <1>1, <1>3, <1>4, <2>3
  <2>4. CASE ~Filled(j) /\ ~Filled(k)
    BY <1>1, <1>4, <2>4 DEF UniqueIn
  <2> QED
    BY <2>1, <2>2, <2>3, <2>4
<1>12. M = {} => w = column
  <2> SUFFICES ASSUME M = {} PROVE \A k \in K : w[k] = column[k]
    BY <1>6
  <2> QED
    BY <1>4 DEF Filled
<1>13. ASSUME NEW k \in K PROVE Filled(k) <=> column[k] = None /\ w[k] # None
  BY <1>1, <1>3, <1>4 DEF Filled
<1>14. \A k \in K : (\E n \in DOMAIN f : f[n] = k) <=> Filled(k)
  BY <1>1 DEF Filled
<1> QED
  BY <1>6, <1>8, <1>9, <1>10, <1>11, <1>12, <1>13, <1>14 DEF w, Seeding, Fills

(* What the deletion of role r does to the role names and the users: g is  *)
(* the fallback, or r itself when nobody needs one.                        *)
LEMMA DeleteRoleEffect ==
  ASSUME TypeOK, NEW r \in RoleId, DeleteRole(r)
  PROVE  \E g \in RoleId :
           /\ roleName' = [x \in RoleId |-> IF x = r THEN None
                                           ELSE IF x = g THEN "guest" ELSE roleName[x]]
           /\ rolesOf' = [u \in UserId |->
                (rolesOf[u] \cup IF rolesOf[u] = {r} THEN {g} ELSE {}) \ {r}]
           /\ \/ g = r /\ \A u \in UserId : rolesOf[u] # {r}
              \/ roleName[g] = "guest"
              \/ roleName[g] = None /\ ~Held(roleName, "guest")
<1>1. PICK g \in (IF LosersOf(r) = {} THEN {r} ELSE FallbackRoles) :
        /\ roleName' = [[roleName EXCEPT ![g] = "guest"] EXCEPT ![r] = None]
        /\ rolesOf' = [u \in UserId |->
                         (rolesOf[u] \cup IF u \in LosersOf(r) THEN {g} ELSE {}) \ {r}]
  BY DEF DeleteRole
<1>2. /\ g \in RoleId
      /\ \/ g = r /\ \A u \in UserId : rolesOf[u] # {r}
         \/ roleName[g] = "guest"
         \/ roleName[g] = None /\ ~Held(roleName, "guest")
  BY <1>1 DEF FallbackRoles, LosersOf
<1>3. roleName' = [x \in RoleId |-> IF x = r THEN None
                                    ELSE IF x = g THEN "guest" ELSE roleName[x]]
  BY <1>1, <1>2 DEF TypeOK
<1>4. rolesOf' = [u \in UserId |->
                   (rolesOf[u] \cup IF rolesOf[u] = {r} THEN {g} ELSE {}) \ {r}]
  BY <1>1 DEF LosersOf
<1> QED
  BY <1>2, <1>3, <1>4

-----------------------------------------------------------------------------
(* Requests preserve the invariants *)

LEMMA TypeServe ==
  ASSUME TypeOK, Serve
  PROVE  TypeOK'
<1>r. server' = server /\ requests' \in 0 .. MaxRequests
  BY BoundAssumption DEF Serve, TypeOK
<1>1. ASSUME NEW e \in Email, NEW n \in Username, CreateUser(e, n)
      PROVE TypeOK'
  BY <1>1, <1>r DEF CreateUser, Held, TypeOK, userTables, roleTables, groupTables
<1>2. ASSUME NEW u \in UserId, NEW e \in Email, NEW n \in Username,
             NEW flag \in {"omitted", "true", "false"}, UpdateUser(u, e, n, flag)
      PROVE TypeOK'
  BY <1>2, <1>r DEF UpdateUser, FreeFor, TypeOK, userTables, roleTables, groupTables
<1>3. ASSUME NEW a \in UserId, NEW u \in UserId, DeleteUser(a, u) PROVE TypeOK'
  BY <1>3, <1>r DEF DeleteUser, TypeOK, userTables, roleTables, groupTables
<1>4. ASSUME NEW a \in UserId, NEW u \in UserId, NEW r \in RoleId, AssignRole(a, u, r)
      PROVE TypeOK'
  BY <1>4, <1>r DEF AssignRole, InsertUserRole, TypeOK, userTables, roleTables,
                    groupTables
<1>5. ASSUME NEW a \in UserId, NEW u \in UserId, NEW r \in RoleId, RemoveRole(a, u, r)
      PROVE TypeOK'
  BY <1>5, <1>r DEF RemoveRole, TypeOK, userTables, roleTables, groupTables
<1>6. ASSUME NEW n \in RoleName, CreateRole(n) PROVE TypeOK'
  BY <1>6, <1>r DEF CreateRole, Held, TypeOK, userTables, roleTables, groupTables
<1>7. ASSUME NEW r \in RoleId, NEW n \in RoleName, RenameRole(r, n)
      PROVE TypeOK'
  BY <1>7, <1>r DEF RenameRole, FreeFor, TypeOK, userTables, roleTables, groupTables
<1>8. ASSUME NEW r \in RoleId, DeleteRole(r) PROVE TypeOK'
  <2>1. PICK g \in RoleId :
          /\ roleName' = [x \in RoleId |-> IF x = r THEN None
                                          ELSE IF x = g THEN "guest" ELSE roleName[x]]
          /\ rolesOf' = [u \in UserId |->
               (rolesOf[u] \cup IF rolesOf[u] = {r} THEN {g} ELSE {}) \ {r}]
    BY <1>8, DeleteRoleEffect
  <2>2. /\ roleName' \in [RoleId -> RoleName \cup {None}]
        /\ rolesOf' \in [UserId -> SUBSET RoleId]
    BY <2>1, NamesAssumption DEF TypeOK
  <2> QED
    BY <1>8, <1>r, <2>2 DEF DeleteRole, GroupRolesWithout, TypeOK
<1>9. ASSUME NEW n \in GroupName, CreateGroup(n) PROVE TypeOK'
  BY <1>9, <1>r DEF CreateGroup, Held, TypeOK, userTables, roleTables, groupTables
<1>10. ASSUME NEW g \in GroupId, NEW n \in GroupName, RenameGroup(g, n)
      PROVE TypeOK'
  BY <1>10, <1>r DEF RenameGroup, FreeFor, TypeOK, userTables, roleTables, groupTables
<1>11. ASSUME NEW g \in GroupId, DeleteGroup(g) PROVE TypeOK'
  BY <1>11, <1>r DEF DeleteGroup, TypeOK, userTables, roleTables, groupTables
<1>12. ASSUME NEW a \in UserId, NEW g \in GroupId, NEW u \in UserId, AddMember(a, g, u)
      PROVE TypeOK'
  BY <1>12, <1>r DEF AddMember, TypeOK, userTables, roleTables, groupTables
<1>13. ASSUME NEW a \in UserId, NEW g \in GroupId, NEW u \in UserId, RemoveMember(a, g, u)
      PROVE TypeOK'
  BY <1>13, <1>r DEF RemoveMember, TypeOK, userTables, roleTables, groupTables
<1>14. ASSUME NEW a \in UserId, NEW g \in GroupId, NEW r \in RoleId, AssignGroupRole(a, g, r)
      PROVE TypeOK'
  BY <1>14, <1>r DEF AssignGroupRole, TypeOK, userTables, roleTables, groupTables
<1>15. ASSUME NEW g \in GroupId, NEW r \in RoleId, RemoveGroupRole(g, r)
      PROVE TypeOK'
  BY <1>15, <1>r DEF RemoveGroupRole, TypeOK, userTables, roleTables, groupTables
<1>16. ASSUME NEW p \in PermName, CreatePermission(p) PROVE TypeOK'
  BY <1>16, <1>r DEF CreatePermission, TypeOK, userTables, roleTables, groupTables
<1>17. ASSUME NEW p \in PermName, NEW q \in PermName, RenamePermission(p, q)
      PROVE TypeOK'
  BY <1>17, <1>r DEF RenamePermission, TypeOK, userTables, roleTables, groupTables
<1>18. ASSUME NEW p \in PermName, DeletePermission(p) PROVE TypeOK'
  BY <1>18, <1>r DEF DeletePermission, TypeOK, userTables, roleTables, groupTables
<1>19. ASSUME NEW r \in RoleId, NEW p \in PermName, AssignPermission(r, p)
      PROVE TypeOK'
  BY <1>19, <1>r DEF AssignPermission, TypeOK, userTables, roleTables, groupTables
<1>20. ASSUME NEW r \in RoleId, NEW p \in PermName, RemovePermission(r, p)
      PROVE TypeOK'
  BY <1>20, <1>r DEF RemovePermission, TypeOK, userTables, roleTables, groupTables
<1>21. ASSUME NEW r \in RoleId, NEW ps \in SUBSET PermName, SetRolePermissions(r, ps)
      PROVE TypeOK'
  BY <1>21, <1>r DEF SetRolePermissions, TypeOK, userTables, roleTables, groupTables
<1>22. ASSUME NEW ps \in SUBSET PermName, DeleteResource(ps) PROVE TypeOK'
  BY <1>22, <1>r DEF DeleteResource, TypeOK, userTables, roleTables, groupTables
<1> QED
  BY <1>1, <1>2, <1>3, <1>4, <1>5, <1>6, <1>7, <1>8, <1>9, <1>10, <1>11, <1>12,
     <1>13, <1>14, <1>15, <1>16, <1>17, <1>18, <1>19, <1>20, <1>21, <1>22
  DEF Serve, UsersApi, RolesApi, GroupsApi, PermissionsApi

LEMMA IntegrityServe ==
  ASSUME TypeOK, ReferentialIntegrity, Serve
  PROVE  ReferentialIntegrity'
<1>1. ASSUME NEW e \in Email, NEW n \in Username, CreateUser(e, n)
      PROVE ReferentialIntegrity'
  BY <1>1, NoneAssumption DEF CreateUser, Held, ReferentialIntegrity, TypeOK,
                              userTables, roleTables, groupTables
<1>2. ASSUME NEW u \in UserId, NEW e \in Email, NEW n \in Username,
             NEW flag \in {"omitted", "true", "false"}, UpdateUser(u, e, n, flag)
      PROVE ReferentialIntegrity'
  BY <1>2, NoneAssumption DEF UpdateUser, FreeFor, ReferentialIntegrity, TypeOK,
                              userTables, roleTables, groupTables
<1>3. ASSUME NEW a \in UserId, NEW u \in UserId, DeleteUser(a, u) PROVE ReferentialIntegrity'
  BY <1>3, NoneAssumption DEF DeleteUser, ReferentialIntegrity, TypeOK, userTables,
                              roleTables, groupTables
<1>4. ASSUME NEW a \in UserId, NEW u \in UserId, NEW r \in RoleId, AssignRole(a, u, r)
      PROVE ReferentialIntegrity'
  BY <1>4, NoneAssumption DEF AssignRole, InsertUserRole, ReferentialIntegrity,
                              TypeOK, userTables, roleTables, groupTables
<1>5. ASSUME NEW a \in UserId, NEW u \in UserId, NEW r \in RoleId, RemoveRole(a, u, r)
      PROVE ReferentialIntegrity'
  BY <1>5, NoneAssumption DEF RemoveRole, ReferentialIntegrity, TypeOK, userTables,
                              roleTables, groupTables
<1>6. ASSUME NEW n \in RoleName, CreateRole(n) PROVE ReferentialIntegrity'
  BY <1>6, NoneAssumption DEF CreateRole, Held, ReferentialIntegrity, TypeOK,
                              userTables, roleTables, groupTables
<1>7. ASSUME NEW r \in RoleId, NEW n \in RoleName, RenameRole(r, n)
      PROVE ReferentialIntegrity'
  BY <1>7, NoneAssumption DEF RenameRole, FreeFor, ReferentialIntegrity, TypeOK,
                              userTables, roleTables, groupTables
<1>8. ASSUME NEW r \in RoleId, DeleteRole(r) PROVE ReferentialIntegrity'
  <2>1. PICK g \in RoleId :
          /\ roleName' = [x \in RoleId |-> IF x = r THEN None
                                          ELSE IF x = g THEN "guest" ELSE roleName[x]]
          /\ rolesOf' = [u \in UserId |->
               (rolesOf[u] \cup IF rolesOf[u] = {r} THEN {g} ELSE {}) \ {r}]
    BY <1>8, DeleteRoleEffect
  <2>2. \A x \in RoleId : roleName'[x] = None => x = r \/ (x # g /\ roleName[x] = None)
    BY <2>1, NamesAssumption, NoneAssumption
  <2>3. \A u \in UserId : rolesOf[u] = {} => rolesOf'[u] = {}
    BY <2>1
  <2>4. \A u \in UserId : rolesOf'[u] \subseteq (rolesOf[u] \cup {g}) \ {r}
    BY <2>1
  <2>5. /\ email' = email /\ groupName' = groupName /\ members' = members /\ perms' = perms
        /\ permsOf' = [permsOf EXCEPT ![r] = {}]
        /\ \A h \in GroupId : grolesOf'[h] = grolesOf[h] \ {r}
    BY <1>8 DEF DeleteRole, GroupRolesWithout
  <2>6. \A u \in UserId : email'[u] = None =>
          rolesOf'[u] = {} /\ \A h \in GroupId : u \notin members'[h]
    BY <2>3, <2>5 DEF ReferentialIntegrity
  <2>7. \A x \in RoleId : roleName'[x] = None =>
          /\ permsOf'[x] = {}
          /\ \A u \in UserId : x \notin rolesOf'[u]
          /\ \A h \in GroupId : x \notin grolesOf'[h]
    BY <2>2, <2>4, <2>5 DEF TypeOK, ReferentialIntegrity
  <2>8. \A h \in GroupId : groupName'[h] = None => members'[h] = {} /\ grolesOf'[h] = {}
    BY <2>5 DEF ReferentialIntegrity
  <2>9. \A x \in RoleId : permsOf'[x] \subseteq perms'
    BY <2>5 DEF TypeOK, ReferentialIntegrity
  <2> QED
    BY <2>6, <2>7, <2>8, <2>9 DEF ReferentialIntegrity
<1>9. ASSUME NEW n \in GroupName, CreateGroup(n) PROVE ReferentialIntegrity'
  BY <1>9, NoneAssumption DEF CreateGroup, Held, ReferentialIntegrity, TypeOK,
                              userTables, roleTables, groupTables
<1>10. ASSUME NEW g \in GroupId, NEW n \in GroupName, RenameGroup(g, n)
      PROVE ReferentialIntegrity'
  BY <1>10, NoneAssumption DEF RenameGroup, FreeFor, ReferentialIntegrity, TypeOK,
                               userTables, roleTables, groupTables
<1>11. ASSUME NEW g \in GroupId, DeleteGroup(g) PROVE ReferentialIntegrity'
  BY <1>11, NoneAssumption DEF DeleteGroup, ReferentialIntegrity, TypeOK, userTables,
                               roleTables, groupTables
<1>12. ASSUME NEW a \in UserId, NEW g \in GroupId, NEW u \in UserId, AddMember(a, g, u)
      PROVE ReferentialIntegrity'
  BY <1>12, NoneAssumption DEF AddMember, ReferentialIntegrity, TypeOK, userTables,
                               roleTables, groupTables
<1>13. ASSUME NEW a \in UserId, NEW g \in GroupId, NEW u \in UserId, RemoveMember(a, g, u)
      PROVE ReferentialIntegrity'
  BY <1>13, NoneAssumption DEF RemoveMember, ReferentialIntegrity, TypeOK, userTables,
                               roleTables, groupTables
<1>14. ASSUME NEW a \in UserId, NEW g \in GroupId, NEW r \in RoleId, AssignGroupRole(a, g, r)
      PROVE ReferentialIntegrity'
  BY <1>14, NoneAssumption DEF AssignGroupRole, ReferentialIntegrity, TypeOK,
                               userTables, roleTables, groupTables
<1>15. ASSUME NEW g \in GroupId, NEW r \in RoleId, RemoveGroupRole(g, r)
      PROVE ReferentialIntegrity'
  BY <1>15, NoneAssumption DEF RemoveGroupRole, ReferentialIntegrity, TypeOK,
                               userTables, roleTables, groupTables
<1>16. ASSUME NEW p \in PermName, CreatePermission(p) PROVE ReferentialIntegrity'
  BY <1>16, NoneAssumption DEF CreatePermission, ReferentialIntegrity, TypeOK,
                               userTables, roleTables, groupTables
<1>17. ASSUME NEW p \in PermName, NEW q \in PermName, RenamePermission(p, q)
      PROVE ReferentialIntegrity'
  BY <1>17, NoneAssumption DEF RenamePermission, ReferentialIntegrity, TypeOK,
                               userTables, roleTables, groupTables
<1>18. ASSUME NEW p \in PermName, DeletePermission(p) PROVE ReferentialIntegrity'
  BY <1>18, NoneAssumption DEF DeletePermission, ReferentialIntegrity, TypeOK,
                               userTables, roleTables, groupTables
<1>19. ASSUME NEW r \in RoleId, NEW p \in PermName, AssignPermission(r, p)
      PROVE ReferentialIntegrity'
  BY <1>19, NoneAssumption DEF AssignPermission, ReferentialIntegrity, TypeOK,
                               userTables, roleTables, groupTables
<1>20. ASSUME NEW r \in RoleId, NEW p \in PermName, RemovePermission(r, p)
      PROVE ReferentialIntegrity'
  BY <1>20, NoneAssumption DEF RemovePermission, ReferentialIntegrity, TypeOK,
                               userTables, roleTables, groupTables
<1>21. ASSUME NEW r \in RoleId, NEW ps \in SUBSET PermName, SetRolePermissions(r, ps)
      PROVE ReferentialIntegrity'
  BY <1>21, NoneAssumption DEF SetRolePermissions, ReferentialIntegrity, TypeOK,
                               userTables, roleTables, groupTables
<1>22. ASSUME NEW ps \in SUBSET PermName, DeleteResource(ps) PROVE ReferentialIntegrity'
  BY <1>22, NoneAssumption DEF DeleteResource, ReferentialIntegrity, TypeOK,
                               userTables, roleTables, groupTables
<1> QED
  BY <1>1, <1>2, <1>3, <1>4, <1>5, <1>6, <1>7, <1>8, <1>9, <1>10, <1>11, <1>12,
     <1>13, <1>14, <1>15, <1>16, <1>17, <1>18, <1>19, <1>20, <1>21, <1>22
  DEF Serve, UsersApi, RolesApi, GroupsApi, PermissionsApi

(* The requests that leave the unique columns alone. *)
LEMMA OtherRequests ==
  ASSUME Serve
  PROVE  \/ UNCHANGED <<email, username, roleName, groupName>>
         \/ \E e \in Email, n \in Username : CreateUser(e, n)
         \/ \E u \in UserId, e \in Email, n \in Username,
              flag \in {"omitted", "true", "false"} : UpdateUser(u, e, n, flag)
         \/ \E a, u \in UserId : DeleteUser(a, u)
         \/ \E n \in RoleName : CreateRole(n) \/ \E r \in RoleId : RenameRole(r, n)
         \/ \E r \in RoleId : DeleteRole(r)
         \/ \E n \in GroupName : CreateGroup(n) \/ \E g \in GroupId : RenameGroup(g, n)
         \/ \E g \in GroupId : DeleteGroup(g)
<1>1. CASE UsersApi
  BY <1>1 DEF UsersApi, AssignRole, RemoveRole, roleTables, groupTables
<1>2. CASE RolesApi
  BY <1>2 DEF RolesApi
<1>3. CASE GroupsApi
  BY <1>3 DEF GroupsApi, AddMember, RemoveMember, AssignGroupRole, RemoveGroupRole,
              userTables, roleTables
<1>4. CASE PermissionsApi
  BY <1>4 DEF PermissionsApi, CreatePermission, RenamePermission, DeletePermission,
              AssignPermission, RemovePermission, SetRolePermissions, DeleteResource, userTables, groupTables
<1> QED
  BY <1>1, <1>2, <1>3, <1>4 DEF Serve

LEMMA UniqueServe ==
  ASSUME TypeOK, UniqueNames, Serve
  PROVE  UniqueNames'
<1>1. ASSUME NEW e \in Email, NEW n \in Username, CreateUser(e, n)
      PROVE UniqueNames'
  BY <1>1 DEF CreateUser, Held, UniqueNames, UniqueIn, TypeOK, roleTables, userTables,
              groupTables
<1>2. ASSUME NEW u \in UserId, NEW e \in Email, NEW n \in Username,
             NEW flag \in {"omitted", "true", "false"}, UpdateUser(u, e, n, flag)
      PROVE UniqueNames'
  BY <1>2 DEF UpdateUser, FreeFor, UniqueNames, UniqueIn, TypeOK, roleTables,
              userTables, groupTables
<1>3. ASSUME NEW a \in UserId, NEW u \in UserId, DeleteUser(a, u) PROVE UniqueNames'
  BY <1>3 DEF DeleteUser, UniqueNames, UniqueIn, TypeOK, roleTables, userTables,
              groupTables
<1>4. ASSUME NEW n \in RoleName, CreateRole(n) PROVE UniqueNames'
  BY <1>4 DEF CreateRole, Held, UniqueNames, UniqueIn, TypeOK, roleTables, userTables,
              groupTables
<1>5. ASSUME NEW r \in RoleId, NEW n \in RoleName, RenameRole(r, n)
      PROVE UniqueNames'
  BY <1>5 DEF RenameRole, FreeFor, UniqueNames, UniqueIn, TypeOK, roleTables,
              userTables, groupTables
<1>6. ASSUME NEW r \in RoleId, DeleteRole(r) PROVE UniqueNames'
  <2>1. PICK g \in RoleId :
          /\ roleName' = [x \in RoleId |-> IF x = r THEN None
                                          ELSE IF x = g THEN "guest" ELSE roleName[x]]
          /\ \/ g = r
             \/ roleName[g] = "guest"
             \/ roleName[g] = None /\ ~Held(roleName, "guest")
    BY <1>6, DeleteRoleEffect
  <2>2. UniqueIn(roleName)'
    BY <2>1 DEF UniqueNames, UniqueIn, TypeOK, Held
  <2> QED
    BY <1>6, <2>2 DEF DeleteRole, UniqueNames, UniqueIn
<1>7. ASSUME NEW n \in GroupName, CreateGroup(n) PROVE UniqueNames'
  BY <1>7 DEF CreateGroup, Held, UniqueNames, UniqueIn, TypeOK, roleTables,
              userTables, groupTables
<1>8. ASSUME NEW g \in GroupId, NEW n \in GroupName, RenameGroup(g, n)
      PROVE UniqueNames'
  BY <1>8 DEF RenameGroup, FreeFor, UniqueNames, UniqueIn, TypeOK, roleTables,
              userTables, groupTables
<1>9. ASSUME NEW g \in GroupId, DeleteGroup(g) PROVE UniqueNames'
  BY <1>9 DEF DeleteGroup, UniqueNames, UniqueIn, TypeOK, roleTables, userTables,
              groupTables
<1>10. ASSUME UNCHANGED <<email, username, roleName, groupName>> PROVE UniqueNames'
  BY <1>10 DEF UniqueNames, UniqueIn
<1> QED
  BY <1>1, <1>2, <1>3, <1>4, <1>5, <1>6, <1>7, <1>8, <1>9, <1>10, OtherRequests

(* AnchorsExist, as the requests and the guards see it.                    *)
Anchors ==
  /\ \E r \in RoleId : roleName[r] = "admin"
  /\ "admin" \in perms
  /\ \A n \in {"admin", "guest"} : \E g \in GroupId : groupName[g] = n

LEMMA AnchorsServe ==
  ASSUME TypeOK, Anchors, Serve
  PROVE  Anchors'
<1>1. ASSUME NEW n \in RoleName, CreateRole(n) PROVE Anchors'
  BY <1>1, NamesAssumption, NoneAssumption DEF CreateRole, Held, Anchors, TypeOK,
                                               userTables, roleTables, groupTables
<1>2. ASSUME NEW r \in RoleId, NEW n \in RoleName, RenameRole(r, n)
      PROVE Anchors'
  BY <1>2, NamesAssumption, NoneAssumption DEF RenameRole, FreeFor, Anchors, TypeOK,
                                               userTables, roleTables, groupTables
<1>3. ASSUME NEW r \in RoleId, DeleteRole(r) PROVE Anchors'
  <2>1. PICK g \in RoleId :
          /\ roleName' = [x \in RoleId |-> IF x = r THEN None
                                          ELSE IF x = g THEN "guest" ELSE roleName[x]]
          /\ \/ g = r
             \/ roleName[g] = "guest"
             \/ roleName[g] = None /\ ~Held(roleName, "guest")
    BY <1>3, DeleteRoleEffect
  <2>2. \A x \in RoleId : roleName[x] = "admin" => roleName'[x] = "admin"
    BY <1>3, <2>1, NamesAssumption, NoneAssumption DEF DeleteRole
  <2> QED
    BY <1>3, <2>2 DEF DeleteRole, Anchors
<1>4. ASSUME NEW n \in GroupName, CreateGroup(n) PROVE Anchors'
  BY <1>4, NamesAssumption, NoneAssumption DEF CreateGroup, Held, Anchors, TypeOK,
                                               userTables, roleTables, groupTables
<1>5. ASSUME NEW g \in GroupId, NEW n \in GroupName, RenameGroup(g, n)
      PROVE Anchors'
  BY <1>5, NamesAssumption, NoneAssumption DEF RenameGroup, FreeFor, Anchors, TypeOK,
                                               userTables, roleTables, groupTables
<1>6. ASSUME NEW g \in GroupId, DeleteGroup(g) PROVE Anchors'
  BY <1>6, NamesAssumption, NoneAssumption DEF DeleteGroup, Anchors, TypeOK,
                                               userTables, roleTables, groupTables
<1>7. ASSUME NEW p \in PermName, CreatePermission(p) PROVE Anchors'
  BY <1>7, NamesAssumption, NoneAssumption DEF CreatePermission, Anchors, TypeOK,
                                               userTables, roleTables, groupTables
<1>8. ASSUME NEW p \in PermName, NEW q \in PermName, RenamePermission(p, q)
      PROVE Anchors'
  BY <1>8, NamesAssumption, NoneAssumption DEF RenamePermission, Anchors, TypeOK,
                                               userTables, roleTables, groupTables
<1>9. ASSUME NEW p \in PermName, DeletePermission(p) PROVE Anchors'
  BY <1>9, NamesAssumption, NoneAssumption DEF DeletePermission, Anchors, TypeOK,
                                               userTables, roleTables, groupTables
<1>10. ASSUME NEW ps \in SUBSET PermName, DeleteResource(ps) PROVE Anchors'
  BY <1>10, NamesAssumption, NoneAssumption DEF DeleteResource, Anchors, TypeOK,
                                                userTables, roleTables, groupTables
<1>11. ASSUME UNCHANGED <<roleName, perms, groupName>> PROVE Anchors'
  BY <1>11 DEF Anchors
<1> QED
  BY <1>1, <1>2, <1>3, <1>4, <1>5, <1>6, <1>7, <1>8, <1>9, <1>10, <1>11
  DEF Serve, UsersApi, RolesApi, GroupsApi, PermissionsApi,
      CreateUser, UpdateUser, DeleteUser, AssignRole, RemoveRole, AddMember, RemoveMember,
      AssignGroupRole, RemoveGroupRole, AssignPermission, RemovePermission,
      SetRolePermissions, DeleteResource, userTables, roleTables, groupTables

-----------------------------------------------------------------------------
(* Seeding *)

LEMMA BootEffect ==
  ASSUME TypeOK, Boot
  PROVE  /\ Seeding(roleName, roleName', RoleId, RoleName, InitialRoles)
         /\ Seeding(groupName, groupName', GroupId, GroupName, {"admin", "guest"})
         /\ Seeding(email, email', UserId, Email, {SuperEmail, GuestEmail})
         /\ username' = [u \in UserId |-> IF email[u] = None /\ email'[u] # None
                                          THEN SeededName(email'[u]) ELSE username[u]]
         /\ active' = [u \in UserId |-> (email[u] = None /\ email'[u] # None) \/ active[u]]
<1>1. Seeding(roleName, roleName', RoleId, RoleName, InitialRoles)
  <2>1. PICK f \in Insertions(roleName, Missing(roleName, InitialRoles)) :
          roleName' = WithRows(roleName, f)
    BY DEF Boot, SeedRoles
  <2> QED
    BY <2>1, SeededColumn, NamesAssumption, NoneAssumption DEF TypeOK
<1>2. Seeding(groupName, groupName', GroupId, GroupName, {"admin", "guest"})
  <2>1. PICK f \in Insertions(groupName, Missing(groupName, {"admin", "guest"})) :
          groupName' = WithRows(groupName, f)
    BY DEF Boot, SeedGroups
  <2> QED
    BY <2>1, SeededColumn, NamesAssumption, NoneAssumption DEF TypeOK
<1>3. PICK f \in Insertions(email, Missing(email, {SuperEmail, GuestEmail})) :
        /\ email' = WithRows(email, f)
        /\ username' = [u \in UserId |-> IF u \in {f[e] : e \in DOMAIN f}
                                         THEN SeededName(email'[u]) ELSE username[u]]
        /\ active' = [u \in UserId |-> u \in {f[e] : e \in DOMAIN f} \/ active[u]]
  BY DEF Boot, SeedUsers
<1>4. /\ Seeding(email, email', UserId, Email, {SuperEmail, GuestEmail})
      /\ \A u \in UserId : (\E e \in DOMAIN f : f[e] = u) <=> email[u] = None /\ email'[u] # None
  <2>1. /\ {SuperEmail, GuestEmail} \subseteq Email /\ None \notin Email
        /\ email \in [UserId -> Email \cup {None}]
    BY NamesAssumption, NoneAssumption DEF TypeOK
  <2>2. /\ Seeding(email, WithRows(email, f), UserId, Email, {SuperEmail, GuestEmail})
        /\ Fills(f, email, WithRows(email, f), UserId)
    BY <2>1, SeededColumn
  <2> QED
    BY <1>3, <2>2 DEF Fills
<1>5. \A u \in UserId : u \in {f[e] : e \in DOMAIN f} <=> email[u] = None /\ email'[u] # None
  BY <1>4
<1>6. /\ username' = [u \in UserId |-> IF email[u] = None /\ email'[u] # None
                                       THEN SeededName(email'[u]) ELSE username[u]]
      /\ active' = [u \in UserId |-> (email[u] = None /\ email'[u] # None) \/ active[u]]
  BY <1>3, <1>5
<1> QED
  BY <1>1, <1>2, <1>4, <1>6

(* The rows an account and a group get by their own name.                  *)
NameOf(e) == IF e = SuperEmail THEN "admin" ELSE IF e = GuestEmail THEN "guest" ELSE None

LEMMA BootAssociations ==
  ASSUME Boot
  PROVE  /\ perms' = perms \cup DefaultPerms
         /\ permsOf' = [r \in RoleId |-> permsOf[r] \cup
              IF roleName'[r] \in InitialRoles THEN DefaultRolePerms[roleName'[r]] ELSE {}]
         /\ grolesOf' = [g \in GroupId |-> grolesOf[g] \cup
              {r \in RoleId : groupName'[g] \in {"admin", "guest"} /\ roleName'[r] = groupName'[g]}]
         /\ rolesOf' = [u \in UserId |-> rolesOf[u] \cup
              {r \in RoleId : NameOf(email'[u]) # None /\ roleName'[r] = NameOf(email'[u])}]
         /\ members' = [g \in GroupId |-> members[g] \cup
              {u \in UserId : NameOf(email'[u]) # None /\ groupName'[g] = NameOf(email'[u])}]
         /\ server' = "up" /\ requests' = requests
  BY DEF Boot, SeedPermissions, SeedGroups, SeedUsers, NameOf

LEMMA TypeBoot ==
  ASSUME TypeOK, Boot
  PROVE  TypeOK'
<1>1. /\ roleName' \in [RoleId -> RoleName \cup {None}]
      /\ groupName' \in [GroupId -> GroupName \cup {None}]
      /\ email' \in [UserId -> Email \cup {None}]
  BY BootEffect DEF Seeding
<1>2. username' \in [UserId -> Username \cup {None}] /\ active' \in [UserId -> BOOLEAN]
  BY BootEffect, NamesAssumption DEF TypeOK, SeededName
<1>3. /\ DefaultPerms \subseteq PermName
      /\ \A n \in InitialRoles : DefaultRolePerms[n] \subseteq PermName
  BY NamesAssumption
<1>4. perms' \subseteq PermName /\ permsOf' \in [RoleId -> SUBSET PermName]
  BY <1>3, BootAssociations DEF TypeOK
<1>5. /\ rolesOf' \in [UserId -> SUBSET RoleId]
      /\ members' \in [GroupId -> SUBSET UserId]
      /\ grolesOf' \in [GroupId -> SUBSET RoleId]
  BY BootAssociations DEF TypeOK
<1> QED
  BY <1>1, <1>2, <1>4, <1>5, BootAssociations DEF TypeOK

LEMMA IntegrityBoot ==
  ASSUME TypeOK, ReferentialIntegrity, Boot
  PROVE  ReferentialIntegrity'
<1>1. /\ \A u \in UserId : email'[u] = None => email[u] = None
      /\ \A r \in RoleId : roleName'[r] = None => roleName[r] = None
      /\ \A g \in GroupId : groupName'[g] = None => groupName[g] = None
  BY BootEffect DEF Seeding
<1>2. /\ None \notin InitialRoles /\ None \notin {"admin", "guest"}
      /\ None # SuperEmail /\ None # GuestEmail /\ NameOf(None) = None
  BY NamesAssumption, NoneAssumption DEF NameOf
<1>3. ASSUME NEW u \in UserId, email'[u] = None
      PROVE  rolesOf'[u] = {} /\ \A g \in GroupId : u \notin members'[g]
  BY <1>1, <1>2, <1>3, BootAssociations DEF ReferentialIntegrity
<1>4. ASSUME NEW r \in RoleId, roleName'[r] = None
      PROVE  /\ permsOf'[r] = {}
             /\ \A u \in UserId : r \notin rolesOf'[u]
             /\ \A g \in GroupId : r \notin grolesOf'[g]
  BY <1>1, <1>2, <1>4, BootAssociations DEF ReferentialIntegrity
<1>5. ASSUME NEW g \in GroupId, groupName'[g] = None
      PROVE  members'[g] = {} /\ grolesOf'[g] = {}
  BY <1>1, <1>2, <1>5, BootAssociations DEF ReferentialIntegrity
<1>6. \A r \in RoleId : permsOf'[r] \subseteq perms'
  BY BootAssociations, NamesAssumption DEF ReferentialIntegrity
<1> QED
  BY <1>3, <1>4, <1>5, <1>6 DEF ReferentialIntegrity

LEMMA UniqueBoot ==
  ASSUME TypeOK, UniqueNames, Boot
  PROVE  UniqueNames'
<1>1. UniqueIn(email') /\ UniqueIn(roleName') /\ UniqueIn(groupName')
  BY BootEffect DEF Seeding, UniqueNames
<1>2. UniqueIn(username')
  <2> DEFINE New(u) == email[u] = None /\ email'[u] # None
  <2>1. /\ DOMAIN username' = UserId /\ DOMAIN username = UserId /\ DOMAIN email' = UserId
        /\ \A u \in UserId : New(u) => username'[u] = SeededName(email'[u])
        /\ \A u \in UserId : ~New(u) => username'[u] = username[u]
    BY BootEffect DEF TypeOK, Seeding
  <2>2. \A u \in UserId : New(u) => email'[u] \in Missing(email, {SuperEmail, GuestEmail})
    BY BootEffect DEF Seeding
  <2>3. ASSUME NEW u \in UserId, New(u), NEW v \in UserId PROVE username[v] # SeededName(email'[u])
    <3>1. email'[u] \in {SuperEmail, GuestEmail} /\ ~Held(email, email'[u])
      BY <2>2, <2>3 DEF Missing
    <3>2. ~Held(username, SeededName(email'[u]))
      BY <3>1 DEF Boot, SeedUsers, CanSeedUsers
    <3> QED
      BY <2>1, <3>2 DEF Held
  <2>4. ASSUME NEW u \in UserId, NEW v \in UserId, New(u), New(v), username'[u] = username'[v]
        PROVE  u = v
    <3>1. email'[u] = email'[v] /\ email'[u] # None
      BY <2>1, <2>2, <2>4, NamesAssumption DEF Missing, SeededName
    <3> QED
      BY <1>1, <2>1, <3>1 DEF UniqueIn
  <2> HIDE DEF New
  <2>5. ASSUME NEW u \in UserId, NEW v \in UserId, username'[u] = username'[v], username'[u] # None
        PROVE  u = v
    BY <2>1, <2>3, <2>4, <2>5 DEF UniqueNames, UniqueIn
  <2> QED
    BY <2>1, <2>5 DEF UniqueIn
<1> QED
  BY <1>1, <1>2 DEF UniqueNames, UniqueIn

LEMMA RestoresBoot ==
  ASSUME TypeOK, Boot
  PROVE  /\ Seeded'
         /\ Anchors'
         /\ \A u \in UserId : email'[u] = SuperEmail => IsAdmin(u)'
<1>a. /\ {"admin", "guest"} \subseteq InitialRoles /\ "admin" \in DefaultRolePerms["admin"]
      /\ "admin" \in DefaultPerms
      /\ SuperEmail # GuestEmail
  BY NamesAssumption
<1>b. None # "admin" /\ None # "guest"
  BY NamesAssumption, NoneAssumption
<1>1. /\ \A n \in InitialRoles : \E r \in RoleId : roleName'[r] = n
      /\ \A n \in {"admin", "guest"} : \E g \in GroupId : groupName'[g] = n
      /\ \A e \in {SuperEmail, GuestEmail} : \E u \in UserId : email'[u] = e
  BY BootEffect DEF Seeding
<1>2. \A n \in InitialRoles : \E r \in RoleId : roleName'[r] = n /\ DefaultRolePerms[n] \subseteq permsOf'[r]
  BY <1>1, BootAssociations
<1>3. \A n \in {"admin", "guest"} : \E g \in GroupId, r \in RoleId :
         groupName'[g] = n /\ roleName'[r] = n /\ r \in grolesOf'[g]
  BY <1>a, <1>1, BootAssociations
<1>4. ASSUME NEW u \in UserId, NEW n \in {"admin", "guest"}, NameOf(email'[u]) = n
      PROVE  HoldsRole(u, n)' /\ InGroup(u, n)'
  <2>1. PICK r \in RoleId : roleName'[r] = n
    BY <1>a, <1>1
  <2>2. PICK g \in GroupId : groupName'[g] = n
    BY <1>1
  <2>3. r \in rolesOf'[u] /\ u \in members'[g]
    BY <1>b, <1>4, <2>1, <2>2, BootAssociations
  <2> QED
    BY <2>1, <2>2, <2>3 DEF HoldsRole, InGroup
<1>5. NameOf(SuperEmail) = "admin" /\ NameOf(GuestEmail) = "guest"
  BY <1>a DEF NameOf
<1>6. Seeded'
  <2>1. DefaultPerms \subseteq perms'
    BY BootAssociations
  <2> QED
    BY <1>1, <1>2, <1>3, <1>4, <1>5, <2>1 DEF Seeded
<1>7. "admin" \in perms'
  BY <1>a, BootAssociations
<1>8. Anchors'
  BY <1>a, <1>1, <1>7 DEF Anchors
<1>9. ASSUME NEW u \in UserId, email'[u] = SuperEmail PROVE IsAdmin(u)'
  <2>1. PICK r \in rolesOf'[u] : roleName'[r] = "admin"
    BY <1>4, <1>5, <1>9 DEF HoldsRole
  <2>2. r \in RoleId
    BY <2>1, TypeBoot DEF TypeOK
  <2>3. "admin" \in permsOf'[r]
    BY <1>a, <2>1, <2>2, BootAssociations
  <2> QED
    BY <2>1, <2>3 DEF IsAdmin, PermissionsOf, EffectiveRoles
<1> QED
  BY <1>6, <1>8, <1>9

-----------------------------------------------------------------------------
(* The theorems *)

IInv ==
  /\ TypeOK
  /\ ReferentialIntegrity
  /\ UniqueNames
  /\ server # "new" => Anchors

LEMMA InitIInv == Init => IInv
  BY BoundAssumption, NoneAssumption, NamesAssumption
  DEF Init, IInv, TypeOK, ReferentialIntegrity, UniqueNames, UniqueIn

LEMMA NextIInv == IInv /\ [Next]_vars => IInv'
<1> SUFFICES ASSUME IInv, [Next]_vars PROVE IInv'
  OBVIOUS
<1> USE DEF IInv
<1>1. CASE Serve
  <2>1. server = "up"
    BY <1>1 DEF Serve
  <2> QED
    BY <1>1, <2>1, TypeServe, IntegrityServe, UniqueServe, AnchorsServe
<1>2. CASE Boot
  BY <1>2, TypeBoot, IntegrityBoot, UniqueBoot, RestoresBoot
<1>3. CASE UNCHANGED vars
  BY <1>3 DEF vars, database, userTables, roleTables, groupTables, TypeOK,
              ReferentialIntegrity, UniqueNames, UniqueIn, Anchors
<1>4. CASE BootFails \/ Stop
  BY <1>4 DEF BootFails, Stop, database, userTables, roleTables, groupTables, TypeOK,
              ReferentialIntegrity, UniqueNames, UniqueIn, Anchors
<1> QED
  BY <1>1, <1>2, <1>3, <1>4 DEF Next

(* IInv holds in every reachable state.                                    *)
THEOREM Inductive == Spec => []IInv
  BY InitIInv, NextIInv, PTL DEF Spec

(* Every column and association keeps its type.                            *)
THEOREM TypeCorrect == Spec => []TypeOK
<1>1. IInv => TypeOK
  BY DEF IInv
<1> QED
  BY <1>1, Inductive, PTL

(* No association row or permission assignment dangles, however the        *)
(* endpoints and the starts of the server are interleaved.                 *)
THEOREM NothingDangles == Spec => []ReferentialIntegrity
<1>1. IInv => ReferentialIntegrity
  BY DEF IInv
<1> QED
  BY <1>1, Inductive, PTL

(* No two rows ever share an address or a name.                            *)
THEOREM NamesAreUnique == Spec => []UniqueNames
<1>1. IInv => UniqueNames
  BY DEF IInv
<1> QED
  BY <1>1, Inductive, PTL

(* The rows the guards are keyed on exist from the first start on.         *)
THEOREM AnchorsStay == Spec => []AnchorsExist
<1>1. IInv => AnchorsExist
  BY DEF IInv, TypeOK, Anchors, AnchorsExist, Held
<1> QED
  BY <1>1, Inductive, PTL

(* A start that succeeds restores every seeded row and assignment, and the *)
(* superuser account is an administrator again.                            *)
THEOREM StartsRestore == Spec => StartRestores
<1>1. IInv /\ [Next]_vars =>
        [Starts => /\ Seeded'
                   /\ (\A u \in UserId : email[u] = SuperEmail => IsAdmin(u))']_vars
  BY RestoresBoot DEF IInv, Next, Starts, Serve, BootFails, Stop
<1> QED
  BY <1>1, Inductive, PTL DEF Spec, StartRestores

-----------------------------------------------------------------------------
(* What a step may never do *)

Kept ==
  \A u \in UserId :
    email[u] = SuperEmail /\ email'[u] \in {SuperEmail, None} =>
      /\ email'[u] = SuperEmail
      /\ SystemAdmin(u) => SystemAdmin(u)'

LEMMA KeptServe ==
  ASSUME TypeOK, Serve
  PROVE  Kept
<1>n. None # "admin" /\ None # SuperEmail /\ None \notin Email
  BY NamesAssumption, NoneAssumption
<1>1. ASSUME NEW e \in Email, NEW n \in Username, CreateUser(e, n)
      PROVE Kept
  BY <1>1, <1>n DEF CreateUser, Held, Kept, SystemAdmin, HoldsRole, InGroup, TypeOK,
                    userTables, roleTables, groupTables
<1>2. ASSUME NEW u \in UserId, NEW e \in Email, NEW n \in Username,
             NEW flag \in {"omitted", "true", "false"}, UpdateUser(u, e, n, flag)
      PROVE Kept
  BY <1>2, <1>n DEF UpdateUser, FreeFor, Kept, SystemAdmin, HoldsRole, InGroup,
                    TypeOK, userTables, roleTables, groupTables
<1>3. ASSUME NEW a \in UserId, NEW u \in UserId, DeleteUser(a, u) PROVE Kept
  BY <1>3, <1>n DEF DeleteUser, Kept, SystemAdmin, HoldsRole, InGroup, TypeOK,
                    userTables, roleTables, groupTables
<1>4. ASSUME NEW a \in UserId, NEW u \in UserId, NEW r \in RoleId, AssignRole(a, u, r)
      PROVE Kept
  BY <1>4, <1>n DEF AssignRole, InsertUserRole, Kept, SystemAdmin, HoldsRole, InGroup,
                    TypeOK, userTables, roleTables, groupTables
<1>5. ASSUME NEW a \in UserId, NEW u \in UserId, NEW r \in RoleId, RemoveRole(a, u, r)
      PROVE Kept
  BY <1>5, <1>n DEF RemoveRole, Kept, SystemAdmin, HoldsRole, InGroup, TypeOK,
                    userTables, roleTables, groupTables
<1>6. ASSUME NEW n \in RoleName, CreateRole(n) PROVE Kept
  BY <1>6, <1>n DEF CreateRole, Held, Kept, SystemAdmin, HoldsRole, InGroup, TypeOK,
                    userTables, roleTables, groupTables
<1>7. ASSUME NEW r \in RoleId, NEW n \in RoleName, RenameRole(r, n)
      PROVE Kept
  BY <1>7, <1>n DEF RenameRole, FreeFor, Kept, SystemAdmin, HoldsRole, InGroup,
                    TypeOK, userTables, roleTables, groupTables
<1>8. ASSUME NEW r \in RoleId, DeleteRole(r) PROVE Kept
  <2>1. PICK g \in RoleId :
          /\ roleName' = [x \in RoleId |-> IF x = r THEN None
                                          ELSE IF x = g THEN "guest" ELSE roleName[x]]
          /\ rolesOf' = [u \in UserId |->
               (rolesOf[u] \cup IF rolesOf[u] = {r} THEN {g} ELSE {}) \ {r}]
          /\ \/ g = r /\ \A u \in UserId : rolesOf[u] # {r}
             \/ roleName[g] = "guest"
             \/ roleName[g] = None /\ ~Held(roleName, "guest")
    BY <1>8, DeleteRoleEffect
  <2>2. \A x \in RoleId : roleName[x] = "admin" => x # r /\ roleName'[x] = "admin"
    BY <1>8, <1>n, <2>1 DEF DeleteRole
  <2>3. \A u \in UserId, x \in RoleId : x \in rolesOf[u] /\ x # r => x \in rolesOf'[u]
    BY <2>1
  <2> QED
    BY <1>8, <1>n, <2>2, <2>3 DEF DeleteRole, Kept, SystemAdmin, HoldsRole, InGroup, TypeOK
<1>9. ASSUME NEW n \in GroupName, CreateGroup(n) PROVE Kept
  BY <1>9, <1>n DEF CreateGroup, Held, Kept, SystemAdmin, HoldsRole, InGroup, TypeOK,
                    userTables, roleTables, groupTables
<1>10. ASSUME NEW g \in GroupId, NEW n \in GroupName, RenameGroup(g, n)
      PROVE Kept
  BY <1>10, <1>n DEF RenameGroup, FreeFor, Kept, SystemAdmin, HoldsRole, InGroup,
                     TypeOK, userTables, roleTables, groupTables
<1>11. ASSUME NEW g \in GroupId, DeleteGroup(g) PROVE Kept
  BY <1>11, <1>n DEF DeleteGroup, Kept, SystemAdmin, HoldsRole, InGroup, TypeOK,
                     userTables, roleTables, groupTables
<1>12. ASSUME NEW a \in UserId, NEW g \in GroupId, NEW u \in UserId, AddMember(a, g, u)
      PROVE Kept
  BY <1>12, <1>n DEF AddMember, Kept, SystemAdmin, HoldsRole, InGroup, TypeOK,
                     userTables, roleTables, groupTables
<1>13. ASSUME NEW a \in UserId, NEW g \in GroupId, NEW u \in UserId, RemoveMember(a, g, u)
      PROVE Kept
  BY <1>13, <1>n DEF RemoveMember, Kept, SystemAdmin, HoldsRole, InGroup, TypeOK,
                     userTables, roleTables, groupTables
<1>14. ASSUME NEW a \in UserId, NEW g \in GroupId, NEW r \in RoleId, AssignGroupRole(a, g, r)
      PROVE Kept
  BY <1>14, <1>n DEF AssignGroupRole, Kept, SystemAdmin, HoldsRole, InGroup, TypeOK,
                     userTables, roleTables, groupTables
<1>15. ASSUME NEW g \in GroupId, NEW r \in RoleId, RemoveGroupRole(g, r)
      PROVE Kept
  BY <1>15, <1>n DEF RemoveGroupRole, Kept, SystemAdmin, HoldsRole, InGroup, TypeOK,
                     userTables, roleTables, groupTables
<1>16. ASSUME NEW p \in PermName, CreatePermission(p) PROVE Kept
  BY <1>16, <1>n DEF CreatePermission, Kept, SystemAdmin, HoldsRole, InGroup, TypeOK,
                     userTables, roleTables, groupTables
<1>17. ASSUME NEW p \in PermName, NEW q \in PermName, RenamePermission(p, q)
      PROVE Kept
  BY <1>17, <1>n DEF RenamePermission, Kept, SystemAdmin, HoldsRole, InGroup, TypeOK,
                     userTables, roleTables, groupTables
<1>18. ASSUME NEW p \in PermName, DeletePermission(p) PROVE Kept
  BY <1>18, <1>n DEF DeletePermission, Kept, SystemAdmin, HoldsRole, InGroup, TypeOK,
                     userTables, roleTables, groupTables
<1>19. ASSUME NEW r \in RoleId, NEW p \in PermName, AssignPermission(r, p)
      PROVE Kept
  BY <1>19, <1>n DEF AssignPermission, Kept, SystemAdmin, HoldsRole, InGroup, TypeOK,
                     userTables, roleTables, groupTables
<1>20. ASSUME NEW r \in RoleId, NEW p \in PermName, RemovePermission(r, p)
      PROVE Kept
  BY <1>20, <1>n DEF RemovePermission, Kept, SystemAdmin, HoldsRole, InGroup, TypeOK,
                     userTables, roleTables, groupTables
<1>21. ASSUME NEW r \in RoleId, NEW ps \in SUBSET PermName, SetRolePermissions(r, ps)
      PROVE Kept
  BY <1>21, <1>n DEF SetRolePermissions, Kept, SystemAdmin, HoldsRole, InGroup,
                     TypeOK, userTables, roleTables, groupTables
<1>22. ASSUME NEW ps \in SUBSET PermName, DeleteResource(ps) PROVE Kept
  BY <1>22, <1>n DEF DeleteResource, Kept, SystemAdmin, HoldsRole, InGroup, TypeOK,
                     userTables, roleTables, groupTables
<1> QED
  BY <1>1, <1>2, <1>3, <1>4, <1>5, <1>6, <1>7, <1>8, <1>9, <1>10, <1>11, <1>12,
     <1>13, <1>14, <1>15, <1>16, <1>17, <1>18, <1>19, <1>20, <1>21, <1>22
  DEF Serve, UsersApi, RolesApi, GroupsApi, PermissionsApi

LEMMA KeptNext ==
  ASSUME TypeOK, [Next]_vars
  PROVE  Kept
<1>1. CASE Boot
  <2>1. /\ \A u \in UserId : email[u] # None => email'[u] = email[u]
        /\ \A r \in RoleId : roleName[r] # None => roleName'[r] = roleName[r]
        /\ \A g \in GroupId : groupName[g] # None => groupName'[g] = groupName[g]
    BY <1>1, BootEffect DEF Seeding
  <2>2. \A u \in UserId : active[u] => active'[u]
    BY <1>1, BootEffect
  <2>3. /\ \A u \in UserId : rolesOf[u] \subseteq rolesOf'[u]
        /\ \A g \in GroupId : members[g] \subseteq members'[g]
    BY <1>1, BootAssociations
  <2> QED
    BY <2>1, <2>2, <2>3, NamesAssumption, NoneAssumption
    DEF Kept, SystemAdmin, HoldsRole, InGroup, TypeOK
<1>2. CASE UNCHANGED database
  BY <1>2 DEF database, userTables, roleTables, groupTables, Kept, SystemAdmin, HoldsRole, InGroup
<1> QED
  BY <1>1, <1>2, KeptServe DEF Next, BootFails, Stop, vars

(* While an account keeps the superuser address, no request and no start   *)
(* of the server deletes it, switches it off, or takes it out of the admin *)
(* role or the admin group.                                                *)
THEOREM SuperuserIsKept == Spec => SystemAdminKept
<1>1. IInv /\ [Next]_vars => Kept
  BY KeptNext DEF IInv
<1>2. Kept => [\A u \in UserId :
                 email[u] = SuperEmail /\ email'[u] \in {SuperEmail, None} =>
                   /\ email'[u] = SuperEmail
                   /\ SystemAdmin(u) => SystemAdmin(u)']_vars
  BY DEF Kept
<1> QED
  BY <1>1, <1>2, Inductive, PTL DEF Spec, SystemAdminKept

LastRoleKept ==
  \A u \in UserId :
    rolesOf[u] # {} /\ rolesOf'[u] = {} /\ email'[u] # None =>
      roleName' = roleName \/ Deleted("guest")

LEMMA LastRoleServe ==
  ASSUME TypeOK, Serve
  PROVE  LastRoleKept
<1>n. None # "guest"
  BY NamesAssumption, NoneAssumption
<1>1. ASSUME NEW a \in UserId, NEW u \in UserId, DeleteUser(a, u) PROVE LastRoleKept
  BY <1>1, <1>n DEF DeleteUser, LastRoleKept, TypeOK, roleTables
<1>2. ASSUME NEW a \in UserId, NEW u \in UserId, NEW r \in RoleId, AssignRole(a, u, r)
      PROVE LastRoleKept
  BY <1>2, <1>n DEF AssignRole, InsertUserRole, LastRoleKept, TypeOK, roleTables
<1>3. ASSUME NEW a \in UserId, NEW u \in UserId, NEW r \in RoleId, RemoveRole(a, u, r)
      PROVE LastRoleKept
  BY <1>3, <1>n DEF RemoveRole, LastRoleKept, TypeOK, roleTables
<1>4. ASSUME NEW r \in RoleId, DeleteRole(r) PROVE LastRoleKept
  <2>1. PICK g \in RoleId :
          /\ roleName' = [x \in RoleId |-> IF x = r THEN None
                                          ELSE IF x = g THEN "guest" ELSE roleName[x]]
          /\ rolesOf' = [u \in UserId |->
               (rolesOf[u] \cup IF rolesOf[u] = {r} THEN {g} ELSE {}) \ {r}]
          /\ \/ g = r /\ \A u \in UserId : rolesOf[u] # {r}
             \/ roleName[g] = "guest"
             \/ roleName[g] = None /\ ~Held(roleName, "guest")
    BY <1>4, DeleteRoleEffect
  <2>2. ASSUME NEW u \in UserId, rolesOf[u] # {}, rolesOf'[u] = {} PROVE roleName[r] = "guest"
    <3>1. rolesOf[u] = {r}
      BY <2>1, <2>2 DEF TypeOK
    <3>2. g = r
      BY <2>1, <2>2, <3>1
    <3> QED
      BY <1>4, <2>1, <3>1, <3>2 DEF DeleteRole
  <2>3. roleName'[r] = None
    BY <2>1
  <2> QED
    BY <2>2, <2>3 DEF LastRoleKept, Deleted
<1>5. ASSUME UNCHANGED rolesOf PROVE LastRoleKept
  BY <1>5 DEF LastRoleKept
<1> QED
  BY <1>1, <1>2, <1>3, <1>4, <1>5
  DEF Serve, UsersApi, RolesApi, GroupsApi, PermissionsApi,
      CreateUser, UpdateUser, CreateRole, RenameRole, CreateGroup, RenameGroup, DeleteGroup,
      AddMember, RemoveMember, AssignGroupRole, RemoveGroupRole, CreatePermission,
      RenamePermission, DeletePermission, AssignPermission, RemovePermission,
      SetRolePermissions, DeleteResource, userTables

(* A user whose account remains loses its last role only by a request that *)
(* removes that assignment, or by the deletion of the guest role.          *)
THEOREM LastRoleFallsBack == Spec => FallbackKept
<1>1. IInv /\ [Next]_vars => LastRoleKept
  <2> SUFFICES ASSUME IInv, [Next]_vars PROVE LastRoleKept
    OBVIOUS
  <2>1. CASE Boot
    <3>1. \A u \in UserId : rolesOf[u] \subseteq rolesOf'[u]
      BY <2>1, BootAssociations
    <3> QED
      BY <3>1 DEF LastRoleKept
  <2>2. CASE UNCHANGED database
    BY <2>2 DEF database, userTables, LastRoleKept
  <2> QED
    BY <2>1, <2>2, LastRoleServe DEF IInv, Next, BootFails, Stop, vars
<1>2. LastRoleKept => [\A u \in UserId :
                         rolesOf[u] # {} /\ rolesOf'[u] = {} /\ email'[u] # None =>
                           roleName' = roleName \/ Deleted("guest")]_vars
  BY DEF LastRoleKept
<1> QED
  BY <1>1, <1>2, Inductive, PTL DEF Spec, FallbackKept

(* One seeded row per name, so what it misses it would have to gain.       *)
LEMMA IdempotentBoot ==
  ASSUME IInv, Boot, Seeded
  PROVE  UNCHANGED database
<1>a. /\ TypeOK /\ ReferentialIntegrity /\ UniqueNames
      /\ {"admin", "guest"} \subseteq InitialRoles /\ SuperEmail # GuestEmail
      /\ None # "admin" /\ None # "guest" /\ None \notin InitialRoles
      /\ None # SuperEmail /\ None # GuestEmail
  BY NamesAssumption, NoneAssumption DEF IInv
<1>d. DOMAIN email = UserId /\ DOMAIN roleName = RoleId /\ DOMAIN groupName = GroupId
  BY <1>a DEF TypeOK
<1>1. /\ Missing(roleName, InitialRoles) = {}
      /\ Missing(groupName, {"admin", "guest"}) = {}
      /\ Missing(email, {SuperEmail, GuestEmail}) = {}
  BY <1>d DEF Seeded, Missing, Held
<1>2. roleName' = roleName /\ groupName' = groupName /\ email' = email
  BY <1>a, <1>1, BootEffect DEF Seeding
<1>3. username' = username /\ active' = active
  BY <1>a, <1>2, BootEffect DEF TypeOK
<1>4. ASSUME NEW r \in RoleId, roleName[r] \in InitialRoles
      PROVE  DefaultRolePerms[roleName[r]] \subseteq permsOf[r]
  <2>1. PICK x \in RoleId : roleName[x] = roleName[r] /\ DefaultRolePerms[roleName[r]] \subseteq permsOf[x]
    BY <1>4 DEF Seeded
  <2>2. x = r
    BY <1>a, <1>d, <1>4, <2>1 DEF UniqueNames, UniqueIn
  <2> QED
    BY <2>1, <2>2
<1>5. permsOf' = permsOf
  <2>1. ASSUME NEW r \in RoleId
        PROVE  permsOf[r] \cup (IF roleName'[r] \in InitialRoles
                                THEN DefaultRolePerms[roleName'[r]] ELSE {}) = permsOf[r]
    BY <1>2, <1>4
  <2> QED
    BY <1>a, <2>1, BootAssociations DEF TypeOK
<1>7. perms' = perms
  BY BootAssociations DEF Seeded
<1>8. ASSUME NEW g \in GroupId, NEW r \in RoleId, groupName[g] \in {"admin", "guest"},
             roleName[r] = groupName[g]
      PROVE  r \in grolesOf[g]
  <2>1. PICK h \in GroupId, x \in RoleId :
          groupName[h] = groupName[g] /\ roleName[x] = groupName[g] /\ x \in grolesOf[h]
    BY <1>8 DEF Seeded
  <2>2. h = g /\ x = r
    BY <1>a, <1>d, <1>8, <2>1 DEF UniqueNames, UniqueIn
  <2> QED
    BY <2>1, <2>2
<1>9. grolesOf' = grolesOf
  <2>1. ASSUME NEW g \in GroupId
        PROVE  grolesOf[g] \cup {r \in RoleId : groupName'[g] \in {"admin", "guest"}
                                              /\ roleName'[r] = groupName'[g]} = grolesOf[g]
    BY <1>2, <1>8
  <2> QED
    BY <1>a, <2>1, BootAssociations DEF TypeOK
<1>10. ASSUME NEW u \in UserId, NameOf(email[u]) # None
       PROVE  /\ \A r \in RoleId : roleName[r] = NameOf(email[u]) => r \in rolesOf[u]
              /\ \A g \in GroupId : groupName[g] = NameOf(email[u]) => u \in members[g]
  <2>1. email[u] \in {SuperEmail, GuestEmail} /\ NameOf(email[u]) \in {"admin", "guest"}
    BY <1>a, <1>10 DEF NameOf
  <2>2. PICK v \in UserId : /\ email[v] = email[u]
                            /\ HoldsRole(v, NameOf(email[u])) /\ InGroup(v, NameOf(email[u]))
    BY <1>a, <2>1 DEF Seeded, NameOf
  <2>3. v = u
    BY <1>a, <1>d, <2>1, <2>2 DEF UniqueNames, UniqueIn
  <2>4. PICK x \in rolesOf[u] : roleName[x] = NameOf(email[u])
    BY <2>2, <2>3 DEF HoldsRole
  <2>5. PICK h \in GroupId : groupName[h] = NameOf(email[u]) /\ u \in members[h]
    BY <2>2, <2>3 DEF InGroup
  <2>6. x \in RoleId
    BY <1>a, <2>4 DEF TypeOK
  <2> QED
    BY <1>a, <1>d, <1>10, <2>4, <2>5, <2>6 DEF UniqueNames, UniqueIn
<1>11. rolesOf' = rolesOf
  <2>1. ASSUME NEW u \in UserId
        PROVE  rolesOf[u] \cup {r \in RoleId : NameOf(email'[u]) # None
                                             /\ roleName'[r] = NameOf(email'[u])} = rolesOf[u]
    BY <1>2, <1>10
  <2> QED
    BY <1>a, <2>1, BootAssociations DEF TypeOK
<1>12. members' = members
  <2>1. ASSUME NEW g \in GroupId
        PROVE  members[g] \cup {u \in UserId : NameOf(email'[u]) # None
                                             /\ groupName'[g] = NameOf(email'[u])} = members[g]
    BY <1>2, <1>10
  <2> QED
    BY <1>a, <2>1, BootAssociations DEF TypeOK
<1> QED
  BY <1>2, <1>3, <1>5, <1>7, <1>9, <1>11, <1>12
  DEF database, userTables, roleTables, groupTables

(* On a database that has every seeded row a start changes nothing.        *)
THEOREM StartsAreIdempotent == Spec => SeedingIdempotent
<1>1. IInv /\ [Next]_vars => [Starts /\ Seeded => UNCHANGED database]_vars
  BY IdempotentBoot DEF Next, Starts, Serve, BootFails, Stop
<1> QED
  BY <1>1, Inductive, PTL DEF Spec, SeedingIdempotent

NoGrant ==
  \A u \in UserId :
    /\ HoldsRole(u, "admin")' => HoldsRole(u, "admin")
    /\ InGroup(u, "admin")' => InGroup(u, "admin")

(* What a request of somebody without powers leaves of the ways to them.   *)
SameNames ==
  /\ \A r \in RoleId : roleName'[r] = "admin" <=> roleName[r] = "admin"
  /\ \A g \in GroupId : groupName'[g] = "admin" <=> groupName[g] = "admin"

NoNewPower ==
  /\ \A r \in RoleId, p \in Powers : p \in permsOf'[r] => p \in permsOf[r]
  /\ \A u \in UserId, r \in RoleId :
       r \in rolesOf'[u] => r \in rolesOf[u] \/ roleName'[r] # "admin"
  /\ \A g \in GroupId, r \in RoleId :
       r \in grolesOf'[g] => r \in grolesOf[g] \/ roleName'[r] # "admin"
  /\ \A g \in GroupId, u \in UserId :
       u \in members'[g] => u \in members[g] \/ groupName[g] # "admin"

Guarded == SameNames /\ NoNewPower

LEMMA NoActorHasPowers ==
  ASSUME Sealed, NEW a \in UserId
  PROVE  ~IsAdmin(a) /\ ~MayCall(a, "permissions.write")
  BY DEF Sealed, Powers, IsAdmin, MayCall, HasPermission

LEMMA GuardedServe ==
  ASSUME TypeOK, Anchors, Serve, Sealed
  PROVE  Guarded
<1>n. None # "admin" /\ None # "guest" /\ "admin" # "guest"
  BY NamesAssumption, NoneAssumption
<1>1. ASSUME NEW a \in UserId, NEW u \in UserId, DeleteUser(a, u) PROVE Guarded
  BY <1>1 DEF DeleteUser, Guarded, SameNames, NoNewPower, TypeOK, roleTables
<1>2. ASSUME NEW a \in UserId, NEW u \in UserId, NEW r \in RoleId, AssignRole(a, u, r)
      PROVE Guarded
  BY <1>2, NoActorHasPowers DEF AssignRole, InsertUserRole, Guarded, SameNames, NoNewPower,
                                TypeOK, roleTables, groupTables
<1>3. ASSUME NEW a \in UserId, NEW u \in UserId, NEW r \in RoleId, RemoveRole(a, u, r)
      PROVE Guarded
  BY <1>3 DEF RemoveRole, Guarded, SameNames, NoNewPower, TypeOK, roleTables, groupTables
<1>4. ASSUME NEW n \in RoleName, CreateRole(n) PROVE Guarded
  BY <1>4, <1>n DEF CreateRole, Held, Guarded, SameNames, NoNewPower, Anchors, TypeOK,
                    userTables, groupTables
<1>5. ASSUME NEW r \in RoleId, NEW n \in RoleName, RenameRole(r, n) PROVE Guarded
  BY <1>5, <1>n DEF RenameRole, FreeFor, Guarded, SameNames, NoNewPower, Anchors, TypeOK,
                    userTables, groupTables
<1>6. ASSUME NEW r \in RoleId, DeleteRole(r) PROVE Guarded
  <2>1. PICK g \in RoleId :
          /\ roleName' = [x \in RoleId |-> IF x = r THEN None
                                          ELSE IF x = g THEN "guest" ELSE roleName[x]]
          /\ rolesOf' = [u \in UserId |->
               (rolesOf[u] \cup IF rolesOf[u] = {r} THEN {g} ELSE {}) \ {r}]
          /\ \/ g = r /\ \A u \in UserId : rolesOf[u] # {r}
             \/ roleName[g] = "guest"
             \/ roleName[g] = None /\ ~Held(roleName, "guest")
    BY <1>6, DeleteRoleEffect
  <2>2. \A x \in RoleId : roleName'[x] = "admin" <=> roleName[x] = "admin"
    BY <1>6, <1>n, <2>1 DEF DeleteRole
  <2>3. g = r \/ roleName'[g] # "admin"
    BY <1>n, <2>1
  <2>4. \A u \in UserId, x \in RoleId :
          x \in rolesOf'[u] => x \in rolesOf[u] \/ roleName'[x] # "admin"
    BY <2>1, <2>3
  <2>5. \A x \in RoleId, p \in Powers : p \in permsOf'[x] => p \in permsOf[x]
    BY <1>6 DEF DeleteRole, TypeOK
  <2>6. \A h \in GroupId, x \in RoleId : x \in grolesOf'[h] => x \in grolesOf[h]
    BY <1>6 DEF DeleteRole, GroupRolesWithout, TypeOK
  <2> QED
    BY <1>6, <2>2, <2>4, <2>5, <2>6 DEF DeleteRole, Guarded, SameNames, NoNewPower
<1>7. ASSUME NEW n \in GroupName, CreateGroup(n) PROVE Guarded
  BY <1>7, <1>n DEF CreateGroup, Held, Guarded, SameNames, NoNewPower, Anchors, TypeOK,
                    userTables, roleTables
<1>8. ASSUME NEW g \in GroupId, NEW n \in GroupName, RenameGroup(g, n) PROVE Guarded
  BY <1>8, <1>n DEF RenameGroup, FreeFor, Guarded, SameNames, NoNewPower, Anchors, TypeOK,
                    userTables, roleTables
<1>9. ASSUME NEW g \in GroupId, DeleteGroup(g) PROVE Guarded
  BY <1>9, <1>n DEF DeleteGroup, Guarded, SameNames, NoNewPower, TypeOK, userTables,
                    roleTables
<1>10. ASSUME NEW a \in UserId, NEW g \in GroupId, NEW u \in UserId, AddMember(a, g, u)
       PROVE Guarded
  BY <1>10, NoActorHasPowers DEF AddMember, Guarded, SameNames, NoNewPower, TypeOK,
                                 userTables, roleTables
<1>11. ASSUME NEW a \in UserId, NEW g \in GroupId, NEW u \in UserId, RemoveMember(a, g, u)
       PROVE Guarded
  BY <1>11 DEF RemoveMember, Guarded, SameNames, NoNewPower, TypeOK, userTables, roleTables
<1>12. ASSUME NEW a \in UserId, NEW g \in GroupId, NEW r \in RoleId, AssignGroupRole(a, g, r)
       PROVE Guarded
  BY <1>12, NoActorHasPowers DEF AssignGroupRole, Guarded, SameNames, NoNewPower, TypeOK,
                                 userTables, roleTables
<1>13. ASSUME NEW g \in GroupId, NEW r \in RoleId, RemoveGroupRole(g, r) PROVE Guarded
  BY <1>13 DEF RemoveGroupRole, Guarded, SameNames, NoNewPower, TypeOK, userTables, roleTables
<1>14. ASSUME NEW p \in PermName, DeletePermission(p) PROVE Guarded
  BY <1>14 DEF DeletePermission, Guarded, SameNames, NoNewPower, userTables, groupTables
<1>15. ASSUME NEW ps \in SUBSET PermName, DeleteResource(ps) PROVE Guarded
  BY <1>15 DEF DeleteResource, Guarded, SameNames, NoNewPower, userTables, groupTables
<1>16. ASSUME UNCHANGED <<rolesOf, roleTables, groupTables>> PROVE Guarded
  BY <1>16 DEF Guarded, SameNames, NoNewPower, roleTables, groupTables
<1>17. CASE UsersApi
  BY <1>1, <1>2, <1>3, <1>16, <1>17 DEF UsersApi, CreateUser, UpdateUser
<1>18. CASE RolesApi
  BY <1>4, <1>5, <1>6, <1>18 DEF RolesApi
<1>19. CASE GroupsApi
  BY <1>7, <1>8, <1>9, <1>10, <1>11, <1>12, <1>13, <1>19 DEF GroupsApi
<1>20. CASE PermissionsApi
  BY <1>14, <1>15, <1>20, NoActorHasPowers DEF PermissionsApi
<1> QED
  BY <1>17, <1>18, <1>19, <1>20 DEF Serve

(* Every role a sealed database hands out carries no power, so what a      *)
(* guarded request adds opens nothing.                                     *)
LEMMA GuardedIsSealed ==
  ASSUME TypeOK, TypeOK', Sealed, Guarded
  PROVE  Sealed' /\ NoGrant
<1>1. \A r \in RoleId, p \in Powers : p \in permsOf[r] => roleName[r] = "admin"
  BY DEF Sealed
<1>2. \A u \in UserId : \A r \in rolesOf[u], p \in Powers : p \notin permsOf[r]
  BY DEF Sealed, PermissionsOf, EffectiveRoles
<1>3. \A g \in GroupId : \A u \in members[g], r \in grolesOf[g], p \in Powers : p \notin permsOf[r]
  BY DEF Sealed, PermissionsOf, EffectiveRoles, TypeOK
<1>4. ASSUME NEW u \in UserId, NEW r \in rolesOf'[u], NEW p \in Powers PROVE p \notin permsOf'[r]
  <2>1. r \in RoleId
    BY <1>4 DEF TypeOK
  <2> QED
    BY <1>1, <1>2, <2>1 DEF Guarded, SameNames, NoNewPower
<1>5. ASSUME NEW g \in GroupId, NEW u \in members'[g], NEW r \in grolesOf'[g], NEW p \in Powers
      PROVE  p \notin permsOf'[r]
  <2>1. u \in UserId /\ r \in RoleId
    BY <1>5 DEF TypeOK
  <2>2. CASE p \notin permsOf[r] \/ roleName'[r] # "admin"
    BY <1>1, <2>1, <2>2 DEF Guarded, SameNames, NoNewPower
  <2>3. CASE p \in permsOf[r] /\ roleName'[r] = "admin"
    <3>1. r \in grolesOf[g] /\ groupName[g] = "admin"
      BY <2>1, <2>3 DEF Guarded, SameNames, NoNewPower, Sealed
    <3>2. u \in members[g]
      BY <2>1, <3>1 DEF Guarded, NoNewPower
    <3> QED
      BY <1>3, <2>3, <3>1, <3>2
  <2> QED
    BY <2>2, <2>3
<1>6. \A r \in RoleId : permsOf'[r] \cap Powers # {} => roleName'[r] = "admin"
  BY <1>1 DEF Guarded, SameNames, NoNewPower
<1>7. \A g \in GroupId, r \in RoleId :
        r \in grolesOf'[g] /\ roleName'[r] = "admin" => groupName'[g] = "admin"
  BY DEF Guarded, SameNames, NoNewPower, Sealed
<1>8. \A u \in UserId : PermissionsOf(u)' \cap Powers = {}
  BY <1>4, <1>5 DEF PermissionsOf, EffectiveRoles
<1>9. NoGrant
  BY DEF Guarded, SameNames, NoNewPower, NoGrant, HoldsRole, InGroup, TypeOK
<1> QED
  BY <1>6, <1>7, <1>8, <1>9 DEF Sealed, Powers

(* Once nobody, not even a deactivated account, holds a power and only the *)
(* admin role carries one, that stays so until the server starts again:    *)
(* nobody comes into the admin role or the admin group meanwhile.          *)
THEOREM AdminIsNotSelfMade == Spec => AdminStaysLost
<1>1. IInv /\ IInv' /\ [Next]_vars => (server = "up" /\ Sealed => Sealed' /\ NoGrant)
  <2> SUFFICES ASSUME IInv, IInv', [Next]_vars, server = "up", Sealed
               PROVE  Sealed' /\ NoGrant
    OBVIOUS
  <2>1. CASE Serve
    BY <2>1, GuardedServe, GuardedIsSealed DEF IInv
  <2>2. CASE UNCHANGED database
    BY <2>2 DEF database, userTables, roleTables, groupTables, NoGrant, HoldsRole, InGroup,
                Sealed, PermissionsOf, EffectiveRoles
  <2> QED
    BY <2>1, <2>2 DEF Next, Boot, BootFails, Stop, vars
<1>2. (server = "up" /\ Sealed => Sealed' /\ NoGrant) =>
        [server = "up" /\ Sealed =>
           /\ Sealed'
           /\ \A u \in UserId :
                /\ HoldsRole(u, "admin")' => HoldsRole(u, "admin")
                /\ InGroup(u, "admin")' => InGroup(u, "admin")]_vars
  BY DEF NoGrant
<1> QED
  BY <1>1, <1>2, Inductive, PTL DEF Spec, AdminStaysLost
=============================================================================
