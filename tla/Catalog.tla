------------------------------- MODULE Catalog -------------------------------
(***************************************************************************)
(* The catalogue: the tables resources and permissions, the endpoints that *)
(* change them, and the seeding of both at every start of the server.      *)
(*                                                                         *)
(* A request is two steps.  In the first it makes its lookups and its      *)
(* checks; in the second its only writing statement runs and commits, and  *)
(* the indexes and foreign keys have the last word.  Other requests may    *)
(* run in between, so what was looked up may be out of date.               *)
(*                                                                         *)
(* A table is a set of columns, functions from its keys; None in the       *)
(* column of names means that there is no such row.  Keys come from a      *)
(* sequence and are never used again.  Who may call is a matter of Rbac.   *)
(***************************************************************************)
EXTENDS Naturals

CONSTANTS
  ResourceId, PermissionId,        \* keys
  ResourceName, PermName,          \* values of the name columns
  FreeText,                        \* resource strings a request may carry
  DefaultResources,                \* DEFAULT_RESOURCES, all PROTECTED_RESOURCES
  MigratedResources,               \* those migration 0005 inserts
  DefaultPerms,                    \* DEFAULT_PERMISSIONS: name to resource string
  MigratedPerms,                   \* the names migration 0003 inserts
  Txn,                             \* requests that can be served at the same time
  None, Unset,                     \* NULL or no row; a field a PATCH leaves out
  MaxRequests                      \* bound: requests served

ASSUME NamesAssumption ==
  /\ MigratedResources \subseteq DefaultResources
  /\ DefaultResources \subseteq ResourceName
  /\ FreeText \subseteq ResourceName
  /\ DOMAIN DefaultPerms \subseteq PermName
  /\ DefaultPerms \in [DOMAIN DefaultPerms -> ResourceName]
  /\ MigratedPerms \subseteq DOMAIN DefaultPerms
  /\ "admin" \in MigratedPerms
  /\ "*" \in ResourceName \ DefaultResources
  /\ DefaultPerms["admin"] = "*"
  /\ \A n \in MigratedPerms : DefaultPerms[n] \in DefaultResources =>
       DefaultPerms[n] \in MigratedResources

ASSUME KeysAssumption ==
  /\ ResourceId \cap PermissionId = {}
  /\ {None, Unset} \cap (ResourceId \cup PermissionId \cup ResourceName \cup PermName) = {}
  /\ None # Unset

ASSUME BoundAssumption == MaxRequests \in Nat

VARIABLES
  up,            \* the server is running
  rname,         \* resources.name
  pname,         \* permissions.name
  label,         \* permissions.resource, the denormalised string
  link,          \* permissions.resource_id
  used,          \* keys that were ever given to a row
  request,       \* what each request is about to write
  served,        \* requests begun so far
  renamed,       \* history: resources that were renamed
  byHand,        \* history: permissions whose label a PATCH set by itself
  touched        \* history: permissions a request inserted or patched

resources   == <<rname>>
permissions == <<pname, label, link>>
history     == <<renamed, byHand, touched>>
vars == <<up, resources, permissions, used, request, served, history>>

Idle == [op |-> "none", key |-> None, name |-> Unset, label |-> Unset, link |-> Unset]

(* The row to insert, or the row to change or delete and its new fields.   *)
Request ==
  [op : {"none", "addResource", "renameResource", "dropResource",
         "addPermission", "changePermission", "dropPermission"},
   key : ResourceId \cup PermissionId \cup {None},
   name : ResourceName \cup PermName \cup {Unset},
   label : ResourceName \cup {Unset},
   link : ResourceId \cup {None, Unset}]

TypeOK ==
  /\ up \in BOOLEAN
  /\ rname \in [ResourceId -> ResourceName \cup {None}]
  /\ pname \in [PermissionId -> PermName \cup {None}]
  /\ label \in [PermissionId -> ResourceName \cup {None}]
  /\ link \in [PermissionId -> ResourceId \cup {None}]
  /\ used \subseteq ResourceId \cup PermissionId
  /\ request \in [Txn -> Request]
  /\ served \in 0 .. MaxRequests
  /\ renamed \subseteq ResourceId
  /\ byHand \subseteq PermissionId
  /\ touched \subseteq PermissionId

-----------------------------------------------------------------------------
(* Tables *)

(* The operators with a suffix after their name are slips someone could    *)
(* make in the operator that follows; no action uses them.                 *)

Held(column, value) == \E k \in DOMAIN column : column[k] = value

(* The unique index of the column lets row k have the value.               *)
FreeFor(column, k, value) == \A j \in DOMAIN column : column[j] = value => j = k

(* The column once every one of the names that was missing has a row.      *)
Filled(column, names) ==
  {new \in [DOMAIN column -> {column[k] : k \in DOMAIN column} \cup names \cup {None}] :
     /\ \A k \in DOMAIN column : k \in used => new[k] = column[k]
     /\ \A k \in DOMAIN column : k \notin used /\ new[k] # None =>
          new[k] \in names /\ ~Held(column, new[k])
     /\ \A n \in names : Held(new, n)
     /\ \A j, k \in DOMAIN column : new[j] = new[k] /\ new[j] # None => j = k}

Taken(column) == {k \in DOMAIN column : column[k] # None}

ResourceNamed_SeededAfter(n) ==
  IF n # "*" /\ Held(rname, n) THEN CHOOSE r \in ResourceId : rname[r] = n ELSE None

(* The key of the resource of that name, in rname after this step.         *)
ResourceNamed(n) ==
  IF n # "*" /\ Held(rname', n) THEN CHOOSE r \in ResourceId : rname'[r] = n ELSE None

(* The rows of the names inserted into pname by this step.                 *)
LinkSeeded ==
  /\ label' = [p \in PermissionId |->
       IF pname[p] = None /\ pname'[p] # None THEN DefaultPerms[pname'[p]] ELSE label[p]]
  /\ link' = [p \in PermissionId |->
       IF pname[p] = None /\ pname'[p] # None THEN ResourceNamed(DefaultPerms[pname'[p]])
                                              ELSE link[p]]

-----------------------------------------------------------------------------
(* Migration and seeding *)

(* The migrated database: 0003 inserts permissions, 0005 resources, and    *)
(* links the permissions to them by name.                                  *)
Init ==
  /\ up = FALSE
  /\ rname \in {f \in [ResourceId -> MigratedResources \cup {None}] :
       /\ \A n \in MigratedResources : \E k \in ResourceId : f[k] = n
       /\ \A j, k \in ResourceId : f[j] = f[k] /\ f[j] # None => j = k}
  /\ pname \in {f \in [PermissionId -> MigratedPerms \cup {None}] :
       /\ \A n \in MigratedPerms : \E k \in PermissionId : f[k] = n
       /\ \A j, k \in PermissionId : f[j] = f[k] /\ f[j] # None => j = k}
  /\ label = [p \in PermissionId |-> IF pname[p] = None THEN None ELSE DefaultPerms[pname[p]]]
  /\ link = [p \in PermissionId |->
       IF label[p] # None /\ Held(rname, label[p])
       THEN CHOOSE r \in ResourceId : rname[r] = label[p] ELSE None]
  /\ used = Taken(rname) \cup Taken(pname)
  /\ request = [t \in Txn |-> Idle]
  /\ served = 0
  /\ renamed = {}
  /\ byHand = {}
  /\ touched = {}

SeedResources == rname' \in Filled(rname, DefaultResources)

SeedPermissions == pname' \in Filled(pname, DOMAIN DefaultPerms) /\ LinkSeeded

Boot ==
  /\ ~up
  /\ SeedResources
  /\ SeedPermissions
  /\ used' = used \cup Taken(rname') \cup Taken(pname')
  /\ up' = TRUE
  /\ UNCHANGED <<request, served, history>>

(* The process ends; what its requests had not committed is lost.          *)
Stop ==
  /\ up
  /\ up' = FALSE
  /\ request' = [t \in Txn |-> Idle]
  /\ UNCHANGED <<resources, permissions, used, served, history>>

-----------------------------------------------------------------------------
(* First step of a request: lookups and checks *)

Checked(t, r) ==
  /\ up
  /\ request[t] = Idle
  /\ served < MaxRequests
  /\ served' = served + 1
  /\ request' = [request EXCEPT ![t] = r]
  /\ UNCHANGED <<up, resources, permissions, used, history>>

MayModify_ByMigration(r) == rname[r] # None /\ rname[r] \notin MigratedResources

MayModify(r) == rname[r] # None /\ rname[r] \notin DefaultResources

CreateResource(t, n) ==
  /\ ~Held(rname, n)
  /\ Checked(t, [Idle EXCEPT !.op = "addResource", !.name = n])

UpdateResource(t, r, n) ==
  /\ MayModify(r)
  /\ FreeFor(rname, r, n)
  /\ Checked(t, [Idle EXCEPT !.op = "renameResource", !.key = r, !.name = n])

DeleteResource(t, r) ==
  /\ MayModify(r)
  /\ Checked(t, [Idle EXCEPT !.op = "dropResource", !.key = r])

Label_AsGiven(s, r) == s

(* With a resource_id the resource string of the body is overridden.       *)
Label(s, r) == IF r \in ResourceId THEN rname[r] ELSE s

(* s is the resource string of the body and r its resource_id.             *)
CreatePermission(t, n, s, r) ==
  /\ ~Held(pname, n)
  /\ r # None => rname[r] # None
  /\ Checked(t, [Idle EXCEPT !.op = "addPermission", !.name = n,
                             !.label = Label(s, r), !.link = r])

UpdatePermission_NewName(t, p, n, s, r) ==
  /\ pname[p] # None /\ n # "admin"
  /\ r \in ResourceId => rname[r] # None
  /\ Checked(t, [Idle EXCEPT !.op = "changePermission", !.key = p, !.name = n,
                             !.label = Label(s, r), !.link = r])

(* Only the fields the body has are Set; nothing looks the new name up.    *)
UpdatePermission(t, p, n, s, r) ==
  /\ pname[p] # None /\ pname[p] # "admin"
  /\ r \in ResourceId => rname[r] # None
  /\ Checked(t, [Idle EXCEPT !.op = "changePermission", !.key = p, !.name = n,
                             !.label = Label(s, r), !.link = r])

DeletePermission(t, p) ==
  /\ pname[p] # None /\ pname[p] # "admin"
  /\ Checked(t, [Idle EXCEPT !.op = "dropPermission", !.key = p])

-----------------------------------------------------------------------------
(* Second step: the statement and the commit.  A constraint that is        *)
(* violated, or a row that is gone, ends the request without a change.     *)

Finish(t, op) ==
  /\ request[t].op = op
  /\ request' = [request EXCEPT ![t] = Idle]
  /\ UNCHANGED <<up, served>>

Given(new, old) == IF new = Unset THEN old ELSE new

AddResource(t) ==
  /\ Finish(t, "addResource")
  /\ \E r \in ResourceId \ used :
       /\ FreeFor(rname, r, request[t].name)
       /\ rname' = [rname EXCEPT ![r] = request[t].name]
       /\ used' = used \cup {r}
  /\ UNCHANGED <<permissions, history>>

RenameResource(t) ==
  /\ Finish(t, "renameResource")
  /\ LET r == request[t].key
     IN  /\ rname[r] # None
         /\ FreeFor(rname, r, request[t].name)
         /\ rname' = [rname EXCEPT ![r] = request[t].name]
         /\ renamed' = renamed \cup {r}
  /\ UNCHANGED <<permissions, used, byHand, touched>>

(* ON DELETE CASCADE of permissions.resource_id.                           *)
Cascade(r) == {p \in PermissionId : link[p] = r}

Without(column, gone) == [k \in DOMAIN column |-> IF k \in gone THEN None ELSE column[k]]

DropPermissions(gone) ==
  /\ pname' = Without(pname, gone)
  /\ label' = Without(label, gone)
  /\ link' = Without(link, gone)

DropResource(t) ==
  /\ Finish(t, "dropResource")
  /\ rname' = Without(rname, {request[t].key})
  /\ DropPermissions(Cascade(request[t].key))
  /\ UNCHANGED <<used, history>>

AddPermission(t) ==
  LET new == request[t]
  IN  /\ Finish(t, "addPermission")
      /\ new.link # None => rname[new.link] # None
      /\ \E p \in PermissionId \ used :
           /\ FreeFor(pname, p, new.name)
           /\ pname' = [pname EXCEPT ![p] = new.name]
           /\ label' = [label EXCEPT ![p] = new.label]
           /\ link' = [link EXCEPT ![p] = new.link]
           /\ used' = used \cup {p}
           /\ touched' = touched \cup {p}
      /\ UNCHANGED <<resources, renamed, byHand>>

ChangePermission(t) ==
  LET new == request[t]
      p == new.key
  IN  /\ Finish(t, "changePermission")
      /\ pname[p] # None
      /\ FreeFor(pname, p, Given(new.name, pname[p]))
      /\ new.link \in ResourceId => rname[new.link] # None
      /\ pname' = [pname EXCEPT ![p] = Given(new.name, @)]
      /\ label' = [label EXCEPT ![p] = Given(new.label, @)]
      /\ link' = [link EXCEPT ![p] = Given(new.link, @)]
      /\ byHand' = IF new.link \in ResourceId THEN byHand \ {p}
                   ELSE IF new.label # Unset THEN byHand \cup {p} ELSE byHand
      /\ touched' = touched \cup {p}
      /\ UNCHANGED <<resources, used, renamed>>

DropPermission(t) ==
  /\ Finish(t, "dropPermission")
  /\ DropPermissions({request[t].key})
  /\ UNCHANGED <<resources, used, history>>

(* Refused by a constraint, too late for the row, or disconnected.         *)
Fail(t) ==
  /\ request[t] # Idle
  /\ request' = [request EXCEPT ![t] = Idle]
  /\ UNCHANGED <<up, served, resources, permissions, used, history>>

Call(t) ==
  \/ \E n \in ResourceName : CreateResource(t, n)
  \/ \E r \in ResourceId : DeleteResource(t, r) \/ \E n \in ResourceName : UpdateResource(t, r, n)
  \/ \E n \in PermName, s \in FreeText, r \in ResourceId \cup {None} :
       CreatePermission(t, n, s, r)
  \/ \E p \in PermissionId, n \in PermName \cup {Unset}, s \in FreeText \cup {Unset},
        r \in ResourceId \cup {None, Unset} : UpdatePermission(t, p, n, s, r)
  \/ \E p \in PermissionId : DeletePermission(t, p)

Write(t) ==
  \/ AddResource(t) \/ RenameResource(t) \/ DropResource(t)
  \/ AddPermission(t) \/ ChangePermission(t) \/ DropPermission(t)

Next == Boot \/ Stop \/ \E t \in Txn : Call(t) \/ Write(t) \/ Fail(t)

Spec == Init /\ [][Next]_vars

-----------------------------------------------------------------------------
(* Safety *)

(* A permission's resource_id refers to a resource, although it is looked  *)
(* up before, and the resource may be deleted until, the row is written.   *)
LinksExist == \A p \in PermissionId : link[p] # None => rname[link[p]] # None

UniqueIn(column) ==
  \A j, k \in DOMAIN column : column[j] = column[k] /\ column[j] # None => j = k

(* No two resources and no two permissions share a name, although requests *)
(* look a name up before they write it, or do not look it up at all.       *)
UniqueNames == UniqueIn(rname) /\ UniqueIn(pname)

(* A protected resource is never renamed or deleted, although a request    *)
(* checks the name of the row at one time and changes the row at another.  *)
ProtectedKept == [][\A r \in ResourceId : rname[r] \in DefaultResources => rname'[r] = rname[r]]_vars

(* The wildcard permission exists from the migration on and belongs to no  *)
(* resource, so that no deletion of a resource can take it away.           *)
WildcardKept == \E p \in PermissionId : pname[p] = "admin" /\ link[p] = None

(* A default permission that no request wrote stays linked to the default  *)
(* resource its label names, whichever of migrations and starts inserted   *)
(* the two rows, and through every lookup that is out of date, cascade and *)
(* restart after that.                                                     *)
SeededStayLinked ==
  \A p \in PermissionId \ touched :
    pname[p] # None /\ label[p] \in DefaultResources =>
      link[p] # None /\ rname[link[p]] = label[p]

(* The resource string of a linked permission is the name of the resource, *)
(* unless the resource was renamed or the string patched by itself: the    *)
(* code carries neither over.                                              *)
LabelFollowsLink ==
  \A p \in PermissionId :
    link[p] # None /\ link[p] \notin renamed /\ p \notin byHand => label[p] = rname[link[p]]
=============================================================================
