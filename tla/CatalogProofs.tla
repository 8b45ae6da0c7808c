---------------------------- MODULE CatalogProofs ----------------------------
(***************************************************************************)
(* Proofs about the catalogue, for any tables and any number of requests   *)
(* between their lookups and their writes.  The invariant says what stays  *)
(* true of a request's lookups until it writes: its row may be gone but    *)
(* never becomes a protected one, and the label it resolved is the         *)
(* resource's name unless that was renamed or deleted.                     *)
(***************************************************************************)
EXTENDS Catalog, TLAPS

(* Keys of rows are used up, so that no key comes back with another row.   *)
KeysUsed ==
  /\ \A r \in ResourceId : rname[r] # None => r \in used
  /\ \A p \in PermissionId : pname[p] # None => p \in used

(* The default resources exist while requests are served, and no request   *)
(* outlives the process.                                                   *)
Serving ==
  /\ up => \A n \in DefaultResources : Held(rname, n)
  /\ ~up => \A t \in Txn : request[t] = Idle

ResourceTarget(q) ==
  q.op \in {"renameResource", "dropResource"} =>
    q.key \in ResourceId \cap used /\ rname[q.key] \notin DefaultResources

PermissionTarget(q) ==
  q.op \in {"changePermission", "dropPermission"} =>
    q.key \in PermissionId \cap used /\ pname[q.key] # "admin"

NewFields(q) ==
  /\ q.op \in {"addResource", "renameResource"} => q.name \in ResourceName
  /\ q.op = "addPermission" =>
       q.name \in PermName /\ q.label \in ResourceName /\ q.link \in ResourceId \cup {None}
  /\ q.op = "changePermission" => q.name \in PermName \cup {Unset}

Resolved(q) ==
  q.link \in ResourceId =>
    /\ q.link \in used
    /\ q.label # Unset
    /\ rname[q.link] # None /\ q.link \notin renamed => q.label = rname[q.link]

Pending ==
  \A t \in Txn :
    /\ ResourceTarget(request[t]) /\ PermissionTarget(request[t])
    /\ NewFields(request[t]) /\ Resolved(request[t])

IInv ==
  /\ TypeOK /\ KeysUsed /\ Serving /\ UniqueNames /\ WildcardKept
  /\ LinksExist /\ LabelFollowsLink /\ SeededStayLinked /\ Pending

-----------------------------------------------------------------------------
(* The initial states *)

LEMMA InitInv == ASSUME Init PROVE IInv
<1> USE NamesAssumption, KeysAssumption, BoundAssumption
<1>1. /\ rname \in [ResourceId -> MigratedResources \cup {None}]
      /\ pname \in [PermissionId -> MigratedPerms \cup {None}]
      /\ UniqueIn(rname) /\ UniqueIn(pname)
      /\ \A n \in MigratedPerms : \E k \in PermissionId : pname[k] = n
  BY DEF Init, UniqueIn
<1>2. /\ label = [p \in PermissionId |-> IF pname[p] = None THEN None ELSE DefaultPerms[pname[p]]]
      /\ label \in [PermissionId -> ResourceName \cup {None}]
  BY <1>1 DEF Init
<1>3. ASSUME NEW p \in PermissionId
      PROVE  \/ link[p] = None /\ (label[p] = None \/ ~Held(rname, label[p]))
             \/ link[p] \in ResourceId /\ rname[link[p]] = label[p] /\ label[p] # None
  <2>1. CASE label[p] # None /\ Held(rname, label[p])
    <3>1. \E r \in ResourceId : rname[r] = label[p]
      BY <1>1, <2>1 DEF Held
    <3> QED
      BY <2>1, <3>1 DEF Init
  <2>2. CASE ~(label[p] # None /\ Held(rname, label[p]))
    BY <2>2 DEF Init
  <2> QED
    BY <2>1, <2>2
<1>4. link \in [PermissionId -> ResourceId \cup {None}]
  BY <1>3 DEF Init
<1>5. TypeOK
  <2>1. request \in [Txn -> Request]
    BY DEF Init, Idle, Request
  <2>2. used \subseteq ResourceId \cup PermissionId
    BY <1>1 DEF Init, Taken
  <2>3. /\ up \in BOOLEAN /\ renamed \subseteq ResourceId /\ byHand \subseteq PermissionId
        /\ touched \subseteq PermissionId
    BY DEF Init
  <2>5. served \in 0 .. MaxRequests
    BY DEF Init
  <2>4. /\ rname \in [ResourceId -> ResourceName \cup {None}]
        /\ pname \in [PermissionId -> PermName \cup {None}]
    BY <1>1
  <2> QED
    BY <1>2, <1>4, <2>1, <2>2, <2>3, <2>4, <2>5 DEF TypeOK
<1>6. KeysUsed
  BY <1>1 DEF Init, KeysUsed, Taken
<1>7. WildcardKept
  <2>1. PICK p \in PermissionId : pname[p] = "admin"
    BY <1>1
  <2>2. label[p] = "*"
    BY <1>2, <2>1
  <2>3. ~Held(rname, "*")
    BY <1>1 DEF Held
  <2> QED
    BY <1>1, <1>3, <2>1, <2>2, <2>3 DEF WildcardKept, Held
<1>8. LinksExist /\ LabelFollowsLink
  BY <1>3 DEF LinksExist, LabelFollowsLink
<1>10. SeededStayLinked
  <2> SUFFICES ASSUME NEW p \in PermissionId, pname[p] # None, label[p] \in DefaultResources
               PROVE  link[p] # None /\ rname[link[p]] = label[p]
    BY DEF SeededStayLinked
  <2>1. pname[p] \in MigratedPerms /\ label[p] = DefaultPerms[pname[p]]
    BY <1>1, <1>2
  <2>2. \E k \in ResourceId : rname[k] = label[p]
    BY <2>1 DEF Init
  <2>3. label[p] # None /\ Held(rname, label[p])
    BY <1>1, <2>2 DEF Held
  <2> QED
    BY <1>3, <2>3
<1>9. Pending /\ Serving
  BY DEF Init, Idle, Pending, Serving, ResourceTarget, PermissionTarget, NewFields, Resolved
<1> QED
  BY <1>1, <1>5, <1>6, <1>7, <1>8, <1>9, <1>10 DEF IInv, UniqueNames

-----------------------------------------------------------------------------
(* Starts and stops *)

(* What the insertion of missing names does to a column of names.          *)
Extends(new, column, K, V, names) ==
  /\ new \in [K -> V \cup {None}]
  /\ UniqueIn(new)
  /\ \A n \in names : Held(new, n)
  /\ \A k \in K : column[k] # None => new[k] = column[k]
  /\ \A k \in K : new[k] # column[k] =>
       column[k] = None /\ k \notin used /\ new[k] \in names /\ ~Held(column, new[k])

LEMMA FilledColumn ==
  ASSUME NEW K, NEW V, NEW column \in [K -> V \cup {None}], NEW names \in SUBSET V,
         NEW new \in Filled(column, names),
         \A k \in K : column[k] # None => k \in used
  PROVE  Extends(new, column, K, V, names)
<1>1. DOMAIN column = K
  OBVIOUS
<1>2. new \in [K -> {column[k] : k \in K} \cup names \cup {None}]
  BY <1>1 DEF Filled
<1>3. DOMAIN new = K
  BY <1>2
<1>4. new \in [K -> V \cup {None}]
  BY <1>2
<1>5. UniqueIn(new)
  BY <1>1, <1>3 DEF Filled, UniqueIn
<1>6. \A n \in names : Held(new, n)
  BY DEF Filled
<1>7. \A k \in K : k \in used => new[k] = column[k]
  BY <1>1 DEF Filled
<1>8. \A k \in K : k \notin used /\ new[k] # None => new[k] \in names /\ ~Held(column, new[k])
  BY <1>1 DEF Filled
<1>9. \A k \in K : k \notin used => column[k] = None
  OBVIOUS
<1> QED
  BY <1>4, <1>5, <1>6, <1>7, <1>8, <1>9 DEF Extends

(* Both tables after a start.                                              *)
LEMMA BootEffect ==
  ASSUME TypeOK, KeysUsed, Boot
  PROVE  /\ rname' \in [ResourceId -> ResourceName \cup {None}]
         /\ pname' \in [PermissionId -> PermName \cup {None}]
         /\ UniqueIn(rname)' /\ UniqueIn(pname)'
         /\ \A n \in DefaultResources : Held(rname', n)
         /\ \A n \in DOMAIN DefaultPerms : Held(pname', n)
         /\ \A r \in ResourceId : rname[r] # None => rname'[r] = rname[r]
         /\ \A p \in PermissionId : pname[p] # None =>
              pname'[p] = pname[p] /\ label'[p] = label[p] /\ link'[p] = link[p]
         /\ \A p \in PermissionId : pname'[p] # pname[p] =>
              /\ pname[p] = None /\ pname'[p] \in DOMAIN DefaultPerms /\ ~Held(pname, pname'[p])
              /\ label'[p] = DefaultPerms[pname'[p]]
              /\ link'[p] = ResourceNamed(DefaultPerms[pname'[p]])
         /\ \A p \in PermissionId : pname'[p] = pname[p] =>
              label'[p] = label[p] /\ link'[p] = link[p]
<1> USE NamesAssumption, KeysAssumption
<1>1. /\ rname' \in Filled(rname, DefaultResources)
      /\ pname' \in Filled(pname, DOMAIN DefaultPerms)
      /\ LinkSeeded
  BY DEF Boot, SeedResources, SeedPermissions
<1>2. /\ rname' \in [ResourceId -> ResourceName \cup {None}]
      /\ UniqueIn(rname')
      /\ \A n \in DefaultResources : Held(rname', n)
      /\ \A r \in ResourceId : rname[r] # None => rname'[r] = rname[r]
  <2>1. /\ rname \in [ResourceId -> ResourceName \cup {None}]
        /\ DefaultResources \in SUBSET ResourceName
        /\ \A k \in ResourceId : rname[k] # None => k \in used
    BY DEF TypeOK, KeysUsed
  <2>2. Extends(rname', rname, ResourceId, ResourceName, DefaultResources)
    BY <1>1, <2>1, FilledColumn
  <2> QED
    BY <2>2 DEF Extends
<1>3. /\ pname' \in [PermissionId -> PermName \cup {None}]
      /\ UniqueIn(pname')
      /\ \A n \in DOMAIN DefaultPerms : Held(pname', n)
      /\ \A p \in PermissionId : pname[p] # None => pname'[p] = pname[p]
      /\ \A p \in PermissionId : pname'[p] # pname[p] =>
           /\ pname[p] = None /\ p \notin used
           /\ pname'[p] \in DOMAIN DefaultPerms /\ ~Held(pname, pname'[p])
  <2>1. /\ pname \in [PermissionId -> PermName \cup {None}]
        /\ DOMAIN DefaultPerms \in SUBSET PermName
        /\ \A k \in PermissionId : pname[k] # None => k \in used
    BY DEF TypeOK, KeysUsed
  <2>2. Extends(pname', pname, PermissionId, PermName, DOMAIN DefaultPerms)
    BY <1>1, <2>1, FilledColumn
  <2> QED
    BY <2>2 DEF Extends
<1>4. \A p \in PermissionId : pname[p] = None /\ pname'[p] # None =>
        label'[p] = DefaultPerms[pname'[p]] /\ link'[p] = ResourceNamed(DefaultPerms[pname'[p]])
  BY <1>1 DEF LinkSeeded
<1>5. \A p \in PermissionId : ~(pname[p] = None /\ pname'[p] # None) =>
        label'[p] = label[p] /\ link'[p] = link[p]
  BY <1>1 DEF LinkSeeded
<1>6. None \notin DOMAIN DefaultPerms
  OBVIOUS
<1>7. UniqueIn(rname)' /\ UniqueIn(pname)'
  BY <1>2, <1>3 DEF UniqueIn
<1> QED
  BY <1>2, <1>3, <1>4, <1>5, <1>6, <1>7

-----------------------------------------------------------------------------
(* Types *)

LEMMA CheckedType ==
  ASSUME TypeOK, NEW t \in Txn, NEW q \in Request, Checked(t, q)
  PROVE  TypeOK'
<1>1. served' \in 0 .. MaxRequests
  BY BoundAssumption DEF TypeOK, Checked
<1>2. request' \in [Txn -> Request]
  BY DEF TypeOK, Checked
<1> QED
  BY <1>1, <1>2 DEF TypeOK, Checked, resources, permissions, history

(* What the lookups of a request have established when it is pending.      *)
LookedUp(q) ==
  /\ q \in Request
  /\ q.op \in {"renameResource", "dropResource"} => q.key \in ResourceId /\ MayModify(q.key)
  /\ q.op \in {"changePermission", "dropPermission"} =>
       q.key \in PermissionId /\ pname[q.key] \notin {None, "admin"}
  /\ NewFields(q)
  /\ q.link \in ResourceId => q.label = rname[q.link] /\ rname[q.link] # None

LEMMA CallLooksUp ==
  ASSUME TypeOK, NEW t \in Txn, Call(t)
  PROVE  \E q \in Request : LookedUp(q) /\ Checked(t, q)
<1> USE KeysAssumption, NamesAssumption DEF TypeOK, LookedUp, NewFields, Request, Idle
<1> DEFINE Goal == \E q \in Request : LookedUp(q) /\ Checked(t, q)
<1>1. ASSUME NEW n \in ResourceName, CreateResource(t, n) PROVE Goal
  BY <1>1 DEF CreateResource
<1>2. ASSUME NEW r \in ResourceId, DeleteResource(t, r) PROVE Goal
  BY <1>2 DEF DeleteResource
<1>3. ASSUME NEW r \in ResourceId, NEW n \in ResourceName, UpdateResource(t, r, n) PROVE Goal
  BY <1>3 DEF UpdateResource
<1>4. ASSUME NEW n \in PermName, NEW s \in FreeText, NEW r \in ResourceId \cup {None},
             CreatePermission(t, n, s, r)
      PROVE  Goal
  <2>1. Label(s, r) \in ResourceName
    BY <1>4 DEF CreatePermission, Label
  <2> QED
    BY <1>4, <2>1 DEF CreatePermission, Label
<1>5. ASSUME NEW p \in PermissionId, NEW n \in PermName \cup {Unset},
             NEW s \in FreeText \cup {Unset}, NEW r \in ResourceId \cup {None, Unset},
             UpdatePermission(t, p, n, s, r)
      PROVE  Goal
  <2>1. Label(s, r) \in ResourceName \cup {Unset}
    BY <1>5 DEF UpdatePermission, Label
  <2> QED
    BY <1>5, <2>1 DEF UpdatePermission, Label
<1>6. ASSUME NEW p \in PermissionId, DeletePermission(t, p) PROVE Goal
  BY <1>6 DEF DeletePermission
<1> QED
  BY <1>1, <1>2, <1>3, <1>4, <1>5, <1>6 DEF Call

-----------------------------------------------------------------------------
(* What stays true of the other requests when the tables change: no row    *)
(* becomes a protected one under its key, and no key comes back.           *)
RowsDriftOnly ==
  /\ used \subseteq used' /\ renamed \subseteq renamed'
  /\ \A r \in ResourceId \cap used :
       \/ rname'[r] \in {rname[r], None}
       \/ r \in renamed' /\ rname'[r] \notin DefaultResources
  /\ \A p \in PermissionId \cap used : pname'[p] = "admin" => pname[p] = "admin"

LEMMA PendingKept ==
  ASSUME Pending, RowsDriftOnly, \A u \in Txn : request'[u] \in {request[u], Idle}
  PROVE  Pending'
<1> SUFFICES ASSUME NEW u \in Txn
             PROVE  /\ ResourceTarget(request[u])' /\ PermissionTarget(request[u])'
                    /\ NewFields(request[u])' /\ Resolved(request[u])'
  BY DEF Pending
<1>1. CASE request'[u] = Idle
  BY <1>1, KeysAssumption DEF Idle, ResourceTarget, PermissionTarget, NewFields, Resolved
<1>2. CASE request'[u] = request[u]
  <2>1. /\ ResourceTarget(request[u]) /\ PermissionTarget(request[u])
        /\ NewFields(request[u]) /\ Resolved(request[u])
    BY DEF Pending
  <2>2. ResourceTarget(request[u])'
    BY <1>2, <2>1, NamesAssumption, KeysAssumption DEF ResourceTarget, RowsDriftOnly
  <2>3. PermissionTarget(request[u])'
    BY <1>2, <2>1 DEF PermissionTarget, RowsDriftOnly
  <2>4. NewFields(request[u])'
    BY <1>2, <2>1 DEF NewFields
  <2>5. Resolved(request[u])'
    BY <1>2, <2>1 DEF Resolved, RowsDriftOnly
  <2> QED
    BY <2>2, <2>3, <2>4, <2>5
<1> QED
  BY <1>1, <1>2

(* A write ends its request; the others are as they were.                  *)
LEMMA Finished ==
  ASSUME TypeOK, Serving, NEW t \in Txn, NEW op, op # "none", Finish(t, op)
  PROVE  /\ request' \in [Txn -> Request]
         /\ \A u \in Txn : request'[u] \in {request[u], Idle}
         /\ up /\ up' = up /\ served' = served
         /\ request[t] \in Request /\ request[t].op = op
<1>1. Idle \in Request
  BY DEF Idle, Request
<1>2. request[t].op # Idle.op
  BY DEF Finish, Idle
<1> QED
  BY <1>1, <1>2 DEF Finish, TypeOK, Serving

-----------------------------------------------------------------------------
(* The steps that leave the tables alone *)

LEMMA CallInv == ASSUME IInv, NEW t \in Txn, Call(t) PROVE IInv'
<1>1. PICK q \in Request : LookedUp(q) /\ Checked(t, q)
  BY CallLooksUp DEF IInv
<1>2. TypeOK'
  BY <1>1, CheckedType DEF IInv
<1>3. /\ UNCHANGED <<up, rname, pname, label, link, used, renamed, byHand, touched>>
      /\ up /\ request' = [request EXCEPT ![t] = q]
  BY <1>1 DEF Checked, resources, permissions, history
<1>4. /\ KeysUsed' /\ Serving' /\ UniqueNames' /\ WildcardKept' /\ LinksExist'
      /\ LabelFollowsLink' /\ SeededStayLinked'
  BY <1>3 DEF IInv, KeysUsed, Serving, UniqueNames, UniqueIn, WildcardKept, LinksExist,
              LabelFollowsLink, SeededStayLinked, Held
<1>5. /\ ResourceTarget(q) /\ PermissionTarget(q) /\ NewFields(q) /\ Resolved(q)
  BY <1>1, KeysAssumption, NamesAssumption
     DEF IInv, TypeOK, KeysUsed, LookedUp, MayModify, ResourceTarget, PermissionTarget, Resolved
<1>6. Pending'
  BY <1>3, <1>5 DEF IInv, TypeOK, Pending, ResourceTarget, PermissionTarget, NewFields, Resolved
<1> QED
  BY <1>2, <1>4, <1>6 DEF IInv

LEMMA StopInv == ASSUME IInv, Stop PROVE IInv'
<1>1. /\ UNCHANGED <<rname, pname, label, link, used, renamed, byHand, touched, served>>
      /\ up' = FALSE
      /\ request' = [u \in Txn |-> Idle]
  BY DEF Stop, resources, permissions, history
<1>2. request' \in [Txn -> Request]
  BY <1>1 DEF Idle, Request
<1>3. TypeOK'
  BY <1>1, <1>2 DEF IInv, TypeOK
<1>4. /\ KeysUsed' /\ Serving' /\ UniqueNames' /\ WildcardKept' /\ LinksExist'
      /\ LabelFollowsLink' /\ SeededStayLinked'
  BY <1>1 DEF IInv, KeysUsed, Serving, UniqueNames, UniqueIn, WildcardKept, LinksExist,
              LabelFollowsLink, SeededStayLinked
<1>5. Pending'
  BY <1>1, PendingKept DEF IInv, RowsDriftOnly
<1> QED
  BY <1>3, <1>4, <1>5 DEF IInv

LEMMA FailInv == ASSUME IInv, NEW t \in Txn, Fail(t) PROVE IInv'
<1>1. /\ UNCHANGED <<up, rname, pname, label, link, used, renamed, byHand, touched, served>>
      /\ request' = [request EXCEPT ![t] = Idle]
  BY DEF Fail, resources, permissions, history
<1>2. request' \in [Txn -> Request]
  BY <1>1 DEF IInv, TypeOK, Idle, Request
<1>3. TypeOK'
  BY <1>1, <1>2 DEF IInv, TypeOK
<1>4. \A u \in Txn : request'[u] \in {request[u], Idle}
  BY <1>1 DEF IInv, TypeOK
<1>5. /\ KeysUsed' /\ Serving' /\ UniqueNames' /\ WildcardKept' /\ LinksExist'
      /\ LabelFollowsLink' /\ SeededStayLinked'
  BY <1>1, <1>4 DEF IInv, KeysUsed, Serving, UniqueNames, UniqueIn, WildcardKept, LinksExist,
                    LabelFollowsLink, SeededStayLinked, Held
<1>6. Pending'
  BY <1>1, <1>4, PendingKept DEF IInv, RowsDriftOnly
<1> QED
  BY <1>3, <1>5, <1>6 DEF IInv

-----------------------------------------------------------------------------
(* Starts *)

LEMMA BootInv == ASSUME IInv, Boot PROVE IInv'
<1> USE NamesAssumption, KeysAssumption
<1>1. TypeOK /\ KeysUsed
  BY DEF IInv
<1>2. /\ request' = request /\ served' = served /\ renamed' = renamed /\ byHand' = byHand
      /\ touched' = touched
      /\ up' = TRUE /\ ~up
      /\ used' = used \cup Taken(rname') \cup Taken(pname')
  BY DEF Boot, history
<1>3. \A n \in ResourceName : ResourceNamed(n) = None \/
        (ResourceNamed(n) \in ResourceId /\ rname'[ResourceNamed(n)] = n)
  BY <1>1, BootEffect DEF ResourceNamed, Held
<1>4. ResourceNamed("*") = None
  BY DEF ResourceNamed
<1>5. ASSUME NEW p \in PermissionId
      PROVE  \/ label'[p] = label[p] /\ link'[p] = link[p]
             \/ /\ label'[p] \in ResourceName
                /\ link'[p] = None \/ (link'[p] \in ResourceId /\ rname'[link'[p]] = label'[p])
  <2>1. CASE pname'[p] = pname[p]
    BY <1>1, <2>1, BootEffect
  <2>2. CASE pname'[p] # pname[p]
    <3>1. /\ pname'[p] \in DOMAIN DefaultPerms
          /\ label'[p] = DefaultPerms[pname'[p]]
          /\ link'[p] = ResourceNamed(DefaultPerms[pname'[p]])
      BY <1>1, <2>2, BootEffect
    <3>2. DefaultPerms[pname'[p]] \in ResourceName
      BY <3>1
    <3> QED
      BY <1>3, <3>1, <3>2
  <2> QED
    BY <2>1, <2>2
<1>6. /\ DOMAIN label' = PermissionId /\ DOMAIN link' = PermissionId
      /\ label' = [p \in PermissionId |-> label'[p]]
      /\ link' = [p \in PermissionId |-> link'[p]]
  BY DEF Boot, SeedPermissions, LinkSeeded
<1>7. TypeOK'
  <2>1. label' \in [PermissionId -> ResourceName \cup {None}]
    BY <1>1, <1>5, <1>6 DEF TypeOK
  <2>2. link' \in [PermissionId -> ResourceId \cup {None}]
    BY <1>1, <1>5, <1>6 DEF TypeOK
  <2>3. /\ rname' \in [ResourceId -> ResourceName \cup {None}]
        /\ pname' \in [PermissionId -> PermName \cup {None}]
    BY <1>1, BootEffect
  <2>4. used' \subseteq ResourceId \cup PermissionId
    BY <1>1, <1>2, <2>3 DEF TypeOK, Taken
  <2> QED
    BY <1>1, <1>2, <2>1, <2>2, <2>3, <2>4 DEF TypeOK
<1>8. KeysUsed'
  BY <1>2, <1>7 DEF KeysUsed, TypeOK, Taken
<1>9. Serving'
  BY <1>1, <1>2, BootEffect DEF Serving, Held
<1>10. UniqueNames'
  BY <1>1, BootEffect DEF UniqueNames
<1>11. WildcardKept'
  <2>1. PICK p \in PermissionId : pname[p] = "admin" /\ link[p] = None
    BY DEF IInv, WildcardKept
  <2> QED
    BY <1>1, <2>1, BootEffect DEF WildcardKept
<1>12. \A r \in ResourceId : rname[r] # None => rname'[r] = rname[r]
  BY <1>1, BootEffect
<1>13. LinksExist'
  BY <1>5, <1>12 DEF IInv, LinksExist, TypeOK
<1>14. LabelFollowsLink'
  BY <1>2, <1>5, <1>12 DEF IInv, LabelFollowsLink, LinksExist, TypeOK
<1>16. SeededStayLinked'
  <2> SUFFICES ASSUME NEW p \in PermissionId, p \notin touched,
                      pname'[p] # None, label'[p] \in DefaultResources
               PROVE  link'[p] # None /\ rname'[link'[p]] = label'[p]
    BY <1>2 DEF SeededStayLinked
  <2>1. CASE pname'[p] = pname[p]
    <3>1. label'[p] = label[p] /\ link'[p] = link[p]
      BY <1>1, <2>1, BootEffect
    <3>2. link[p] \in ResourceId /\ rname[link[p]] = label[p]
      BY <2>1, <3>1 DEF IInv, SeededStayLinked, TypeOK
    <3> QED
      BY <1>12, <3>1, <3>2
  <2>2. CASE pname'[p] # pname[p]
    <3>1. /\ label'[p] = DefaultPerms[pname'[p]]
          /\ link'[p] = ResourceNamed(DefaultPerms[pname'[p]])
      BY <1>1, <2>2, BootEffect
    <3>2. Held(rname', label'[p]) /\ label'[p] # "*" /\ DOMAIN rname' = ResourceId
      BY <1>1, BootEffect
    <3>3. \E r \in ResourceId : rname'[r] = label'[p]
      BY <3>2 DEF Held
    <3> QED
      BY <3>1, <3>2, <3>3 DEF ResourceNamed
  <2> QED
    BY <2>1, <2>2
<1>15. Pending'
  <2>1. \A u \in Txn : request'[u] = Idle
    BY <1>2 DEF IInv, Serving
  <2> QED
    BY <2>1 DEF Idle, Pending, ResourceTarget, PermissionTarget, NewFields, Resolved
<1> QED
  BY <1>7, <1>8, <1>9, <1>10, <1>11, <1>13, <1>14, <1>15, <1>16 DEF IInv

-----------------------------------------------------------------------------
(* Writes to the resources *)

LEMMA AddResourceInv == ASSUME IInv, NEW t \in Txn, AddResource(t) PROVE IInv'
<1> DEFINE n == request[t].name
<1> USE KeysAssumption
<1>1. PICK r \in ResourceId \ used :
        /\ FreeFor(rname, r, n)
        /\ rname' = [rname EXCEPT ![r] = n]
        /\ used' = used \cup {r}
  BY DEF AddResource
<1>2. UNCHANGED <<pname, label, link, renamed, byHand, touched>>
  BY DEF AddResource, permissions, history
<1>3. /\ request' \in [Txn -> Request]
      /\ \A u \in Txn : request'[u] \in {request[u], Idle}
      /\ up /\ up' = up /\ served' = served
      /\ request[t].op = "addResource"
  BY Finished DEF IInv, AddResource
<1>4. n \in ResourceName
  BY <1>3 DEF IInv, Pending, NewFields
<1>5. rname[r] = None
  BY <1>1 DEF IInv, KeysUsed
<1>6. /\ rname' \in [ResourceId -> ResourceName \cup {None}]
      /\ \A k \in ResourceId : k # r => rname'[k] = rname[k]
      /\ rname'[r] = n
  BY <1>1, <1>4 DEF IInv, TypeOK
<1>7. TypeOK'
  BY <1>1, <1>2, <1>3, <1>6 DEF IInv, TypeOK
<1>8. KeysUsed'
  BY <1>1, <1>2, <1>6 DEF IInv, KeysUsed
<1>9. Serving'
  <2>1. ASSUME NEW d \in DefaultResources PROVE Held(rname', d)
    <3>1. PICK k \in ResourceId : rname[k] = d
      BY <1>3 DEF IInv, Serving, Held, TypeOK
    <3>2. k # r
      BY <1>5, <3>1, NamesAssumption
    <3> QED
      BY <1>6, <3>1, <3>2 DEF Held
  <2> QED
    BY <1>3, <2>1 DEF Serving, Held
<1>10. UniqueNames'
  <2>1. UniqueIn(rname)'
    <3>1. \A k \in ResourceId : rname[k] = n => k = r
      BY <1>1 DEF FreeFor, IInv, TypeOK
    <3>2. UniqueIn(rname) /\ DOMAIN rname = ResourceId /\ DOMAIN rname' = ResourceId
      BY <1>6 DEF IInv, TypeOK, UniqueNames
    <3> QED
      BY <1>6, <3>1, <3>2 DEF UniqueIn
  <2> QED
    BY <1>2, <2>1 DEF IInv, UniqueNames, UniqueIn
<1>11. WildcardKept' /\ LinksExist' /\ LabelFollowsLink'
  BY <1>2, <1>4, <1>5, <1>6
     DEF IInv, WildcardKept, LinksExist, LabelFollowsLink, TypeOK
<1>13. SeededStayLinked'
  <2> SUFFICES ASSUME NEW p \in PermissionId, p \notin touched,
                      pname[p] # None, label[p] \in DefaultResources
               PROVE  link[p] # None /\ rname'[link[p]] = label[p]
    BY <1>2 DEF SeededStayLinked
  <2>1. link[p] \in ResourceId /\ rname[link[p]] = label[p]
    BY DEF IInv, SeededStayLinked, TypeOK
  <2> QED
    BY <1>5, <1>6, <2>1, NamesAssumption
<1>12. Pending'
  <2>1. RowsDriftOnly
    BY <1>1, <1>2, <1>6 DEF RowsDriftOnly
  <2> QED
    BY <1>3, <2>1, PendingKept DEF IInv
<1> QED
  BY <1>7, <1>8, <1>9, <1>10, <1>11, <1>12, <1>13 DEF IInv

LEMMA RenameResourceInv == ASSUME IInv, NEW t \in Txn, RenameResource(t) PROVE IInv'
<1> DEFINE r == request[t].key
           n == request[t].name
<1> USE KeysAssumption
<1>1. /\ rname[r] # None
      /\ FreeFor(rname, r, n)
      /\ rname' = [rname EXCEPT ![r] = n]
      /\ renamed' = renamed \cup {r}
  BY DEF RenameResource
<1>2. UNCHANGED <<pname, label, link, used, byHand, touched>>
  BY DEF RenameResource, permissions
<1>3. /\ request' \in [Txn -> Request]
      /\ \A u \in Txn : request'[u] \in {request[u], Idle}
      /\ up /\ up' = up /\ served' = served
      /\ request[t].op = "renameResource"
  BY Finished DEF IInv, RenameResource
<1>4. n \in ResourceName /\ r \in ResourceId \cap used /\ rname[r] \notin DefaultResources
  BY <1>3 DEF IInv, Pending, NewFields, ResourceTarget
<1>5. /\ rname' \in [ResourceId -> ResourceName \cup {None}]
      /\ \A k \in ResourceId : k # r => rname'[k] = rname[k]
      /\ rname'[r] = n
  BY <1>1, <1>4 DEF IInv, TypeOK
<1>6. \A k \in ResourceId : rname[k] = n => k = r
  BY <1>1 DEF FreeFor, IInv, TypeOK
<1>7. n \notin DefaultResources
  BY <1>3, <1>4, <1>6 DEF IInv, Serving, Held, TypeOK
<1>8. TypeOK'
  BY <1>1, <1>2, <1>3, <1>4, <1>5 DEF IInv, TypeOK
<1>9. KeysUsed'
  BY <1>2, <1>4, <1>5 DEF IInv, KeysUsed
<1>10. Serving'
  <2>1. ASSUME NEW d \in DefaultResources PROVE Held(rname', d)
    <3>1. PICK k \in ResourceId : rname[k] = d
      BY <1>3 DEF IInv, Serving, Held, TypeOK
    <3>2. k # r
      BY <1>4, <3>1
    <3> QED
      BY <1>5, <3>1, <3>2 DEF Held
  <2> QED
    BY <1>3, <2>1 DEF Serving, Held
<1>11. UniqueNames'
  <2>1. UniqueIn(rname)'
    <3>1. UniqueIn(rname) /\ DOMAIN rname = ResourceId /\ DOMAIN rname' = ResourceId
      BY <1>5 DEF IInv, TypeOK, UniqueNames
    <3> QED
      BY <1>5, <1>6, <3>1 DEF UniqueIn
  <2> QED
    BY <1>2, <2>1 DEF IInv, UniqueNames, UniqueIn
<1>12. WildcardKept' /\ LinksExist' /\ LabelFollowsLink'
  BY <1>1, <1>2, <1>4, <1>5 DEF IInv, WildcardKept, LinksExist, LabelFollowsLink, TypeOK
<1>14. SeededStayLinked'
  <2> SUFFICES ASSUME NEW p \in PermissionId, p \notin touched,
                      pname[p] # None, label[p] \in DefaultResources
               PROVE  link[p] # None /\ rname'[link[p]] = label[p]
    BY <1>2 DEF SeededStayLinked
  <2>1. link[p] \in ResourceId /\ rname[link[p]] = label[p]
    BY DEF IInv, SeededStayLinked, TypeOK
  <2> QED
    BY <1>4, <1>5, <2>1
<1>13. Pending'
  <2>1. RowsDriftOnly
    BY <1>1, <1>2, <1>5, <1>7 DEF RowsDriftOnly
  <2> QED
    BY <1>3, <2>1, PendingKept DEF IInv
<1> QED
  BY <1>8, <1>9, <1>10, <1>11, <1>12, <1>13, <1>14 DEF IInv

LEMMA DropResourceInv == ASSUME IInv, NEW t \in Txn, DropResource(t) PROVE IInv'
<1> DEFINE r == request[t].key
           gone == Cascade(r)
<1> USE KeysAssumption
<1>1. UNCHANGED <<used, renamed, byHand, touched>>
  BY DEF DropResource, history
<1>2. /\ request' \in [Txn -> Request]
      /\ \A u \in Txn : request'[u] \in {request[u], Idle}
      /\ up /\ up' = up /\ served' = served
      /\ request[t].op = "dropResource"
  BY Finished DEF IInv, DropResource
<1>3. r \in ResourceId \cap used /\ rname[r] \notin DefaultResources
  BY <1>2 DEF IInv, Pending, ResourceTarget
<1>4. /\ rname' = [k \in ResourceId |-> IF k = r THEN None ELSE rname[k]]
      /\ pname' = [p \in PermissionId |-> IF link[p] = r THEN None ELSE pname[p]]
      /\ label' = [p \in PermissionId |-> IF link[p] = r THEN None ELSE label[p]]
      /\ link' = [p \in PermissionId |-> IF link[p] = r THEN None ELSE link[p]]
  BY DEF DropResource, DropPermissions, Without, Cascade, IInv, TypeOK
<1>5. TypeOK'
  BY <1>1, <1>2, <1>4 DEF IInv, TypeOK
<1>6. KeysUsed'
  BY <1>1, <1>4 DEF IInv, KeysUsed
<1>7. Serving'
  <2>1. ASSUME NEW d \in DefaultResources PROVE Held(rname', d)
    <3>1. PICK k \in ResourceId : rname[k] = d
      BY <1>2 DEF IInv, Serving, Held, TypeOK
    <3> QED
      BY <1>3, <1>4, <3>1 DEF Held
  <2> QED
    BY <1>2, <2>1 DEF Serving, Held
<1>8. UniqueNames'
  BY <1>4 DEF IInv, UniqueNames, UniqueIn, TypeOK
<1>9. WildcardKept' /\ LinksExist' /\ LabelFollowsLink'
  BY <1>1, <1>3, <1>4 DEF IInv, WildcardKept, LinksExist, LabelFollowsLink, TypeOK
<1>11. SeededStayLinked'
  <2> SUFFICES ASSUME NEW p \in PermissionId, p \notin touched,
                      pname'[p] # None, label'[p] \in DefaultResources
               PROVE  link'[p] # None /\ rname'[link'[p]] = label'[p]
    BY <1>1 DEF SeededStayLinked
  <2>1. /\ link[p] # r /\ pname[p] # None
        /\ label'[p] = label[p] /\ link'[p] = link[p]
    BY <1>4
  <2>2. link[p] \in ResourceId /\ rname[link[p]] = label[p]
    BY <2>1 DEF IInv, SeededStayLinked, TypeOK
  <2> QED
    BY <1>4, <2>1, <2>2
<1>10. Pending'
  <2>1. \A k \in ResourceId : rname'[k] \in {rname[k], None}
    BY <1>4
  <2>2. \A p \in PermissionId : pname'[p] = "admin" => pname[p] = "admin"
    BY <1>4, NamesAssumption
  <2>3. RowsDriftOnly
    BY <1>1, <2>1, <2>2 DEF RowsDriftOnly
  <2> QED
    BY <1>2, <2>3, PendingKept DEF IInv
<1> QED
  BY <1>5, <1>6, <1>7, <1>8, <1>9, <1>10, <1>11 DEF IInv

-----------------------------------------------------------------------------
(* Writes to the permissions *)

LEMMA AddPermissionInv == ASSUME IInv, NEW t \in Txn, AddPermission(t) PROVE IInv'
<1> DEFINE new == request[t]
<1> USE KeysAssumption
<1>1. PICK p \in PermissionId \ used :
        /\ FreeFor(pname, p, new.name)
        /\ pname' = [pname EXCEPT ![p] = new.name]
        /\ label' = [label EXCEPT ![p] = new.label]
        /\ link' = [link EXCEPT ![p] = new.link]
        /\ used' = used \cup {p}
        /\ touched' = touched \cup {p}
  BY DEF AddPermission
<1>2. /\ UNCHANGED <<rname, renamed, byHand>>
      /\ new.link # None => rname[new.link] # None
  BY DEF AddPermission, resources, history
<1>3. /\ request' \in [Txn -> Request]
      /\ \A u \in Txn : request'[u] \in {request[u], Idle}
      /\ up /\ up' = up /\ served' = served
      /\ new.op = "addPermission"
  BY Finished DEF IInv, AddPermission
<1>4. /\ new.name \in PermName /\ new.label \in ResourceName
      /\ new.link \in ResourceId \cup {None}
      /\ new.link \in ResourceId /\ rname[new.link] # None /\ new.link \notin renamed =>
           new.label = rname[new.link]
  BY <1>3 DEF IInv, Pending, NewFields, Resolved
<1>5. pname[p] = None
  BY <1>1 DEF IInv, KeysUsed
<1>6. /\ pname' \in [PermissionId -> PermName \cup {None}]
      /\ label' \in [PermissionId -> ResourceName \cup {None}]
      /\ link' \in [PermissionId -> ResourceId \cup {None}]
      /\ \A k \in PermissionId : k # p =>
           pname'[k] = pname[k] /\ label'[k] = label[k] /\ link'[k] = link[k]
      /\ pname'[p] = new.name /\ label'[p] = new.label /\ link'[p] = new.link
  BY <1>1, <1>4 DEF IInv, TypeOK
<1>7. TypeOK'
  BY <1>1, <1>2, <1>3, <1>6 DEF IInv, TypeOK
<1>8. KeysUsed'
  BY <1>1, <1>2, <1>6 DEF IInv, KeysUsed
<1>9. Serving'
  BY <1>2, <1>3 DEF IInv, Serving, Held
<1>10. UniqueNames'
  <2>1. UniqueIn(pname)'
    <3>1. \A k \in PermissionId : pname[k] = new.name => k = p
      BY <1>1 DEF FreeFor, IInv, TypeOK
    <3>2. UniqueIn(pname) /\ DOMAIN pname = PermissionId /\ DOMAIN pname' = PermissionId
      BY <1>6 DEF IInv, TypeOK, UniqueNames
    <3> QED
      BY <1>6, <3>1, <3>2 DEF UniqueIn
  <2> QED
    BY <1>2, <2>1 DEF IInv, UniqueNames, UniqueIn
<1>11. WildcardKept'
  BY <1>5, <1>6, NamesAssumption DEF IInv, WildcardKept
<1>12. LinksExist'
  BY <1>2, <1>6 DEF IInv, LinksExist
<1>13. LabelFollowsLink'
  BY <1>2, <1>4, <1>6 DEF IInv, LabelFollowsLink
<1>15. SeededStayLinked'
  BY <1>1, <1>2, <1>6 DEF IInv, SeededStayLinked
<1>14. Pending'
  <2>1. RowsDriftOnly
    BY <1>1, <1>2, <1>6 DEF RowsDriftOnly
  <2> QED
    BY <1>3, <2>1, PendingKept DEF IInv
<1> QED
  BY <1>7, <1>8, <1>9, <1>10, <1>11, <1>12, <1>13, <1>14, <1>15 DEF IInv

LEMMA ChangePermissionInv == ASSUME IInv, NEW t \in Txn, ChangePermission(t) PROVE IInv'
<1> DEFINE new == request[t]
           p == new.key
           n == Given(new.name, pname[p])
<1> USE KeysAssumption
<1>1. /\ pname[p] # None
      /\ FreeFor(pname, p, n)
      /\ new.link \in ResourceId => rname[new.link] # None
      /\ pname' = [pname EXCEPT ![p] = Given(new.name, @)]
      /\ label' = [label EXCEPT ![p] = Given(new.label, @)]
      /\ link' = [link EXCEPT ![p] = Given(new.link, @)]
      /\ byHand' = IF new.link \in ResourceId THEN byHand \ {p}
                   ELSE IF new.label # Unset THEN byHand \cup {p} ELSE byHand
      /\ touched' = touched \cup {p}
  BY DEF ChangePermission
<1>2. UNCHANGED <<rname, used, renamed>>
  BY DEF ChangePermission, resources
<1>3. /\ request' \in [Txn -> Request]
      /\ \A u \in Txn : request'[u] \in {request[u], Idle}
      /\ up /\ up' = up /\ served' = served
      /\ new \in Request /\ new.op = "changePermission"
  BY Finished DEF IInv, ChangePermission
<1>4. /\ p \in PermissionId \cap used /\ pname[p] # "admin"
      /\ new.name \in PermName \cup {Unset}
      /\ new.link \in ResourceId /\ new.link \notin renamed =>
           new.label = rname[new.link] /\ new.label # Unset
  BY <1>1, <1>3 DEF IInv, Pending, PermissionTarget, NewFields, Resolved
<1>5. new.label \in ResourceName \cup {Unset} /\ new.link \in ResourceId \cup {None, Unset}
  BY <1>3 DEF Request
<1>6. /\ pname \in [PermissionId -> PermName \cup {None}]
      /\ label \in [PermissionId -> ResourceName \cup {None}]
      /\ link \in [PermissionId -> ResourceId \cup {None}]
  BY DEF IInv, TypeOK
<1>7. n \in PermName
  BY <1>1, <1>4, <1>6 DEF Given
<1>8. /\ pname' \in [PermissionId -> PermName \cup {None}]
      /\ label' \in [PermissionId -> ResourceName \cup {None}]
      /\ link' \in [PermissionId -> ResourceId \cup {None}]
      /\ \A k \in PermissionId : k # p =>
           pname'[k] = pname[k] /\ label'[k] = label[k] /\ link'[k] = link[k]
      /\ pname'[p] = n
      /\ label'[p] = (IF new.label = Unset THEN label[p] ELSE new.label)
      /\ link'[p] = (IF new.link = Unset THEN link[p] ELSE new.link)
  BY <1>1, <1>4, <1>5, <1>6, <1>7 DEF Given
<1>9. \A k \in PermissionId : pname[k] = n => k = p
  BY <1>1, <1>6 DEF FreeFor
<1>10. TypeOK'
  BY <1>1, <1>2, <1>3, <1>4, <1>8 DEF IInv, TypeOK
<1>11. KeysUsed'
  BY <1>2, <1>4, <1>8 DEF IInv, KeysUsed
<1>12. Serving'
  BY <1>2, <1>3 DEF IInv, Serving, Held
<1>13. UniqueNames'
  <2>1. UniqueIn(pname)'
    <3>1. UniqueIn(pname) /\ DOMAIN pname = PermissionId /\ DOMAIN pname' = PermissionId
      BY <1>8 DEF IInv, TypeOK, UniqueNames
    <3> QED
      BY <1>8, <1>9, <3>1 DEF UniqueIn
  <2> QED
    BY <1>2, <2>1 DEF IInv, UniqueNames, UniqueIn
<1>14. PICK w \in PermissionId : pname[w] = "admin" /\ link[w] = None
  BY DEF IInv, WildcardKept
<1>15. w # p /\ n # "admin"
  BY <1>4, <1>9, <1>14
<1>16. WildcardKept'
  BY <1>8, <1>14, <1>15 DEF WildcardKept
<1>17. LinksExist'
  BY <1>1, <1>2, <1>5, <1>8 DEF IInv, LinksExist
<1>18. LabelFollowsLink'
  <2>1. ASSUME NEW k \in PermissionId, k # p, link'[k] # None, link'[k] \notin renamed,
               k \notin byHand'
        PROVE  label'[k] = rname[link'[k]]
    <3>1. k \notin byHand
      BY <1>1, <2>1
    <3> QED
      BY <1>8, <2>1, <3>1 DEF IInv, LabelFollowsLink
  <2>2. ASSUME link'[p] # None, link'[p] \notin renamed, p \notin byHand'
        PROVE  label'[p] = rname[link'[p]]
    <3>1. CASE new.link \in ResourceId
      BY <1>4, <1>8, <2>2, <3>1
    <3>2. CASE new.link = None
      BY <1>8, <2>2, <3>2
    <3>3. CASE new.link = Unset
      <4>1. new.label = Unset /\ p \notin byHand
        BY <1>1, <2>2, <3>3
      <4> QED
        BY <1>4, <1>8, <2>2, <3>3, <4>1 DEF IInv, LabelFollowsLink
    <3> QED
      BY <1>5, <3>1, <3>2, <3>3
  <2> QED
    BY <1>2, <2>1, <2>2 DEF LabelFollowsLink
<1>20. SeededStayLinked'
  BY <1>1, <1>2, <1>8 DEF IInv, SeededStayLinked
<1>19. Pending'
  <2>1. \A k \in PermissionId : pname'[k] = "admin" => pname[k] = "admin"
    BY <1>8, <1>15
  <2>2. RowsDriftOnly
    BY <1>2, <2>1 DEF RowsDriftOnly
  <2> QED
    BY <1>3, <2>2, PendingKept DEF IInv
<1> QED
  BY <1>10, <1>11, <1>12, <1>13, <1>16, <1>17, <1>18, <1>19, <1>20 DEF IInv

LEMMA DropPermissionInv == ASSUME IInv, NEW t \in Txn, DropPermission(t) PROVE IInv'
<1> DEFINE p == request[t].key
<1> USE KeysAssumption
<1>1. UNCHANGED <<rname, used, renamed, byHand, touched>>
  BY DEF DropPermission, resources, history
<1>2. /\ request' \in [Txn -> Request]
      /\ \A u \in Txn : request'[u] \in {request[u], Idle}
      /\ up /\ up' = up /\ served' = served
      /\ request[t].op = "dropPermission"
  BY Finished DEF IInv, DropPermission
<1>3. p \in PermissionId /\ pname[p] # "admin"
  BY <1>2 DEF IInv, Pending, PermissionTarget
<1>4. /\ pname' = [k \in PermissionId |-> IF k = p THEN None ELSE pname[k]]
      /\ label' = [k \in PermissionId |-> IF k = p THEN None ELSE label[k]]
      /\ link' = [k \in PermissionId |-> IF k = p THEN None ELSE link[k]]
  BY DEF DropPermission, DropPermissions, Without, IInv, TypeOK
<1>5. TypeOK'
  BY <1>1, <1>2, <1>4 DEF IInv, TypeOK
<1>6. KeysUsed'
  BY <1>1, <1>4 DEF IInv, KeysUsed
<1>7. Serving'
  BY <1>1, <1>2 DEF IInv, Serving, Held
<1>8. UniqueNames'
  BY <1>1, <1>4 DEF IInv, UniqueNames, UniqueIn, TypeOK
<1>9. WildcardKept' /\ LinksExist' /\ LabelFollowsLink'
  BY <1>1, <1>3, <1>4 DEF IInv, WildcardKept, LinksExist, LabelFollowsLink, TypeOK
<1>11. SeededStayLinked'
  BY <1>1, <1>4 DEF IInv, SeededStayLinked
<1>10. Pending'
  <2>1. \A k \in PermissionId : pname'[k] = "admin" => pname[k] = "admin"
    BY <1>4, NamesAssumption
  <2>2. RowsDriftOnly
    BY <1>1, <2>1 DEF RowsDriftOnly
  <2> QED
    BY <1>2, <2>2, PendingKept DEF IInv
<1> QED
  BY <1>5, <1>6, <1>7, <1>8, <1>9, <1>10, <1>11 DEF IInv

-----------------------------------------------------------------------------
(* The theorems *)

LEMMA NextInv == ASSUME IInv, [Next]_vars PROVE IInv'
<1>1. CASE Boot
  BY <1>1, BootInv
<1>2. CASE Stop
  BY <1>2, StopInv
<1>3. ASSUME NEW t \in Txn, Call(t) PROVE IInv'
  BY <1>3, CallInv
<1>4. ASSUME NEW t \in Txn, Write(t) PROVE IInv'
  BY <1>4, AddResourceInv, RenameResourceInv, DropResourceInv,
     AddPermissionInv, ChangePermissionInv, DropPermissionInv DEF Write
<1>5. ASSUME NEW t \in Txn, Fail(t) PROVE IInv'
  BY <1>5, FailInv
<1>6. CASE UNCHANGED vars
  BY <1>6 DEF IInv, vars, resources, permissions, history, TypeOK, KeysUsed, Serving,
              UniqueNames, UniqueIn, WildcardKept, LinksExist, LabelFollowsLink, SeededStayLinked, Pending,
              ResourceTarget, PermissionTarget, NewFields, Resolved, Held
<1> QED
  BY <1>1, <1>2, <1>3, <1>4, <1>5, <1>6 DEF Next

(* The inductive invariant holds of every reachable state of the           *)
(* catalogue's tables and pending requests.                                *)
THEOREM Inductive == Spec => []IInv
<1>1. Init => IInv
  BY InitInv
<1>2. IInv /\ [Next]_vars => IInv'
  BY NextInv
<1> QED
  BY <1>1, <1>2, PTL DEF Spec

(* Every table and every pending request of the catalogue has its type.    *)
THEOREM TypeCorrect == Spec => []TypeOK
<1>1. IInv => TypeOK
  BY DEF IInv
<1> QED
  BY <1>1, Inductive, PTL

(* A permission's resource_id always refers to a resource, whatever is     *)
(* deleted between the lookup of the resource and the write of the row.    *)
THEOREM LinksAreKept == Spec => []LinksExist
<1>1. IInv => LinksExist
  BY DEF IInv
<1> QED
  BY <1>1, Inductive, PTL

(* No two resources and no two permissions ever share a name, though the   *)
(* services' lookups of a name are out of date when the row is written.    *)
THEOREM NamesAreUnique == Spec => []UniqueNames
<1>1. IInv => UniqueNames
  BY DEF IInv
<1> QED
  BY <1>1, Inductive, PTL

(* No sequence of catalogue requests, seedings and stops renames, deletes  *)
(* or links the admin permission.                                          *)
THEOREM WildcardStays == Spec => []WildcardKept
<1>1. IInv => WildcardKept
  BY DEF IInv
<1> QED
  BY <1>1, Inductive, PTL

(* The denormalised resource string can differ from the name of the linked *)
(* resource only where that was renamed or the string patched by itself.   *)
THEOREM LabelsFollow == Spec => []LabelFollowsLink
<1>1. IInv => LabelFollowsLink
  BY DEF IInv
<1> QED
  BY <1>1, Inductive, PTL

(* No step renames or deletes a resource that bears a protected name at    *)
(* that moment, although the services check the name before they write.    *)
THEOREM ProtectedStay == Spec => ProtectedKept
<1> DEFINE Kept == \A r \in ResourceId : rname[r] \in DefaultResources => rname'[r] = rname[r]
<1>1. ASSUME IInv, [Next]_vars PROVE Kept
  <2> USE NamesAssumption, KeysAssumption
  <2>1. CASE Boot
    <3>1. \A r \in ResourceId : rname[r] # None => rname'[r] = rname[r]
      BY <1>1, <2>1, BootEffect DEF IInv
    <3> QED
      BY <3>1
  <2>2. ASSUME NEW t \in Txn, AddResource(t) PROVE Kept
    <3>1. PICK r \in ResourceId \ used : rname' = [rname EXCEPT ![r] = request[t].name]
      BY <2>2 DEF AddResource
    <3> QED
      BY <1>1, <3>1 DEF IInv, TypeOK, KeysUsed
  <2>3. ASSUME NEW t \in Txn, RenameResource(t) PROVE Kept
    <3>1. rname[request[t].key] \notin DefaultResources
      BY <1>1, <2>3 DEF IInv, Pending, ResourceTarget, RenameResource, Finish
    <3> QED
      BY <1>1, <2>3, <3>1 DEF IInv, TypeOK, RenameResource
  <2>4. ASSUME NEW t \in Txn, DropResource(t) PROVE Kept
    <3>1. rname[request[t].key] \notin DefaultResources
      BY <1>1, <2>4 DEF IInv, Pending, ResourceTarget, DropResource, Finish
    <3> QED
      BY <1>1, <2>4, <3>1 DEF IInv, TypeOK, DropResource, Without
  <2>5. ASSUME NEW t \in Txn, AddPermission(t) \/ ChangePermission(t) \/ DropPermission(t)
        PROVE  Kept
    BY <2>5 DEF AddPermission, ChangePermission, DropPermission, resources
  <2>6. ASSUME NEW t \in Txn, Call(t) PROVE Kept
    BY <1>1, <2>6, CallLooksUp DEF IInv, Checked, resources
  <2>7. CASE Stop
    BY <2>7 DEF Stop, resources
  <2>8. ASSUME NEW t \in Txn, Fail(t) PROVE Kept
    BY <2>8 DEF Fail, resources
  <2>9. CASE UNCHANGED vars
    BY <2>9 DEF vars, resources
  <2> QED
    BY <1>1, <2>1, <2>2, <2>3, <2>4, <2>5, <2>6, <2>7, <2>8, <2>9 DEF Next, Write
<1>2. IInv /\ [Next]_vars => [Kept]_vars
  BY <1>1
<1> QED
  BY <1>2, Inductive, PTL DEF Spec, ProtectedKept

(* A default permission that was seeded, by a migration or a start, and    *)
(* that no request wrote is always linked to the default resource that its *)
(* label names.                                                            *)
THEOREM SeededLinksStay == Spec => []SeededStayLinked
<1>1. IInv => SeededStayLinked
  BY DEF IInv
<1> QED
  BY <1>1, Inductive, PTL
=============================================================================
