------------------------- MODULE RoleDeletionProofs -------------------------
(***************************************************************************)
(* Proofs about delete_role at statement level, for any users, roles and   *)
(* requests.  IInv is the inductive invariant: what a request has done by  *)
(* each of its statements, what its locks keep others from doing, and      *)
(* what a deletion still owes to the users it takes a role from.           *)
(***************************************************************************)
EXTENDS RoleDeletion, TLAPS

Deleting(t) == tx[t].op = "delete" /\ tx[t].stage \in InFlight

(* What request t has done when its record is x.                           *)
Shape(t, x) ==
  /\ x.stage \notin InFlight => x.added = {} /\ x.removed = {} /\ ~x.created /\ ~x.dropped
  /\ x.stage \in InFlight => x.role \in Key
  /\ x.stage \in {"affected", "count", "find", "create", "drop", "cascade"} => x.op = "delete"
  /\ x.stage = "remove" => x.op # "assign"
  /\ x.stage \in {"check", "insert"} => x.op # "remove" /\ x.target \in Key
  /\ x.stage \in {"remove", "count", "find", "create", "check", "insert"} => x.who \in User
  /\ x.op # "delete" => ~x.created /\ ~x.dropped /\ x.fell = {}
  /\ x.op = "assign" => x.removed = {}
  /\ x.op = "assign" /\ x.stage \in InFlight => x.who \in User /\ x.target = x.role
  /\ x.op = "assign" /\ x.stage = "commit" => <<x.who, x.role>> \in x.added
  /\ x.op = "remove" => x.who \in User /\ x.added = {} /\ x.removed \subseteq {<<x.who, x.role>>}
  /\ x.op = "delete" => (x.dropped <=> x.stage \in {"cascade", "commit"})
  /\ x.op = "delete" /\ x.stage \in {"drop", "cascade", "commit"} => x.todo = {}
  /\ x.op = "delete" /\ x.stage \in {"check", "insert"} => IsGuest(x.target)
  /\ x.op = "delete" => \A row \in x.added : IsGuest(row[2])
  /\ x.stage = "affected" => x.added = {} /\ x.removed = {} /\ x.fell = {}
  /\ x.stage = "create" => ~x.created
  /\ \A row \in x.removed : row[2] = x.role

Shapes == \A t \in Txn : Shape(t, tx[t])

(* What the row locks, the foreign key and the unique index guarantee.     *)
Locks ==
  /\ \A s, t \in Txn : tx[s].created /\ tx[t].created => s = t
  /\ \A t \in Txn : tx[t].created => \A g \in roles : ~IsGuest(g)
  /\ \A s, t \in Txn : s # t /\ tx[s].dropped /\ tx[t].dropped => tx[s].role # tx[t].role
  /\ \A s, t \in Txn : s # t /\ tx[t].dropped => \A row \in tx[s].added : row[2] # tx[t].role
  /\ \A t \in Txn, row \in Row : row \in tx[t].added =>
       row[2] \in roles \/ (tx[t].created /\ row[2] = t)
  /\ \A t \in Txn : tx[t].dropped /\ tx[t].stage = "commit" =>
       \A row \in Seen(t) : row[2] # tx[t].role

(* Whom a deletion moved to a guest role has a row of it in store.         *)
Fallen ==
  \A t \in Txn : ~IsGuest(tx[t].role) =>
    \A u \in tx[t].fell : \E g \in Key : IsGuest(g) /\ <<u, g>> \in tx[t].added

Serial == ~overlapped => \A s, t \in Txn : Deleting(s) /\ Deleting(t) => s = t

GuestsStay == \A r \in deleted : ~IsGuest(r)

(* The user has a role besides the one that a request with record x        *)
(* deletes.                                                                *)
Kept(x, u) ==
  \E r \in Key : r # x.role /\ <<u, r>> \in (rows \ x.removed) \cup x.added

(* The deletion has still to look at the user, or is looking at it.        *)
Owed(x, u) ==
  LET row == <<u, x.role>>
  IN  \/ u \in x.todo /\ row \in rows
      \/ u = x.who /\ x.stage = "remove" /\ row \in rows
      \/ /\ u = x.who /\ row \in x.removed
         /\ x.stage \in {"count", "find", "create", "check", "insert"}

(* A user who was given a role in time is not lost sight of.               *)
Remembered(x) ==
  x.op = "delete" /\ x.stage \in InFlight \ {"affected"} /\ ~IsGuest(x.role) =>
    \A u \in given : Kept(x, u) \/ Owed(x, u)

NobodyForgotten == ~overlapped /\ GuestsStay => \A t \in Txn : Remembered(tx[t])

IInv ==
  /\ TypeOK
  /\ Shapes
  /\ Locks
  /\ OneGuest
  /\ NoOrphanRow
  /\ Fallen
  /\ Serial
  /\ NobodyForgotten
  /\ NobodyDropped

-----------------------------------------------------------------------------
(* Records of a transaction *)

LEMMA FreshType ==
  ASSUME NEW s \in {"new", "done", "failed"}
  PROVE  [Fresh EXCEPT !.stage = s] \in Transaction
  BY DEF Fresh, Transaction

(* One turn of the loop of delete_role changes who is looked at, and no    *)
(* more.                                                                   *)
LEMMA LoopFields ==
  ASSUME NEW x \in Transaction, NEW y \in Loop(x)
  PROVE  /\ y \in Transaction
         /\ y.op = x.op /\ y.role = x.role /\ y.target = x.target
         /\ y.added = x.added /\ y.removed = x.removed /\ y.fell = x.fell
         /\ y.created = x.created /\ y.dropped = x.dropped
         /\ \/ y.stage = "drop" /\ x.todo = {} /\ y.todo = {} /\ y.who = x.who
            \/ y.stage = "remove" /\ y.who \in x.todo /\ y.todo = x.todo \ {y.who}
<1>1. CASE x.todo = {}
  <2>1. y = [x EXCEPT !.stage = "drop"]
    BY <1>1 DEF Loop
  <2> QED
    BY <1>1, <2>1 DEF Transaction, InFlight
<1>2. CASE x.todo # {}
  <2>1. PICK u \in x.todo : y = [x EXCEPT !.stage = "remove", !.who = u, !.todo = @ \ {u}]
    BY <1>2 DEF Loop
  <2> QED
    BY <1>2, <2>1 DEF Transaction, InFlight
<1> QED
  BY <1>1, <1>2

LEMMA BecomeType ==
  ASSUME TypeOK, NEW t \in Txn, NEW x \in Transaction, Become(t, x)
  PROVE  TypeOK'
  BY DEF TypeOK, Become, history

LEMMA FailType ==
  ASSUME TypeOK, NEW t \in Txn, Fail(t)
  PROVE  TypeOK'
<1>1. [Fresh EXCEPT !.stage = "failed"] \in Transaction
  BY FreshType
<1> QED
  BY <1>1, BecomeType DEF Fail

(* A step of one request other than its begin and its commit.              *)
LEMMA StatementType ==
  ASSUME TypeOK, NEW t \in Txn,
         \/ ReadAffected(t) \/ RemoveRow(t) \/ CountRoles(t) \/ FindGuest(t)
         \/ CreateGuest(t) \/ CheckRow(t) \/ InsertRow(t) \/ DropRole(t) \/ CascadeRow(t),
         Shapes
  PROVE  TypeOK'
<1> DEFINE x == tx[t]
<1>0. x \in Transaction /\ rows \subseteq Row /\ roles \subseteq Key
  BY DEF TypeOK
<1>01. Shape(t, x)
  BY DEF Shapes
<1>1. ASSUME NEW y \in Transaction, NEW z \in Loop(y), Become(t, z) PROVE TypeOK'
  BY <1>1, LoopFields, BecomeType
<1>2. CASE ReadAffected(t)
  <2>1. [x EXCEPT !.todo = {u \in User : <<u, x.role>> \in Seen(t)}] \in Transaction
    BY <1>0 DEF Transaction
  <2> QED
    BY <1>1, <1>2, <2>1 DEF ReadAffected
<1>3. CASE RemoveRow(t)
  <2> DEFINE row == <<x.who, x.role>>
             y == [x EXCEPT !.removed = IF row \in Seen(t) THEN @ \cup {row} ELSE @]
  <2>1. row \in Row
    BY <1>0, <1>01, <1>3 DEF RemoveRow, At, Shape, Row, InFlight
  <2>2. y \in Transaction
    BY <1>0, <2>1 DEF Transaction
  <2>3. /\ [y EXCEPT !.stage = "count"] \in Transaction
        /\ [y EXCEPT !.stage = "commit"] \in Transaction
    BY <2>2 DEF Transaction, InFlight
  <2> HIDE DEF y
  <2>4. \/ Become(t, [y EXCEPT !.stage = "count"])
        \/ Become(t, [y EXCEPT !.stage = "commit"])
        \/ Fail(t)
    BY <1>3 DEF RemoveRow, y
  <2> QED
    BY <2>3, <2>4, BecomeType, FailType
<1>4. CASE CountRoles(t)
  <2>1. [x EXCEPT !.stage = "find"] \in Transaction
    BY <1>0 DEF Transaction, InFlight
  <2> QED
    BY <1>0, <1>1, <1>4, <2>1, BecomeType DEF CountRoles
<1>5. CASE FindGuest(t)
  <2>1. [x EXCEPT !.stage = "create"] \in Transaction
    BY <1>0 DEF Transaction, InFlight
  <2>2. ASSUME NEW g \in RolesSeen(t)
        PROVE  [x EXCEPT !.target = g, !.stage = "check"] \in Transaction
    BY <1>0 DEF Transaction, InFlight, RolesSeen, Key
  <2> QED
    BY <1>5, <2>1, <2>2, BecomeType DEF FindGuest
<1>6. CASE CreateGuest(t)
  <2>1. [x EXCEPT !.created = TRUE, !.target = t, !.stage = "check"] \in Transaction
    BY <1>0 DEF Transaction, InFlight, Key
  <2> QED
    BY <1>6, <2>1, BecomeType, FailType DEF CreateGuest
<1>7. CASE CheckRow(t)
  <2>1. [x EXCEPT !.stage = "insert"] \in Transaction
    BY <1>0 DEF Transaction, InFlight
  <2> QED
    BY <1>0, <1>1, <1>7, <2>1, BecomeType, FailType DEF CheckRow
<1>8. CASE InsertRow(t)
  <2> DEFINE row == <<x.who, x.target>>
             y == [x EXCEPT !.added = @ \cup {row}]
             z == [y EXCEPT !.fell = @ \cup {x.who}]
  <2>1. row \in Row /\ x.who \in User
    BY <1>0, <1>01, <1>8 DEF InsertRow, At, Shape, Row, InFlight
  <2>2. y \in Transaction
    BY <1>0, <2>1 DEF Transaction
  <2>3. z \in Transaction /\ [y EXCEPT !.stage = "commit"] \in Transaction
    BY <2>1, <2>2 DEF Transaction, InFlight
  <2>4. \/ Fail(t)
        \/ Become(t, [y EXCEPT !.stage = "commit"])
        \/ \E w \in Loop(z) : Become(t, w)
    BY <1>8 DEF InsertRow
  <2> QED
    BY <1>1, <2>3, <2>4, BecomeType, FailType
<1>9. CASE DropRole(t)
  <2>1. [x EXCEPT !.dropped = TRUE, !.stage = "cascade"] \in Transaction
    BY <1>0 DEF Transaction, InFlight
  <2> QED
    BY <1>9, <2>1, BecomeType, FailType DEF DropRole
<1>10. CASE CascadeRow(t)
  <2>1. [x EXCEPT !.stage = "commit"] \in Transaction
    BY <1>0 DEF Transaction, InFlight
  <2>2. ASSUME NEW row \in CascadeRows(t)
        PROVE  [x EXCEPT !.removed = @ \cup {row}, !.added = @ \ {row}] \in Transaction
    <3>1. row \in Row
      BY <1>0 DEF CascadeRows, Seen, Transaction
    <3> QED
      BY <1>0, <3>1 DEF Transaction
  <2> QED
    BY <1>10, <2>1, <2>2, BecomeType DEF CascadeRow
<1> QED
  BY <1>2, <1>3, <1>4, <1>5, <1>6, <1>7, <1>8, <1>9, <1>10

LEMMA TypeNext == ASSUME TypeOK, Shapes, [Next]_vars PROVE TypeOK'
<1>1. CASE UNCHANGED vars
  BY <1>1 DEF vars, history, TypeOK
<1>2. ASSUME NEW t \in Txn, BeginDeletion(t) PROVE TypeOK'
  <2>1. PICK r \in roles :
          tx' = [tx EXCEPT ![t] = [Fresh EXCEPT !.op = "delete", !.role = r, !.stage = "affected"]]
    BY <1>2 DEF BeginDeletion
  <2>2. [Fresh EXCEPT !.op = "delete", !.role = r, !.stage = "affected"] \in Transaction
    BY DEF Fresh, Transaction, InFlight, TypeOK
  <2> QED
    BY <1>2, <2>1, <2>2 DEF BeginDeletion, TypeOK
<1>3. ASSUME NEW t \in Txn, BeginAssignment(t) PROVE TypeOK'
  <2>1. PICK r \in roles, u \in User :
          Become(t, [Fresh EXCEPT !.op = "assign", !.who = u, !.role = r, !.target = r,
                                  !.stage = "check"])
    BY <1>3 DEF BeginAssignment
  <2>2. [Fresh EXCEPT !.op = "assign", !.who = u, !.role = r, !.target = r, !.stage = "check"]
          \in Transaction
    BY DEF Fresh, Transaction, InFlight, TypeOK
  <2> QED
    BY <2>1, <2>2, BecomeType
<1>4. ASSUME NEW t \in Txn, BeginRemoval(t) PROVE TypeOK'
  <2>1. PICK r \in roles, u \in User :
          Become(t, [Fresh EXCEPT !.op = "remove", !.who = u, !.role = r, !.stage = "remove"])
    BY <1>4 DEF BeginRemoval
  <2>2. [Fresh EXCEPT !.op = "remove", !.who = u, !.role = r, !.stage = "remove"] \in Transaction
    BY DEF Fresh, Transaction, InFlight, TypeOK
  <2> QED
    BY <2>1, <2>2, BecomeType
<1>5. ASSUME NEW t \in Txn, Commit(t) PROVE TypeOK'
  <2>1. [Fresh EXCEPT !.stage = "done"] \in Transaction
    BY FreshType
  <2>2. tx' \in [Txn -> Transaction]
    BY <1>5, <2>1 DEF Commit, TypeOK
  <2>3. tx[t] \in Transaction
    BY DEF TypeOK
  <2>4. rows' \subseteq Row
    BY <1>5, <2>3 DEF Commit, TypeOK, Seen, Transaction
  <2>5. roles' \subseteq Key
    BY <1>5 DEF Commit, TypeOK, RolesSeen, Key
  <2>6. given' \subseteq User /\ late' \subseteq User
    <3>1. tx[t].op \in {"assign", "remove"} => tx[t].who \in User
      BY <1>5 DEF Commit, At, Shapes, Shape, InFlight
    <3> QED
      BY <1>5, <3>1 DEF Commit, TypeOK, Subject
  <2>7. deleted' \subseteq Key
    <3>1. tx[t].dropped => tx[t].role \in Key
      BY <1>5 DEF Commit, At, Shapes, Shape, InFlight
    <3> QED
      BY <1>5, <3>1 DEF Commit, TypeOK
  <2> QED
    BY <1>5, <2>2, <2>4, <2>5, <2>6, <2>7 DEF Commit, TypeOK
<1>6. ASSUME NEW t \in Txn, Abort(t) PROVE TypeOK'
  BY <1>6, FailType DEF Abort
<1> QED
  BY <1>1, <1>2, <1>3, <1>4, <1>5, <1>6, StatementType DEF Next, Step
-----------------------------------------------------------------------------
(* What a request has done by each of its statements *)

LEMMA BecomeShape ==
  ASSUME TypeOK, Shapes, NEW t \in Txn, NEW x \in Transaction, Shape(t, x),
         tx' = [tx EXCEPT ![t] = x]
  PROVE  Shapes'
<1> SUFFICES ASSUME NEW s \in Txn PROVE Shape(s, tx'[s])
  BY DEF Shapes
<1>1. CASE s = t
  BY <1>1 DEF TypeOK
<1>2. CASE s # t
  <2>1. tx'[s] = tx[s]
    BY <1>2 DEF TypeOK
  <2> QED
    BY <2>1 DEF Shapes
<1> QED
  BY <1>1, <1>2

LEMMA FreshShape ==
  ASSUME NEW t \in Txn, NEW s \in {"new", "done", "failed"}
  PROVE  Shape(t, [Fresh EXCEPT !.stage = s])
  BY DEF Shape, Fresh, InFlight

LEMMA LoopShape ==
  ASSUME NEW t \in Txn, NEW x \in Transaction, NEW y \in Loop(x),
         x.op = "delete", x.role \in Key, ~x.dropped,
         \A row \in x.added : IsGuest(row[2]),
         \A row \in x.removed : row[2] = x.role
  PROVE  Shape(t, y)
<1>1. /\ y.op = "delete" /\ y.role = x.role /\ y.added = x.added /\ y.removed = x.removed
      /\ y.dropped = x.dropped
      /\ \/ y.stage = "drop" /\ y.todo = {}
         \/ y.stage = "remove" /\ y.who \in User
  BY LoopFields DEF Transaction
<1> QED
  BY <1>1 DEF Shape, InFlight

LEMMA FailShape == ASSUME TypeOK, Shapes, NEW t \in Txn, Fail(t) PROVE Shapes'
  BY FreshType, FreshShape, BecomeShape DEF Fail, Become

LEMMA StatementShape ==
  ASSUME TypeOK, Shapes, NEW t \in Txn,
         \/ ReadAffected(t) \/ RemoveRow(t) \/ CountRoles(t) \/ FindGuest(t)
         \/ CreateGuest(t) \/ CheckRow(t) \/ InsertRow(t) \/ DropRole(t) \/ CascadeRow(t)
  PROVE  Shapes'
<1> DEFINE x == tx[t]
<1>0. x \in Transaction /\ Shape(t, x)
  BY DEF TypeOK, Shapes
<1>1. ASSUME NEW y \in Transaction, Become(t, y), Shape(t, y) PROVE Shapes'
  BY <1>1, BecomeShape DEF Become
<1>2. ASSUME NEW y \in Transaction, NEW z \in Loop(y), Become(t, z),
             y.op = "delete", y.role \in Key, ~y.dropped,
             \A row \in y.added : IsGuest(row[2]),
             \A row \in y.removed : row[2] = y.role
      PROVE  Shapes'
  <2>1. z \in Transaction /\ Shape(t, z)
    BY <1>2, LoopFields, LoopShape
  <2> QED
    BY <1>1, <1>2, <2>1
<1>3. CASE ReadAffected(t)
  <2> DEFINE y == [x EXCEPT !.todo = {u \in User : <<u, x.role>> \in Seen(t)}]
  <2>1. y \in Transaction /\ y.op = x.op /\ y.role = x.role /\ y.dropped = x.dropped
        /\ y.added = x.added /\ y.removed = x.removed
    BY <1>0 DEF Transaction
  <2>2. x.op = "delete" /\ x.role \in Key /\ ~x.dropped /\ x.added = {} /\ x.removed = {}
    BY <1>0, <1>3 DEF ReadAffected, At, Shape, InFlight
  <2>3. PICK z \in Loop(y) : Become(t, z)
    BY <1>3 DEF ReadAffected
  <2> HIDE DEF y
  <2> QED
    BY <1>2, <2>1, <2>2, <2>3
<1>4. CASE RemoveRow(t)
  <2> DEFINE row == <<x.who, x.role>>
             y == [x EXCEPT !.removed = IF row \in Seen(t) THEN @ \cup {row} ELSE @]
  <2>1. x.who \in User /\ x.role \in Key /\ row \in Row /\ x.op # "assign" /\ row[2] = x.role
    BY <1>0, <1>4 DEF RemoveRow, At, Shape, Row, InFlight
  <2>2. y \in Transaction
    BY <1>0, <2>1 DEF Transaction
  <2>3. CASE x.op = "delete"
    <3>1. Become(t, [y EXCEPT !.stage = "count"])
      BY <1>4, <2>3 DEF RemoveRow
    <3>2. [y EXCEPT !.stage = "count"] \in Transaction
      BY <2>2 DEF Transaction, InFlight
    <3>3. Shape(t, [y EXCEPT !.stage = "count"])
      BY <1>0, <1>4, <2>1, <2>3 DEF RemoveRow, At, Shape, InFlight, Transaction
    <3> QED
      BY <1>1, <3>1, <3>2, <3>3
  <2>4. CASE x.op = "remove" /\ row \in Seen(t)
    <3>1. Become(t, [y EXCEPT !.stage = "commit"])
      BY <1>4, <2>4 DEF RemoveRow
    <3>2. [y EXCEPT !.stage = "commit"] \in Transaction
      BY <2>2 DEF Transaction, InFlight
    <3>3. Shape(t, [y EXCEPT !.stage = "commit"])
      BY <1>0, <1>4, <2>1, <2>4 DEF RemoveRow, At, Shape, InFlight, Transaction
    <3> QED
      BY <1>1, <3>1, <3>2, <3>3
  <2>5. CASE x.op = "remove" /\ row \notin Seen(t)
    BY <1>4, <2>5, FailShape DEF RemoveRow
  <2> QED
    BY <1>0, <2>1, <2>3, <2>4, <2>5 DEF Transaction
<1>5. CASE CountRoles(t)
  <2>1. [x EXCEPT !.stage = "find"] \in Transaction /\ Shape(t, [x EXCEPT !.stage = "find"])
    BY <1>0, <1>5 DEF Transaction, InFlight, CountRoles, At, Shape
  <2>2. x.op = "delete" /\ x.role \in Key /\ ~x.dropped /\ (\A row \in x.added : IsGuest(row[2]))
        /\ \A row \in x.removed : row[2] = x.role
    BY <1>0, <1>5 DEF CountRoles, At, Shape, InFlight
  <2> QED
    BY <1>0, <1>1, <1>2, <1>5, <2>1, <2>2 DEF CountRoles
<1>6. CASE FindGuest(t)
  <2>1. ASSUME NEW g \in RolesSeen(t), IsGuest(g)
        PROVE  LET y == [x EXCEPT !.target = g, !.stage = "check"]
               IN  y \in Transaction /\ Shape(t, y)
    <3>1. g \in Key
      BY DEF TypeOK, RolesSeen, Key
    <3> QED
      BY <1>0, <1>6, <2>1, <3>1 DEF Transaction, InFlight, FindGuest, At, Shape
  <2>2. ASSUME \A g \in RolesSeen(t) : ~IsGuest(g)
        PROVE  LET y == [x EXCEPT !.stage = "create"]
               IN  y \in Transaction /\ Shape(t, y)
    <3>1. ~x.created
      BY <2>2 DEF RolesSeen, IsGuest
    <3> QED
      BY <1>0, <1>6, <3>1 DEF Transaction, InFlight, FindGuest, At, Shape
  <2> QED
    BY <1>1, <1>6, <2>1, <2>2 DEF FindGuest
<1>7. CASE CreateGuest(t)
  <2> DEFINE y == [x EXCEPT !.created = TRUE, !.target = t, !.stage = "check"]
  <2>1. y \in Transaction /\ Shape(t, y)
    BY <1>0, <1>7 DEF Transaction, InFlight, CreateGuest, At, Shape, Key, IsGuest
  <2> QED
    BY <1>1, <1>7, <2>1, FailShape DEF CreateGuest
<1>8. CASE CheckRow(t)
  <2>1. [x EXCEPT !.stage = "insert"] \in Transaction /\ Shape(t, [x EXCEPT !.stage = "insert"])
    BY <1>0, <1>8 DEF Transaction, InFlight, CheckRow, At, Shape
  <2>2. x.op = "delete" =>
          /\ x.role \in Key /\ ~x.dropped /\ (\A row \in x.added : IsGuest(row[2]))
          /\ \A row \in x.removed : row[2] = x.role
    BY <1>0, <1>8 DEF CheckRow, At, Shape, InFlight
  <2> QED
    BY <1>0, <1>1, <1>2, <1>8, <2>1, <2>2, FailShape DEF CheckRow
<1>9. CASE InsertRow(t)
  <2> DEFINE row == <<x.who, x.target>>
             y == [x EXCEPT !.added = @ \cup {row}]
             z == [y EXCEPT !.fell = @ \cup {x.who}]
             c == [y EXCEPT !.stage = "commit"]
  <2>1. row \in Row /\ x.who \in User /\ x.role \in Key /\ x.op # "remove" /\ row[2] = x.target
    BY <1>0, <1>9 DEF InsertRow, At, Shape, Row, InFlight
  <2>2. y \in Transaction
    BY <1>0, <2>1 DEF Transaction
  <2>3. CASE Fail(t)
    BY <2>3, FailShape
  <2>4. CASE x.op = "assign" /\ Become(t, c)
    <3>1. c \in Transaction
      BY <2>2 DEF Transaction, InFlight
    <3>2. Shape(t, c)
      BY <1>0, <1>9, <2>1, <2>4 DEF InsertRow, At, Shape, InFlight, Transaction
    <3> QED
      BY <1>1, <2>4, <3>1, <3>2
  <2>5. CASE x.op = "delete" /\ \E w \in Loop(z) : Become(t, w)
    <3>1. z \in Transaction
      BY <2>1, <2>2 DEF Transaction
    <3>2. z.op = "delete" /\ z.role = x.role /\ z.dropped = x.dropped /\ z.removed = x.removed
          /\ z.added = x.added \cup {row}
      BY <1>0, <2>5 DEF Transaction
    <3>3. ~x.dropped /\ (\A r \in x.added : IsGuest(r[2])) /\ IsGuest(x.target)
          /\ \A r \in x.removed : r[2] = x.role
      BY <1>0, <1>9, <2>5 DEF InsertRow, At, Shape, InFlight
    <3>4. \A r \in z.added : IsGuest(r[2])
      BY <2>1, <3>2, <3>3
    <3> HIDE DEF z
    <3> QED
      BY <1>2, <2>1, <2>5, <3>1, <3>2, <3>3, <3>4
  <2>6. \/ Fail(t)
        \/ x.op = "assign" /\ Become(t, c)
        \/ x.op # "assign" /\ \E w \in Loop(z) : Become(t, w)
    BY <1>9 DEF InsertRow
  <2> QED
    BY <1>0, <2>1, <2>3, <2>4, <2>5, <2>6 DEF Transaction
<1>10. CASE DropRole(t)
  <2> DEFINE y == [x EXCEPT !.dropped = TRUE, !.stage = "cascade"]
  <2>1. y \in Transaction /\ Shape(t, y)
    BY <1>0, <1>10 DEF Transaction, InFlight, DropRole, At, Shape
  <2> QED
    BY <1>1, <1>10, <2>1, FailShape DEF DropRole
<1>11. CASE CascadeRow(t)
  <2>1. [x EXCEPT !.stage = "commit"] \in Transaction /\ Shape(t, [x EXCEPT !.stage = "commit"])
    BY <1>0, <1>11 DEF Transaction, InFlight, CascadeRow, At, Shape
  <2>2. ASSUME NEW row \in CascadeRows(t)
        PROVE  LET y == [x EXCEPT !.removed = @ \cup {row}, !.added = @ \ {row}]
               IN  y \in Transaction /\ Shape(t, y)
    <3>1. row \in Row /\ row[2] = x.role
      BY <1>0 DEF CascadeRows, Seen, Transaction, TypeOK
    <3> QED
      BY <1>0, <1>11, <3>1 DEF Transaction, InFlight, CascadeRow, At, Shape
  <2> QED
    BY <1>1, <1>11, <2>1, <2>2 DEF CascadeRow
<1> QED
  BY <1>3, <1>4, <1>5, <1>6, <1>7, <1>8, <1>9, <1>10, <1>11

LEMMA ShapesNext == ASSUME TypeOK, Shapes, [Next]_vars PROVE Shapes'
<1>1. CASE UNCHANGED vars
  BY <1>1 DEF vars, Shapes
<1>2. ASSUME NEW t \in Txn, BeginDeletion(t) PROVE Shapes'
  <2>1. PICK r \in roles :
          tx' = [tx EXCEPT ![t] = [Fresh EXCEPT !.op = "delete", !.role = r, !.stage = "affected"]]
    BY <1>2 DEF BeginDeletion
  <2> DEFINE y == [Fresh EXCEPT !.op = "delete", !.role = r, !.stage = "affected"]
  <2>2. y \in Transaction /\ Shape(t, y)
    BY DEF Fresh, Transaction, InFlight, TypeOK, Shape
  <2> QED
    BY <2>1, <2>2, BecomeShape
<1>3. ASSUME NEW t \in Txn, BeginAssignment(t) PROVE Shapes'
  <2>1. PICK r \in roles, u \in User :
          Become(t, [Fresh EXCEPT !.op = "assign", !.who = u, !.role = r, !.target = r,
                                  !.stage = "check"])
    BY <1>3 DEF BeginAssignment
  <2> DEFINE y == [Fresh EXCEPT !.op = "assign", !.who = u, !.role = r, !.target = r,
                                !.stage = "check"]
  <2>2. y \in Transaction /\ Shape(t, y)
    BY DEF Fresh, Transaction, InFlight, TypeOK, Shape
  <2> QED
    BY <2>1, <2>2, BecomeShape DEF Become
<1>4. ASSUME NEW t \in Txn, BeginRemoval(t) PROVE Shapes'
  <2>1. PICK r \in roles, u \in User :
          Become(t, [Fresh EXCEPT !.op = "remove", !.who = u, !.role = r, !.stage = "remove"])
    BY <1>4 DEF BeginRemoval
  <2> DEFINE y == [Fresh EXCEPT !.op = "remove", !.who = u, !.role = r, !.stage = "remove"]
  <2>2. y \in Transaction /\ Shape(t, y)
    BY DEF Fresh, Transaction, InFlight, TypeOK, Shape
  <2> QED
    BY <2>1, <2>2, BecomeShape DEF Become
<1>5. ASSUME NEW t \in Txn, Commit(t) PROVE Shapes'
  BY <1>5, FreshType, FreshShape, BecomeShape DEF Commit
<1>6. ASSUME NEW t \in Txn, Abort(t) PROVE Shapes'
  BY <1>6, FailShape DEF Abort
<1> QED
  BY <1>1, <1>2, <1>3, <1>4, <1>5, <1>6, StatementShape DEF Next, Step
-----------------------------------------------------------------------------
(* What the locks keep other requests from doing *)

(* A step that adds no row, creates and drops no role takes no lock.       *)
LEMMA QuietLocks ==
  ASSUME TypeOK, Locks, NEW t \in Txn, NEW x \in Transaction,
         tx' = [tx EXCEPT ![t] = x], UNCHANGED <<roles, rows>>,
         x.added \subseteq tx[t].added,
         x.created => tx[t].created,
         tx[t].created => x.created \/ x.added = {},
         x.dropped => tx[t].dropped /\ x.role = tx[t].role,
         x.dropped /\ x.stage = "commit" =>
           \A row \in (rows \ x.removed) \cup x.added : row[2] # x.role
  PROVE  Locks'
<1>1. tx'[t] = x /\ \A s \in Txn : s # t => tx'[s] = tx[s]
  BY DEF TypeOK
<1>2. roles' = roles /\ rows' = rows
  OBVIOUS
<1>3. (\A s, r \in Txn : tx[s].created /\ tx[r].created => s = r)'
  BY <1>1 DEF Locks
<1>4. (\A s \in Txn : tx[s].created => \A g \in roles : ~IsGuest(g))'
  BY <1>1, <1>2 DEF Locks, IsGuest
<1>5. (\A s, r \in Txn : s # r /\ tx[s].dropped /\ tx[r].dropped => tx[s].role # tx[r].role)'
  BY <1>1 DEF Locks
<1>6. (\A s, r \in Txn : s # r /\ tx[r].dropped => \A row \in tx[s].added : row[2] # tx[r].role)'
  BY <1>1 DEF Locks
<1>7. (\A s \in Txn, row \in Row : row \in tx[s].added =>
         row[2] \in roles \/ (tx[s].created /\ row[2] = s))'
  BY <1>1, <1>2 DEF Locks
<1>8. (\A s \in Txn : tx[s].dropped /\ tx[s].stage = "commit" =>
         \A row \in Seen(s) : row[2] # tx[s].role)'
  BY <1>1, <1>2 DEF Locks, Seen
<1> QED
  BY <1>3, <1>4, <1>5, <1>6, <1>7, <1>8 DEF Locks

LEMMA FailLocks == ASSUME TypeOK, Locks, NEW t \in Txn, Fail(t) PROVE Locks'
<1> DEFINE x == [Fresh EXCEPT !.stage = "failed"]
<1>1. x \in Transaction /\ x.added = {} /\ ~x.created /\ ~x.dropped
  BY FreshType DEF Fresh
<1>2. tx' = [tx EXCEPT ![t] = x] /\ UNCHANGED <<roles, rows>>
  BY DEF Fail, Become
<1> HIDE DEF x
<1> QED
  BY <1>1, <1>2, QuietLocks

LEMMA LoopLocks ==
  ASSUME TypeOK, Locks, NEW t \in Txn, NEW x \in Transaction, NEW y \in Loop(x), Become(t, y),
         x.added = tx[t].added, x.created = tx[t].created, ~x.dropped
  PROVE  Locks'
<1>1. y \in Transaction /\ y.added = x.added /\ y.created = x.created /\ y.dropped = x.dropped
  BY LoopFields
<1> QED
  BY <1>1, QuietLocks DEF Become

LEMMA CreateGuestLocks ==
  ASSUME TypeOK, Shapes, Locks, NEW t \in Txn, CreateGuest(t)
  PROVE  Locks'
<1> DEFINE x == [tx[t] EXCEPT !.created = TRUE, !.target = t, !.stage = "check"]
<1>1. CASE Fail(t)
  BY <1>1, FailLocks
<1>2. CASE (\A g \in roles : ~IsGuest(g)) /\ Become(t, x)
  <2>0. tx[t] \in Transaction /\ Shape(t, tx[t])
    BY DEF TypeOK, Shapes
  <2>1. x.added = tx[t].added /\ ~x.dropped /\ x.created /\ tx'[t] = x
        /\ ~tx[t].dropped /\ \A s \in Txn : s # t => tx'[s] = tx[s]
    BY <1>2, <2>0 DEF TypeOK, Transaction, Become, CreateGuest, At, Shape
  <2>2. roles' = roles /\ rows' = rows
    BY <1>2 DEF Become
  <2>3. ASSUME NEW s \in Txn, s # t PROVE ~tx[s].created
    <3>1. s \in Others(t) => ~tx[s].created
      BY DEF CreateGuest, At, Waits, GuestBusy
    <3>2. tx[s].stage \notin InFlight => ~tx[s].created
      BY DEF Shapes, Shape
    <3> QED
      BY <2>3, <3>1, <3>2 DEF Others
  <2> HIDE DEF x
  <2>4. (\A s, r \in Txn : tx[s].created /\ tx[r].created => s = r)'
    BY <2>1, <2>3
  <2>5. (\A s \in Txn : tx[s].created => \A g \in roles : ~IsGuest(g))'
    BY <1>2, <2>2 DEF IsGuest
  <2>6. (\A s, r \in Txn : s # r /\ tx[s].dropped /\ tx[r].dropped => tx[s].role # tx[r].role)'
    BY <2>1 DEF Locks
  <2>7. (\A s, r \in Txn : s # r /\ tx[r].dropped =>
           \A row \in tx[s].added : row[2] # tx[r].role)'
    BY <2>1 DEF Locks
  <2>8. (\A s \in Txn, row \in Row : row \in tx[s].added =>
           row[2] \in roles \/ (tx[s].created /\ row[2] = s))'
    BY <2>1, <2>2 DEF Locks
  <2>9. (\A s \in Txn : tx[s].dropped /\ tx[s].stage = "commit" =>
           \A row \in Seen(s) : row[2] # tx[s].role)'
    BY <2>1, <2>2 DEF Locks, Seen
  <2> QED
    BY <2>4, <2>5, <2>6, <2>7, <2>8, <2>9 DEF Locks
<1> QED
  BY <1>1, <1>2 DEF CreateGuest

(* The row goes in only when nobody is dropping the role it refers to.     *)
LEMMA InsertRowLocks ==
  ASSUME TypeOK, Shapes, Locks, NEW t \in Txn, InsertRow(t)
  PROVE  Locks'
<1> DEFINE row == <<tx[t].who, tx[t].target>>
           y == [tx[t] EXCEPT !.added = @ \cup {row}]
           z == [y EXCEPT !.fell = @ \cup {tx[t].who}]
<1>0. tx[t] \in Transaction /\ Shape(t, tx[t])
  BY DEF TypeOK, Shapes
<1>1. CASE Fail(t)
  BY <1>1, FailLocks
<1>2. ASSUME tx[t].target \in RolesSeen(t),
             NEW x \in Transaction, Become(t, x), x.added = tx[t].added \cup {row},
             x.created = tx[t].created, ~x.dropped
      PROVE  Locks'
  <2>1. tx'[t] = x /\ \A s \in Txn : s # t => tx'[s] = tx[s]
    BY <1>2 DEF TypeOK, Become
  <2>2. roles' = roles /\ rows' = rows
    BY <1>2 DEF Become
  <2>3. ASSUME NEW s \in Txn, s # t, tx[s].dropped PROVE tx[s].role # tx[t].target
    <3>1. tx[s].stage \in InFlight
      BY <2>3 DEF Shapes, Shape
    <3>2. ~Dropping(t, tx[t].target)
      BY DEF InsertRow, At, Waits
    <3> QED
      BY <2>3, <3>1, <3>2 DEF Dropping, Others
  <2>4. row[2] = tx[t].target
    OBVIOUS
  <2>5. row[2] \in roles \/ (tx[t].created /\ row[2] = t)
    BY <1>2 DEF RolesSeen
  <2>6. (\A s, r \in Txn : tx[s].created /\ tx[r].created => s = r)'
    BY <1>2, <2>1 DEF Locks
  <2>7. (\A s \in Txn : tx[s].created => \A g \in roles : ~IsGuest(g))'
    BY <1>2, <2>1, <2>2 DEF Locks, IsGuest
  <2>8. (\A s, r \in Txn : s # r /\ tx[s].dropped /\ tx[r].dropped => tx[s].role # tx[r].role)'
    BY <1>2, <2>1 DEF Locks
  <2>9. (\A s, r \in Txn : s # r /\ tx[r].dropped =>
           \A w \in tx[s].added : w[2] # tx[r].role)'
    <3> SUFFICES ASSUME NEW s \in Txn, NEW r \in Txn, s # r, tx'[r].dropped,
                        NEW w \in tx'[s].added
                 PROVE  w[2] # tx'[r].role
      OBVIOUS
    <3>1. r # t /\ tx'[r] = tx[r]
      BY <1>2, <2>1
    <3>2. CASE s # t
      BY <2>1, <3>1, <3>2 DEF Locks
    <3>3. CASE s = t /\ w = row
      BY <2>3, <2>4, <3>1, <3>3
    <3>4. CASE s = t /\ w \in tx[t].added
      BY <3>1, <3>4 DEF Locks
    <3> QED
      BY <1>2, <2>1, <3>2, <3>3, <3>4
  <2>10. (\A s \in Txn, w \in Row : w \in tx[s].added =>
            w[2] \in roles \/ (tx[s].created /\ w[2] = s))'
    <3> SUFFICES ASSUME NEW s \in Txn, NEW w \in Row, w \in tx'[s].added
                 PROVE  w[2] \in roles \/ (tx'[s].created /\ w[2] = s)
      BY <2>2
    <3>1. CASE s # t
      BY <2>1, <3>1 DEF Locks
    <3>2. CASE s = t
      BY <1>2, <2>1, <2>5, <3>2 DEF Locks
    <3> QED
      BY <3>1, <3>2
  <2>11. (\A s \in Txn : tx[s].dropped /\ tx[s].stage = "commit" =>
            \A w \in Seen(s) : w[2] # tx[s].role)'
    BY <1>2, <2>1, <2>2 DEF Locks, Seen
  <2> QED
    BY <2>6, <2>7, <2>8, <2>9, <2>10, <2>11 DEF Locks
<1>3. row \in Row
  BY <1>0 DEF InsertRow, At, Shape, Row, InFlight
<1>4. /\ y \in Transaction /\ y.added = tx[t].added \cup {row} /\ y.created = tx[t].created
      /\ y.dropped = tx[t].dropped
  BY <1>0, <1>3 DEF Transaction
<1>5. ~tx[t].dropped
  BY <1>0 DEF InsertRow, At, Shape, Transaction
<1>6. CASE tx[t].target \in RolesSeen(t) /\ Become(t, [y EXCEPT !.stage = "commit"])
  <2> DEFINE c == [y EXCEPT !.stage = "commit"]
  <2> HIDE DEF y
  <2>1. c \in Transaction /\ c.added = y.added /\ c.created = y.created /\ ~c.dropped
    BY <1>4, <1>5 DEF Transaction, InFlight
  <2> QED
    BY <1>2, <1>4, <1>6, <2>1
<1>7. CASE tx[t].target \in RolesSeen(t) /\ \E w \in Loop(z) : Become(t, w)
  <2>1. tx[t].who \in User
    BY <1>0 DEF InsertRow, At, Shape, InFlight
  <2> HIDE DEF y
  <2>2. z \in Transaction /\ z.added = y.added /\ z.created = y.created /\ ~z.dropped
    BY <1>4, <1>5, <2>1 DEF Transaction
  <2>3. PICK w \in Loop(z) : Become(t, w)
    BY <1>7
  <2> HIDE DEF z
  <2>4. w \in Transaction /\ w.added = z.added /\ w.created = z.created /\ w.dropped = z.dropped
    BY <2>2, LoopFields
  <2> QED
    BY <1>2, <1>4, <1>7, <2>2, <2>3, <2>4
<1> QED
  BY <1>1, <1>6, <1>7 DEF InsertRow

(* The role goes only when nobody refers to it by a row not yet committed. *)
LEMMA DropRoleLocks ==
  ASSUME TypeOK, Shapes, Locks, NEW t \in Txn, DropRole(t)
  PROVE  Locks'
<1> DEFINE x == [tx[t] EXCEPT !.dropped = TRUE, !.stage = "cascade"]
<1>1. CASE Fail(t)
  BY <1>1, FailLocks
<1>2. CASE Become(t, x)
  <2>0. tx[t] \in Transaction /\ Shape(t, tx[t])
    BY DEF TypeOK, Shapes
  <2>1. x.added = tx[t].added /\ x.created = tx[t].created /\ x.stage = "cascade"
        /\ x.role = tx[t].role
        /\ tx'[t] = x /\ \A s \in Txn : s # t => tx'[s] = tx[s]
    BY <1>2, <2>0 DEF TypeOK, Transaction, Become
  <2>2. roles' = roles /\ rows' = rows
    BY <1>2 DEF Become
  <2>3. ~Dropping(t, tx[t].role) /\ ~Referred(t, tx[t].role)
    BY DEF DropRole, At, Waits
  <2>4. ASSUME NEW s \in Txn, s # t
        PROVE  /\ tx[s].dropped => tx[s].role # tx[t].role
               /\ \A w \in tx[s].added : w[2] # tx[t].role
    <3>1. s \in Others(t) =>
            /\ tx[s].dropped => tx[s].role # tx[t].role
            /\ \A u \in User : <<u, tx[t].role>> \notin tx[s].added
      BY <2>3 DEF Dropping, Referred
    <3>2. tx[s].stage \notin InFlight => ~tx[s].dropped /\ tx[s].added = {}
      BY DEF Shapes, Shape
    <3>3. \A w \in tx[s].added : w \in Row
      BY DEF TypeOK, Transaction
    <3>4. \A w \in Row : w = <<w[1], w[2]>> /\ w[1] \in User
      BY DEF Row
    <3> QED
      BY <2>4, <3>1, <3>2, <3>3, <3>4 DEF Others
  <2> HIDE DEF x
  <2>5. (\A s, r \in Txn : tx[s].created /\ tx[r].created => s = r)'
    BY <2>1 DEF Locks
  <2>6. (\A s \in Txn : tx[s].created => \A g \in roles : ~IsGuest(g))'
    BY <2>1, <2>2 DEF Locks, IsGuest
  <2>7. (\A s, r \in Txn : s # r /\ tx[s].dropped /\ tx[r].dropped => tx[s].role # tx[r].role)'
    BY <2>1, <2>4 DEF Locks
  <2>8. (\A s, r \in Txn : s # r /\ tx[r].dropped =>
           \A row \in tx[s].added : row[2] # tx[r].role)'
    BY <2>1, <2>4 DEF Locks
  <2>9. (\A s \in Txn, row \in Row : row \in tx[s].added =>
           row[2] \in roles \/ (tx[s].created /\ row[2] = s))'
    BY <2>1, <2>2 DEF Locks
  <2>10. (\A s \in Txn : tx[s].dropped /\ tx[s].stage = "commit" =>
            \A row \in Seen(s) : row[2] # tx[s].role)'
    BY <2>1, <2>2 DEF Locks, Seen
  <2> QED
    BY <2>5, <2>6, <2>7, <2>8, <2>9, <2>10 DEF Locks
<1> QED
  BY <1>1, <1>2 DEF DropRole

LEMMA CascadeRowLocks ==
  ASSUME TypeOK, Shapes, Locks, NEW t \in Txn, CascadeRow(t)
  PROVE  Locks'
<1>0. tx[t] \in Transaction /\ tx[t].stage = "cascade"
  BY DEF TypeOK, CascadeRow, At
<1>1. ASSUME NEW row \in CascadeRows(t),
             Become(t, [tx[t] EXCEPT !.removed = @ \cup {row}, !.added = @ \ {row}])
      PROVE  Locks'
  <2> DEFINE x == [tx[t] EXCEPT !.removed = @ \cup {row}, !.added = @ \ {row}]
  <2>1. row \in Row
    BY <1>0 DEF CascadeRows, Seen, Transaction, TypeOK
  <2>2. /\ x \in Transaction /\ x.added \subseteq tx[t].added /\ x.created = tx[t].created
        /\ x.dropped = tx[t].dropped /\ x.role = tx[t].role /\ x.stage = "cascade"
    BY <1>0, <2>1 DEF Transaction
  <2>3. tx' = [tx EXCEPT ![t] = x] /\ UNCHANGED <<roles, rows>>
    BY <1>1 DEF Become
  <2> HIDE DEF x
  <2> QED
    BY <2>2, <2>3, QuietLocks
<1>2. CASE CascadeRows(t) = {} /\ Become(t, [tx[t] EXCEPT !.stage = "commit"])
  <2> DEFINE x == [tx[t] EXCEPT !.stage = "commit"]
  <2>1. /\ x \in Transaction /\ x.added = tx[t].added /\ x.created = tx[t].created
        /\ x.dropped = tx[t].dropped /\ x.role = tx[t].role /\ x.removed = tx[t].removed
    BY <1>0 DEF Transaction, InFlight
  <2>2. tx' = [tx EXCEPT ![t] = x] /\ UNCHANGED <<roles, rows>>
    BY <1>2 DEF Become
  <2>3. \A row \in (rows \ tx[t].removed) \cup tx[t].added : row[2] # tx[t].role
    BY <1>2 DEF CascadeRows, Seen
  <2> HIDE DEF x
  <2> QED
    BY <2>1, <2>2, <2>3, QuietLocks
<1> QED
  BY <1>1, <1>2 DEF CascadeRow
(* What is committed refers to roles that stay.                            *)
LEMMA CommitReferences ==
  ASSUME TypeOK, Shapes, Locks, NoOrphanRow, NEW t \in Txn, Commit(t)
  PROVE  /\ \A row \in rows' : row[2] \in roles'
         /\ \A s \in Txn : s # t => \A row \in Row : row \in tx[s].added =>
              row[2] \in roles' \/ (tx[s].created /\ row[2] = s)
<1>0. tx[t] \in Transaction /\ tx[t].stage = "commit"
  BY DEF TypeOK, Commit, At
<1>1. rows' = Seen(t) /\ roles' = RolesSeen(t)
  BY DEF Commit
<1>2. ASSUME NEW row \in Seen(t) PROVE row[2] \in RolesSeen(t)
  <2>1. row \in Row
    BY <1>0 DEF Seen, TypeOK, Transaction
  <2>2. row[2] \in roles \/ (tx[t].created /\ row[2] = t)
    BY <2>1 DEF Seen, NoOrphanRow, Locks
  <2>3. tx[t].dropped => row[2] # tx[t].role
    BY <1>0 DEF Locks
  <2> QED
    BY <2>2, <2>3 DEF RolesSeen
<1>3. ASSUME NEW s \in Txn, s # t, NEW row \in Row, row \in tx[s].added
      PROVE  row[2] \in RolesSeen(t) \/ (tx[s].created /\ row[2] = s)
  <2>1. row[2] \in roles \/ (tx[s].created /\ row[2] = s)
    BY <1>3 DEF Locks
  <2>2. tx[t].dropped => row[2] # tx[t].role
    BY <1>3 DEF Locks
  <2> QED
    BY <2>1, <2>2 DEF RolesSeen
<1> QED
  BY <1>1, <1>2, <1>3

(* A guest role is committed only where there is none.                     *)
LEMMA CommitGuest ==
  ASSUME TypeOK, Shapes, Locks, OneGuest, NEW t \in Txn, Commit(t)
  PROVE  /\ OneGuest'
         /\ \A s \in Txn : s # t /\ tx[s].created => \A g \in roles' : ~IsGuest(g)
<1>1. roles' = RolesSeen(t)
  BY DEF Commit
<1>2. tx[t].created => \A g \in roles : ~IsGuest(g)
  BY DEF Locks
<1>3. CASE tx[t].created
  <2>1. \A g \in roles' : IsGuest(g) => g = t
    BY <1>1, <1>2, <1>3 DEF RolesSeen
  <2>2. \A s \in Txn : tx[s].created => s = t
    BY <1>3 DEF Locks
  <2> QED
    BY <2>1, <2>2 DEF OneGuest, IsGuest
<1>4. CASE ~tx[t].created
  <2>1. roles' \subseteq roles
    BY <1>1, <1>4 DEF RolesSeen
  <2> QED
    BY <2>1 DEF OneGuest, Locks, IsGuest
<1> QED
  BY <1>3, <1>4

LEMMA CommitLocks ==
  ASSUME TypeOK, Shapes, Locks, OneGuest, NoOrphanRow, NEW t \in Txn, Commit(t)
  PROVE  Locks'
<1>1. /\ tx'[t].added = {} /\ ~tx'[t].created /\ ~tx'[t].dropped
      /\ \A s \in Txn : s # t => tx'[s] = tx[s]
  BY DEF Commit, TypeOK, Fresh
<1>2. rows' = (rows \ tx[t].removed) \cup tx[t].added
  BY DEF Commit, Seen
<1>3. (\A s, r \in Txn : tx[s].created /\ tx[r].created => s = r)'
  BY <1>1 DEF Locks
<1>4. (\A s \in Txn : tx[s].created => \A g \in roles : ~IsGuest(g))'
  BY <1>1, CommitGuest DEF IsGuest
<1>5. (\A s, r \in Txn : s # r /\ tx[s].dropped /\ tx[r].dropped => tx[s].role # tx[r].role)'
  BY <1>1 DEF Locks
<1>6. (\A s, r \in Txn : s # r /\ tx[r].dropped => \A row \in tx[s].added : row[2] # tx[r].role)'
  BY <1>1 DEF Locks
<1>7. (\A s \in Txn, row \in Row : row \in tx[s].added =>
         row[2] \in roles \/ (tx[s].created /\ row[2] = s))'
  <2> SUFFICES ASSUME NEW s \in Txn, NEW row \in Row, row \in tx'[s].added
               PROVE  row[2] \in roles' \/ (tx'[s].created /\ row[2] = s)
    OBVIOUS
  <2>1. s # t /\ tx'[s] = tx[s]
    BY <1>1
  <2> QED
    BY <2>1, CommitReferences
<1>8. (\A s \in Txn : tx[s].dropped /\ tx[s].stage = "commit" =>
         \A row \in Seen(s) : row[2] # tx[s].role)'
  <2> SUFFICES ASSUME NEW s \in Txn, tx'[s].dropped, tx'[s].stage = "commit",
                      NEW row \in (rows' \ tx'[s].removed) \cup tx'[s].added
               PROVE  row[2] # tx'[s].role
    BY DEF Seen
  <2>1. s # t /\ tx'[s] = tx[s]
    BY <1>1
  <2>2. CASE row \in Seen(s)
    BY <2>1, <2>2 DEF Locks
  <2>3. CASE row \in tx[t].added
    BY <2>1, <2>3 DEF Locks
  <2> QED
    BY <1>2, <2>1, <2>2, <2>3 DEF Seen
<1> QED
  BY <1>3, <1>4, <1>5, <1>6, <1>7, <1>8 DEF Locks

LEMMA StatementLocks ==
  ASSUME TypeOK, Shapes, Locks, NEW t \in Txn,
         ReadAffected(t) \/ RemoveRow(t) \/ CountRoles(t) \/ FindGuest(t) \/ CheckRow(t)
  PROVE  Locks'
<1> DEFINE x == tx[t]
<1>0. x \in Transaction /\ Shape(t, x)
  BY DEF TypeOK, Shapes
<1>1. ~x.dropped
  BY <1>0 DEF ReadAffected, RemoveRow, CountRoles, FindGuest, CheckRow, At, Shape, Transaction
<1>2. ASSUME NEW y \in Transaction, Become(t, y), y.added = x.added, y.created = x.created,
             ~y.dropped
      PROVE  Locks'
  BY <1>2, QuietLocks DEF Become
<1>3. CASE ReadAffected(t)
  <2> DEFINE y == [x EXCEPT !.todo = {u \in User : <<u, x.role>> \in Seen(t)}]
  <2>1. y \in Transaction /\ y.added = x.added /\ y.created = x.created /\ y.dropped = x.dropped
    BY <1>0 DEF Transaction
  <2>2. PICK z \in Loop(y) : Become(t, z)
    BY <1>3 DEF ReadAffected
  <2> HIDE DEF y
  <2> QED
    BY <1>1, <2>1, <2>2, LoopLocks
<1>4. CASE RemoveRow(t)
  <2> DEFINE row == <<x.who, x.role>>
             y == [x EXCEPT !.removed = IF row \in Seen(t) THEN @ \cup {row} ELSE @]
             z(s) == [y EXCEPT !.stage = s]
  <2>1. row \in Row
    BY <1>0, <1>4 DEF RemoveRow, At, Shape, Row, InFlight
  <2>2. y \in Transaction /\ y.added = x.added /\ y.created = x.created /\ y.dropped = x.dropped
    BY <1>0, <2>1 DEF Transaction
  <2>3. Fail(t) \/ \E s \in {"count", "commit"} : Become(t, z(s))
    BY <1>4 DEF RemoveRow
  <2> HIDE DEF y
  <2>4. ASSUME NEW s \in {"count", "commit"}
        PROVE  /\ z(s) \in Transaction /\ z(s).added = y.added /\ z(s).created = y.created
               /\ z(s).dropped = y.dropped
    BY <2>2 DEF Transaction, InFlight
  <2> HIDE DEF z
  <2> QED
    BY <1>1, <1>2, <2>2, <2>3, <2>4, FailLocks
<1>5. CASE CountRoles(t)
  <2> DEFINE y == [x EXCEPT !.stage = "find"]
  <2>1. y \in Transaction /\ y.added = x.added /\ y.created = x.created /\ y.dropped = x.dropped
    BY <1>0 DEF Transaction, InFlight
  <2>2. Become(t, y) \/ \E z \in Loop(x) : Become(t, z)
    BY <1>5 DEF CountRoles
  <2> HIDE DEF y
  <2> QED
    BY <1>0, <1>1, <1>2, <2>1, <2>2, LoopLocks
<1>6. CASE FindGuest(t)
  <2> DEFINE y(g) == [x EXCEPT !.target = g, !.stage = "check"]
             z == [x EXCEPT !.stage = "create"]
  <2>1. z \in Transaction /\ z.added = x.added /\ z.created = x.created /\ z.dropped = x.dropped
    BY <1>0 DEF Transaction, InFlight
  <2>2. ASSUME NEW g \in RolesSeen(t)
        PROVE  /\ y(g) \in Transaction /\ y(g).added = x.added /\ y(g).created = x.created
               /\ y(g).dropped = x.dropped
    BY <1>0 DEF Transaction, InFlight, TypeOK, RolesSeen, Key
  <2>3. Become(t, z) \/ \E g \in RolesSeen(t) : Become(t, y(g))
    BY <1>6 DEF FindGuest
  <2> HIDE DEF y, z
  <2> QED
    BY <1>1, <1>2, <2>1, <2>2, <2>3
<1>7. CASE CheckRow(t)
  <2> DEFINE y == [x EXCEPT !.stage = "insert"]
  <2>1. y \in Transaction /\ y.added = x.added /\ y.created = x.created /\ y.dropped = x.dropped
    BY <1>0 DEF Transaction, InFlight
  <2>2. Become(t, y) \/ Fail(t) \/ \E z \in Loop(x) : Become(t, z)
    BY <1>7 DEF CheckRow
  <2> HIDE DEF y
  <2> QED
    BY <1>0, <1>1, <1>2, <2>1, <2>2, LoopLocks, FailLocks
<1> QED
  BY <1>3, <1>4, <1>5, <1>6, <1>7

LEMMA BeginLocks ==
  ASSUME TypeOK, Locks, NEW t \in Txn, BeginDeletion(t) \/ BeginAssignment(t) \/ BeginRemoval(t)
  PROVE  Locks'
<1>1. ASSUME NEW x \in Transaction, tx' = [tx EXCEPT ![t] = x], UNCHANGED <<roles, rows>>,
             x.added = {}, ~x.created, ~x.dropped
      PROVE  Locks'
  BY <1>1, QuietLocks
<1>2. CASE BeginDeletion(t)
  <2>1. PICK r \in roles :
          tx' = [tx EXCEPT ![t] = [Fresh EXCEPT !.op = "delete", !.role = r, !.stage = "affected"]]
    BY <1>2 DEF BeginDeletion
  <2> DEFINE y == [Fresh EXCEPT !.op = "delete", !.role = r, !.stage = "affected"]
  <2>2. y \in Transaction /\ y.added = {} /\ ~y.created /\ ~y.dropped
    BY DEF Fresh, Transaction, InFlight, TypeOK
  <2> QED
    BY <1>1, <1>2, <2>1, <2>2 DEF BeginDeletion
<1>3. CASE BeginAssignment(t)
  <2>1. PICK r \in roles, u \in User :
          Become(t, [Fresh EXCEPT !.op = "assign", !.who = u, !.role = r, !.target = r,
                                  !.stage = "check"])
    BY <1>3 DEF BeginAssignment
  <2> DEFINE y == [Fresh EXCEPT !.op = "assign", !.who = u, !.role = r, !.target = r,
                                !.stage = "check"]
  <2>2. y \in Transaction /\ y.added = {} /\ ~y.created /\ ~y.dropped
    BY DEF Fresh, Transaction, InFlight, TypeOK
  <2> QED
    BY <1>1, <2>1, <2>2 DEF Become
<1>4. CASE BeginRemoval(t)
  <2>1. PICK r \in roles, u \in User :
          Become(t, [Fresh EXCEPT !.op = "remove", !.who = u, !.role = r, !.stage = "remove"])
    BY <1>4 DEF BeginRemoval
  <2> DEFINE y == [Fresh EXCEPT !.op = "remove", !.who = u, !.role = r, !.stage = "remove"]
  <2>2. y \in Transaction /\ y.added = {} /\ ~y.created /\ ~y.dropped
    BY DEF Fresh, Transaction, InFlight, TypeOK
  <2> QED
    BY <1>1, <2>1, <2>2 DEF Become
<1> QED
  BY <1>2, <1>3, <1>4

(* Only a commit changes what the others can read, and a step of a request *)
(* changes the record of no other.                                         *)
LEMMA StatementQuiet ==
  ASSUME NEW t \in Txn,
         \/ BeginAssignment(t) \/ BeginRemoval(t) \/ Abort(t) \/ BeginDeletion(t)
         \/ ReadAffected(t) \/ RemoveRow(t) \/ CountRoles(t) \/ FindGuest(t) \/ CreateGuest(t)
         \/ CheckRow(t) \/ InsertRow(t) \/ DropRole(t) \/ CascadeRow(t)
  PROVE  /\ UNCHANGED <<roles, rows, given, deleted>>
         /\ overlapped => overlapped'
         /\ \E x : tx' = [tx EXCEPT ![t] = x]
<1> DEFINE Quiet == /\ UNCHANGED <<roles, rows, given, deleted>>
                    /\ overlapped => overlapped'
                    /\ \E x : tx' = [tx EXCEPT ![t] = x]
<1> SUFFICES Quiet
  OBVIOUS
<1>1. ASSUME NEW x, Become(t, x) PROVE Quiet
  BY <1>1 DEF Become, history
<1>2. CASE BeginDeletion(t)
  BY <1>2 DEF BeginDeletion
<1> HIDE DEF Quiet
<1>3. CASE BeginAssignment(t) \/ BeginRemoval(t) \/ Abort(t)
  BY <1>1, <1>3 DEF BeginAssignment, BeginRemoval, Abort, Fail
<1>4. CASE ReadAffected(t) \/ CountRoles(t) \/ FindGuest(t)
  BY <1>1, <1>4 DEF ReadAffected, CountRoles, FindGuest
<1>5. CASE RemoveRow(t)
  BY <1>1, <1>5 DEF RemoveRow, Fail
<1>6. CASE CreateGuest(t) \/ CheckRow(t)
  BY <1>1, <1>6 DEF CreateGuest, CheckRow, Fail
<1>7. CASE InsertRow(t)
  BY <1>1, <1>7 DEF InsertRow, Fail
<1>8. CASE DropRole(t) \/ CascadeRow(t)
  BY <1>1, <1>8 DEF DropRole, CascadeRow, Fail
<1> QED
  BY <1>2, <1>3, <1>4, <1>5, <1>6, <1>7, <1>8

LEMMA LocksNext ==
  ASSUME TypeOK, Shapes, Locks, OneGuest, NoOrphanRow, [Next]_vars
  PROVE  Locks' /\ OneGuest' /\ NoOrphanRow'
<1>1. CASE UNCHANGED vars
  BY <1>1 DEF vars, Locks, OneGuest, NoOrphanRow, Seen, IsGuest
<1>2. ASSUME NEW t \in Txn, Commit(t) PROVE Locks' /\ OneGuest' /\ NoOrphanRow'
  BY <1>2, CommitLocks, CommitGuest, CommitReferences DEF NoOrphanRow
<1>3. ASSUME NEW t \in Txn,
             \/ BeginDeletion(t) \/ BeginAssignment(t) \/ BeginRemoval(t) \/ Abort(t)
             \/ ReadAffected(t) \/ RemoveRow(t) \/ CountRoles(t) \/ FindGuest(t) \/ CreateGuest(t)
             \/ CheckRow(t) \/ InsertRow(t) \/ DropRole(t) \/ CascadeRow(t)
      PROVE  Locks' /\ OneGuest' /\ NoOrphanRow'
  <2>1. Locks'
    BY <1>3, BeginLocks, StatementLocks, CreateGuestLocks, InsertRowLocks, DropRoleLocks,
       CascadeRowLocks, FailLocks DEF Abort
  <2>2. UNCHANGED <<roles, rows>>
    BY <1>3, StatementQuiet
  <2> QED
    BY <2>1, <2>2 DEF OneGuest, NoOrphanRow, IsGuest
<1> QED
  BY <1>1, <1>2, <1>3 DEF Next, Step
-----------------------------------------------------------------------------
(* Deletions that do not overlap, and whom they move to the guest role     *)

(* The statements that neither add a row nor end the request.              *)
LEMMA StatementRecord ==
  ASSUME TypeOK, Shapes, NEW t \in Txn,
         \/ ReadAffected(t) \/ RemoveRow(t) \/ CountRoles(t) \/ FindGuest(t)
         \/ CreateGuest(t) \/ CheckRow(t) \/ DropRole(t)
  PROVE  \/ Fail(t)
         \/ \E y \in Transaction :
              /\ Become(t, y)
              /\ y.op = tx[t].op /\ y.role = tx[t].role
              /\ y.added = tx[t].added /\ y.fell = tx[t].fell
<1> DEFINE x == tx[t]
           Same(y) == /\ y \in Transaction /\ y.op = x.op /\ y.role = x.role
                      /\ y.added = x.added /\ y.fell = x.fell
<1> SUFFICES Fail(t) \/ \E y : Same(y) /\ Become(t, y)
  OBVIOUS
<1>0. x \in Transaction /\ Shape(t, x)
  BY DEF TypeOK, Shapes
<1>1. ASSUME NEW y, Same(y), NEW z \in Loop(y) PROVE Same(z)
  BY <1>1, LoopFields
<1>2. Same(x)
  BY <1>0
<1>3. CASE ReadAffected(t)
  <2> DEFINE y == [x EXCEPT !.todo = {u \in User : <<u, x.role>> \in Seen(t)}]
  <2>1. Same(y)
    BY <1>0 DEF Transaction
  <2>2. PICK z \in Loop(y) : Become(t, z)
    BY <1>3 DEF ReadAffected
  <2> HIDE DEF y, Same
  <2> QED
    BY <1>1, <2>1, <2>2
<1>4. CASE RemoveRow(t)
  <2> DEFINE row == <<x.who, x.role>>
             y == [x EXCEPT !.removed = IF row \in Seen(t) THEN @ \cup {row} ELSE @]
             z(s) == [y EXCEPT !.stage = s]
  <2>1. row \in Row
    BY <1>0, <1>4 DEF RemoveRow, At, Shape, Row, InFlight
  <2>2. Same(y)
    BY <1>0, <2>1 DEF Transaction
  <2>3. Fail(t) \/ \E s \in {"count", "commit"} : Become(t, z(s))
    BY <1>4 DEF RemoveRow
  <2> HIDE DEF y
  <2>4. ASSUME NEW s \in {"count", "commit"} PROVE Same(z(s))
    BY <2>2 DEF Transaction, InFlight
  <2> HIDE DEF z, Same
  <2> QED
    BY <2>3, <2>4
<1>5. CASE CountRoles(t)
  <2> DEFINE y == [x EXCEPT !.stage = "find"]
  <2>1. Same(y)
    BY <1>0 DEF Transaction, InFlight
  <2>2. Become(t, y) \/ \E z \in Loop(x) : Become(t, z)
    BY <1>5 DEF CountRoles
  <2> HIDE DEF y, Same
  <2> QED
    BY <1>1, <1>2, <2>1, <2>2
<1>6. CASE FindGuest(t)
  <2> DEFINE y(g) == [x EXCEPT !.target = g, !.stage = "check"]
             z == [x EXCEPT !.stage = "create"]
  <2>1. Same(z)
    BY <1>0 DEF Transaction, InFlight
  <2>2. ASSUME NEW g \in RolesSeen(t) PROVE Same(y(g))
    BY <1>0 DEF Transaction, InFlight, TypeOK, RolesSeen, Key
  <2>3. Become(t, z) \/ \E g \in RolesSeen(t) : Become(t, y(g))
    BY <1>6 DEF FindGuest
  <2> HIDE DEF y, z, Same
  <2> QED
    BY <2>1, <2>2, <2>3
<1>7. CASE CreateGuest(t)
  <2> DEFINE y == [x EXCEPT !.created = TRUE, !.target = t, !.stage = "check"]
  <2>1. Same(y)
    BY <1>0 DEF Transaction, InFlight, Key
  <2>2. Become(t, y) \/ Fail(t)
    BY <1>7 DEF CreateGuest
  <2> HIDE DEF y, Same
  <2> QED
    BY <2>1, <2>2
<1>8. CASE CheckRow(t)
  <2> DEFINE y == [x EXCEPT !.stage = "insert"]
  <2>1. Same(y)
    BY <1>0 DEF Transaction, InFlight
  <2>2. Become(t, y) \/ Fail(t) \/ \E z \in Loop(x) : Become(t, z)
    BY <1>8 DEF CheckRow
  <2> HIDE DEF y, Same
  <2> QED
    BY <1>1, <1>2, <2>1, <2>2
<1>9. CASE DropRole(t)
  <2> DEFINE y == [x EXCEPT !.dropped = TRUE, !.stage = "cascade"]
  <2>1. Same(y)
    BY <1>0 DEF Transaction, InFlight
  <2>2. Become(t, y) \/ Fail(t)
    BY <1>9 DEF DropRole
  <2> HIDE DEF y, Same
  <2> QED
    BY <2>1, <2>2
<1> QED
  BY <1>3, <1>4, <1>5, <1>6, <1>7, <1>8, <1>9

(* An insertion adds the row it checked for and, in a deletion, notes the  *)
(* user as moved.                                                          *)
LEMMA InsertRowRecord ==
  ASSUME TypeOK, Shapes, NEW t \in Txn, InsertRow(t)
  PROVE  \/ Fail(t)
         \/ \E y \in Transaction :
              /\ Become(t, y)
              /\ y.op = tx[t].op /\ y.role = tx[t].role
              /\ y.added = tx[t].added \cup {<<tx[t].who, tx[t].target>>}
              /\ y.removed = tx[t].removed
              /\ \/ tx[t].op = "assign" /\ y.fell = tx[t].fell
                 \/ /\ tx[t].op = "delete" /\ y.fell = tx[t].fell \cup {tx[t].who}
                    /\ \/ y.stage = "drop" /\ tx[t].todo = {}
                       \/ /\ y.stage = "remove" /\ y.who \in tx[t].todo
                          /\ y.todo = tx[t].todo \ {y.who}
<1> DEFINE x == tx[t]
           row == <<x.who, x.target>>
           y == [x EXCEPT !.added = @ \cup {row}]
           z == [y EXCEPT !.fell = @ \cup {x.who}]
           c == [y EXCEPT !.stage = "commit"]
<1>0. x \in Transaction /\ Shape(t, x)
  BY DEF TypeOK, Shapes
<1>1. row \in Row /\ x.who \in User /\ x.op # "remove"
  BY <1>0 DEF InsertRow, At, Shape, Row, InFlight
<1>2. /\ y \in Transaction /\ y.op = x.op /\ y.role = x.role /\ y.added = x.added \cup {row}
      /\ y.removed = x.removed /\ y.fell = x.fell /\ y.todo = x.todo
  BY <1>0, <1>1 DEF Transaction
<1>3. \/ Fail(t)
      \/ x.op = "assign" /\ Become(t, c)
      \/ x.op # "assign" /\ \E w \in Loop(z) : Become(t, w)
  BY DEF InsertRow
<1> HIDE DEF y
<1>4. CASE x.op = "assign" /\ Become(t, c)
  <2>1. /\ c \in Transaction /\ c.op = y.op /\ c.role = y.role /\ c.added = y.added
        /\ c.removed = y.removed /\ c.fell = y.fell
    BY <1>2 DEF Transaction, InFlight
  <2> HIDE DEF c
  <2> QED
    BY <1>2, <1>4, <2>1
<1>5. CASE x.op # "assign" /\ \E w \in Loop(z) : Become(t, w)
  <2>1. /\ z \in Transaction /\ z.op = y.op /\ z.role = y.role /\ z.added = y.added
        /\ z.removed = y.removed /\ z.fell = y.fell \cup {x.who} /\ z.todo = y.todo
    BY <1>1, <1>2 DEF Transaction
  <2>2. PICK w \in Loop(z) : Become(t, w)
    BY <1>5
  <2>3. x.op = "delete"
    BY <1>0, <1>1, <1>5 DEF Transaction
  <2> HIDE DEF z
  <2>4. /\ w \in Transaction /\ w.op = x.op /\ w.role = x.role /\ w.added = x.added \cup {row}
        /\ w.removed = x.removed /\ w.fell = x.fell \cup {x.who}
        /\ \/ w.stage = "drop" /\ x.todo = {}
           \/ w.stage = "remove" /\ w.who \in x.todo /\ w.todo = x.todo \ {w.who}
    BY <1>2, <2>1, LoopFields
  <2> QED
    BY <2>2, <2>3, <2>4
<1> QED
  BY <1>3, <1>4, <1>5

(* The cascade removes rows of the role that is being deleted.             *)
LEMMA CascadeRowRecord ==
  ASSUME TypeOK, NEW t \in Txn, CascadeRow(t)
  PROVE  \E y \in Transaction :
           /\ Become(t, y)
           /\ y.op = tx[t].op /\ y.role = tx[t].role /\ y.fell = tx[t].fell
           /\ y.todo = tx[t].todo
           /\ \A row \in Row : row[2] # tx[t].role =>
                /\ row \in y.added <=> row \in tx[t].added
                /\ row \in y.removed <=> row \in tx[t].removed
<1>0. tx[t] \in Transaction
  BY DEF TypeOK
<1>1. ASSUME NEW row \in CascadeRows(t),
             Become(t, [tx[t] EXCEPT !.removed = @ \cup {row}, !.added = @ \ {row}])
      PROVE  \E y \in Transaction :
               /\ Become(t, y)
               /\ y.op = tx[t].op /\ y.role = tx[t].role /\ y.fell = tx[t].fell
               /\ y.todo = tx[t].todo
               /\ \A w \in Row : w[2] # tx[t].role =>
                    /\ w \in y.added <=> w \in tx[t].added
                    /\ w \in y.removed <=> w \in tx[t].removed
  <2> DEFINE y == [tx[t] EXCEPT !.removed = @ \cup {row}, !.added = @ \ {row}]
  <2>1. row \in Row /\ row[2] = tx[t].role
    BY <1>0 DEF CascadeRows, Seen, Transaction, TypeOK
  <2>2. /\ y \in Transaction /\ y.op = tx[t].op /\ y.role = tx[t].role /\ y.fell = tx[t].fell
        /\ y.todo = tx[t].todo /\ y.added = tx[t].added \ {row}
        /\ y.removed = tx[t].removed \cup {row}
    BY <1>0, <2>1 DEF Transaction
  <2>3. Become(t, y)
    BY <1>1
  <2> HIDE DEF y
  <2> QED
    BY <2>1, <2>2, <2>3
<1>2. CASE Become(t, [tx[t] EXCEPT !.stage = "commit"])
  <2> DEFINE y == [tx[t] EXCEPT !.stage = "commit"]
  <2>1. /\ y \in Transaction /\ y.op = tx[t].op /\ y.role = tx[t].role /\ y.fell = tx[t].fell
        /\ y.todo = tx[t].todo /\ y.added = tx[t].added /\ y.removed = tx[t].removed
    BY <1>0 DEF Transaction, InFlight
  <2>2. Become(t, y)
    BY <1>2
  <2> HIDE DEF y
  <2> QED
    BY <2>1, <2>2
<1> QED
  BY <1>1, <1>2 DEF CascadeRow

(* No statement but the first of a deletion makes a request a deletion.    *)
LEMMA BecomeSerial ==
  ASSUME TypeOK, Serial, NEW t \in Txn,
         NEW x \in Transaction, tx' = [tx EXCEPT ![t] = x], overlapped' = overlapped,
         \/ x.op = tx[t].op /\ tx[t].stage \in InFlight
         \/ x.op # "delete"
         \/ x.stage \notin InFlight
  PROVE  Serial'
<1>1. \A s \in Txn : Deleting(s)' => Deleting(s)
  BY DEF TypeOK, Deleting
<1> QED
  BY <1>1 DEF Serial

LEMMA BecomeFallen ==
  ASSUME TypeOK, Fallen, NEW t \in Txn,
         NEW x \in Transaction, tx' = [tx EXCEPT ![t] = x],
         ~IsGuest(x.role) => \A u \in x.fell : \E g \in Key : IsGuest(g) /\ <<u, g>> \in x.added
  PROVE  Fallen'
<1> SUFFICES ASSUME NEW s \in Txn, ~IsGuest(tx'[s].role), NEW u \in tx'[s].fell
             PROVE  \E g \in Key : IsGuest(g) /\ <<u, g>> \in tx'[s].added
  BY DEF Fallen, IsGuest
<1>1. CASE s = t
  BY <1>1 DEF TypeOK
<1>2. CASE s # t
  <2>1. tx'[s] = tx[s]
    BY <1>2 DEF TypeOK
  <2> QED
    BY <2>1 DEF Fallen
<1> QED
  BY <1>1, <1>2

LEMMA FailFallen ==
  ASSUME TypeOK, Serial, Fallen, NEW t \in Txn, Fail(t)
  PROVE  Serial' /\ Fallen'
<1> DEFINE x == [Fresh EXCEPT !.stage = "failed"]
<1>1. x \in Transaction /\ x.fell = {} /\ x.stage \notin InFlight
  BY FreshType DEF Fresh, InFlight
<1>2. tx' = [tx EXCEPT ![t] = x] /\ overlapped' = overlapped
  BY DEF Fail, Become, history
<1> HIDE DEF x
<1> QED
  BY <1>1, <1>2, BecomeSerial, BecomeFallen

LEMMA StatementFallen ==
  ASSUME TypeOK, Shapes, Serial, Fallen, NEW t \in Txn,
         \/ ReadAffected(t) \/ RemoveRow(t) \/ CountRoles(t) \/ FindGuest(t)
         \/ CreateGuest(t) \/ CheckRow(t) \/ InsertRow(t) \/ DropRole(t) \/ CascadeRow(t)
  PROVE  Serial' /\ Fallen'
<1> DEFINE x == tx[t]
<1>0. x \in Transaction /\ Shape(t, x) /\ x.stage \in InFlight
  BY DEF TypeOK, Shapes, ReadAffected, RemoveRow, CountRoles, FindGuest, CreateGuest, CheckRow,
         InsertRow, DropRole, CascadeRow, At, InFlight
<1>1. ~IsGuest(x.role) => \A u \in x.fell : \E g \in Key : IsGuest(g) /\ <<u, g>> \in x.added
  BY DEF Fallen
<1>2. ASSUME NEW y \in Transaction, Become(t, y), y.op = x.op,
             ~IsGuest(y.role) => \A u \in y.fell : \E g \in Key : IsGuest(g) /\ <<u, g>> \in y.added
      PROVE  Serial' /\ Fallen'
  BY <1>0, <1>2, BecomeSerial, BecomeFallen DEF Become, history
<1>3. CASE InsertRow(t)
  <2>1. CASE Fail(t)
    BY <2>1, FailFallen
  <2>2. ASSUME NEW y \in Transaction, Become(t, y), y.op = x.op, y.role = x.role,
               y.added = x.added \cup {<<x.who, x.target>>},
               \/ x.op = "assign" /\ y.fell = x.fell
               \/ x.op = "delete" /\ y.fell = x.fell \cup {x.who}
        PROVE  Serial' /\ Fallen'
    <3>1. x.op = "delete" => IsGuest(x.target) /\ x.target \in Key
      BY <1>0, <1>3 DEF InsertRow, At, Shape
    <3>2. ~IsGuest(y.role) =>
             \A u \in y.fell : \E g \in Key : IsGuest(g) /\ <<u, g>> \in y.added
      BY <1>1, <2>2, <3>1
    <3> QED
      BY <1>2, <2>2, <3>2
  <2> QED
    BY <1>3, <2>1, <2>2, InsertRowRecord
<1>4. CASE CascadeRow(t)
  <2>1. PICK y \in Transaction :
          /\ Become(t, y)
          /\ y.op = x.op /\ y.role = x.role /\ y.fell = x.fell
          /\ \A row \in Row : row[2] # x.role /\ row \in x.added => row \in y.added
    BY <1>4, CascadeRowRecord
  <2>2. ASSUME ~IsGuest(y.role), NEW u \in y.fell
        PROVE  \E g \in Key : IsGuest(g) /\ <<u, g>> \in y.added
    <3>1. PICK g \in Key : IsGuest(g) /\ <<u, g>> \in x.added
      BY <1>1, <2>1, <2>2
    <3>2. <<u, g>> \in Row /\ <<u, g>>[2] # x.role
      BY <1>0, <2>1, <2>2, <3>1 DEF Transaction
    <3> QED
      BY <2>1, <3>1, <3>2
  <2> QED
    BY <1>2, <2>1, <2>2
<1>5. CASE Fail(t)
  BY <1>5, FailFallen
<1>6. ASSUME NEW y \in Transaction, Become(t, y), y.op = x.op, y.role = x.role,
             y.added = x.added, y.fell = x.fell
      PROVE  Serial' /\ Fallen'
  BY <1>1, <1>2, <1>6
<1> QED
  BY <1>3, <1>4, <1>5, <1>6, StatementRecord

LEMMA BeginFallen ==
  ASSUME TypeOK, Shapes, Serial, Fallen, NEW t \in Txn,
         BeginDeletion(t) \/ BeginAssignment(t) \/ BeginRemoval(t)
  PROVE  Serial' /\ Fallen'
<1>1. CASE BeginDeletion(t)
  <2>1. PICK r \in roles :
          tx' = [tx EXCEPT ![t] = [Fresh EXCEPT !.op = "delete", !.role = r, !.stage = "affected"]]
    BY <1>1 DEF BeginDeletion
  <2> DEFINE y == [Fresh EXCEPT !.op = "delete", !.role = r, !.stage = "affected"]
  <2>2. y \in Transaction /\ y.fell = {}
    BY DEF Fresh, Transaction, InFlight, TypeOK
  <2>3. Fallen'
    BY <2>1, <2>2, BecomeFallen
  <2>4. ASSUME ~overlapped', NEW s \in Txn, s # t PROVE ~Deleting(s) /\ tx'[s] = tx[s]
    BY <1>1, <2>1, <2>4 DEF BeginDeletion, Others, Deleting, TypeOK
  <2>5. Serial'
    BY <2>4 DEF Serial, Deleting
  <2> QED
    BY <2>3, <2>5
<1>2. ASSUME NEW y \in Transaction, Become(t, y), y.op # "delete", y.fell = {}
      PROVE  Serial' /\ Fallen'
  BY <1>2, BecomeSerial, BecomeFallen DEF Become, history
<1>3. CASE BeginAssignment(t)
  <2>1. PICK r \in roles, u \in User :
          Become(t, [Fresh EXCEPT !.op = "assign", !.who = u, !.role = r, !.target = r,
                                  !.stage = "check"])
    BY <1>3 DEF BeginAssignment
  <2> DEFINE y == [Fresh EXCEPT !.op = "assign", !.who = u, !.role = r, !.target = r,
                                !.stage = "check"]
  <2>2. y \in Transaction /\ y.op # "delete" /\ y.fell = {}
    BY DEF Fresh, Transaction, InFlight, TypeOK
  <2> QED
    BY <1>2, <2>1, <2>2
<1>4. CASE BeginRemoval(t)
  <2>1. PICK r \in roles, u \in User :
          Become(t, [Fresh EXCEPT !.op = "remove", !.who = u, !.role = r, !.stage = "remove"])
    BY <1>4 DEF BeginRemoval
  <2> DEFINE y == [Fresh EXCEPT !.op = "remove", !.who = u, !.role = r, !.stage = "remove"]
  <2>2. y \in Transaction /\ y.op # "delete" /\ y.fell = {}
    BY DEF Fresh, Transaction, InFlight, TypeOK
  <2> QED
    BY <1>2, <2>1, <2>2
<1> QED
  BY <1>1, <1>3, <1>4

LEMMA FallenNext ==
  ASSUME TypeOK, Shapes, Serial, Fallen, [Next]_vars
  PROVE  Serial' /\ Fallen'
<1>1. CASE UNCHANGED vars
  BY <1>1 DEF vars, history, Serial, Deleting, Fallen, IsGuest
<1>2. ASSUME NEW t \in Txn, Commit(t) PROVE Serial' /\ Fallen'
  <2> DEFINE x == [Fresh EXCEPT !.stage = "done"]
  <2>1. x \in Transaction /\ x.fell = {} /\ x.stage \notin InFlight
    BY FreshType DEF Fresh, InFlight
  <2>2. tx' = [tx EXCEPT ![t] = x] /\ overlapped' = overlapped
    BY <1>2 DEF Commit
  <2> HIDE DEF x
  <2> QED
    BY <2>1, <2>2, BecomeSerial, BecomeFallen
<1>3. ASSUME NEW t \in Txn, Abort(t) PROVE Serial' /\ Fallen'
  BY <1>3, FailFallen DEF Abort
<1> QED
  BY <1>1, <1>2, <1>3, StatementFallen, BeginFallen DEF Next, Step
-----------------------------------------------------------------------------
(* No user is lost sight of                                                *)

(* Only the request that moves can forget a user.                          *)
LEMMA BecomeRemembered ==
  ASSUME TypeOK, NobodyForgotten, NEW t \in Txn,
         NEW x \in Transaction, tx' = [tx EXCEPT ![t] = x],
         UNCHANGED <<rows, given, deleted>>, overlapped => overlapped',
         ~overlapped /\ GuestsStay => Remembered(x)
  PROVE  NobodyForgotten'
<1> SUFFICES ASSUME ~overlapped, GuestsStay, NEW s \in Txn PROVE Remembered(tx[s])'
  BY DEF NobodyForgotten, GuestsStay, IsGuest
<1>1. CASE s = t
  <2>1. tx'[s] = x
    BY <1>1 DEF TypeOK
  <2> QED
    BY <2>1 DEF Remembered, Kept, Owed, IsGuest
<1>2. CASE s # t
  <2>1. tx'[s] = tx[s]
    BY <1>2 DEF TypeOK
  <2>2. Remembered(tx[s])
    BY DEF NobodyForgotten
  <2> QED
    BY <2>1, <2>2 DEF Remembered, Kept, Owed, IsGuest
<1> QED
  BY <1>1, <1>2

(* The loop goes on to a user it has still to look at.                     *)
LEMMA LoopRemembered ==
  ASSUME NEW x \in Transaction, NEW y \in Loop(x), x.op = "delete",
         \A u \in given :
           Kept(x, u) \/ (u \in x.todo /\ <<u, x.role>> \in rows)
  PROVE  Remembered(y)
<1>1. /\ y.role = x.role /\ y.added = x.added /\ y.removed = x.removed
      /\ \/ y.stage = "drop" /\ x.todo = {} /\ y.todo = {} /\ y.who = x.who
         \/ y.stage = "remove" /\ y.who \in x.todo /\ y.todo = x.todo \ {y.who}
  BY LoopFields
<1>2. ASSUME NEW u, Kept(x, u) PROVE Kept(y, u)
  BY <1>1, <1>2 DEF Kept
<1>3. ASSUME NEW u, u \in x.todo, <<u, x.role>> \in rows PROVE Owed(y, u)
  BY <1>1, <1>3 DEF Owed
<1> QED
  BY <1>2, <1>3 DEF Remembered

LEMMA FailRemembered ==
  ASSUME TypeOK, NobodyForgotten, NEW t \in Txn, Fail(t)
  PROVE  NobodyForgotten'
<1> DEFINE x == [Fresh EXCEPT !.stage = "failed"]
<1>1. x \in Transaction /\ Remembered(x)
  BY FreshType DEF Fresh, InFlight, Remembered
<1>2. tx' = [tx EXCEPT ![t] = x] /\ UNCHANGED <<rows, given, deleted, overlapped>>
  BY DEF Fail, Become, history
<1> HIDE DEF x
<1> QED
  BY <1>1, <1>2, BecomeRemembered

(* The affected users are those who hold the role; the others hold another *)
(* one, for nobody was dropped so far.                                     *)
LEMMA ReadAffectedRemembered ==
  ASSUME TypeOK, Shapes, NobodyForgotten, NobodyDropped, NEW t \in Txn, ReadAffected(t)
  PROVE  NobodyForgotten'
<1> DEFINE x == tx[t]
           y == [x EXCEPT !.todo = {u \in User : <<u, x.role>> \in Seen(t)}]
<1>0. x \in Transaction /\ x.op = "delete" /\ x.added = {} /\ x.removed = {} /\ x.role \in Key
  BY DEF TypeOK, Shapes, Shape, ReadAffected, At, InFlight
<1>1. /\ y \in Transaction /\ y.op = "delete" /\ y.role = x.role /\ y.added = {} /\ y.removed = {}
      /\ y.todo = {u \in User : <<u, x.role>> \in rows}
  BY <1>0 DEF Transaction, Seen
<1>2. PICK z \in Loop(y) : Become(t, z)
  BY DEF ReadAffected
<1> HIDE DEF y
<1>3. ASSUME ~overlapped, GuestsStay, NEW u \in given
      PROVE  Kept(y, u) \/ (u \in y.todo /\ <<u, y.role>> \in rows)
  <2>1. PICK r \in roles : <<u, r>> \in rows
    BY <1>3 DEF NobodyDropped, GuestsStay, Holds
  <2>2. r \in Key
    BY DEF TypeOK
  <2> QED
    BY <1>1, <1>3, <2>1, <2>2 DEF Kept, TypeOK
<1>4. ~overlapped /\ GuestsStay => Remembered(z)
  BY <1>1, <1>3, LoopRemembered
<1>5. z \in Transaction
  BY <1>1, LoopFields
<1> QED
  BY <1>2, <1>4, <1>5, BecomeRemembered DEF Become, history

(* What is remembered of a deletion that is past its first statement.      *)
LEMMA RememberedNow ==
  ASSUME TypeOK, Shapes, NobodyForgotten, NEW t \in Txn, ~overlapped, GuestsStay,
         tx[t].op = "delete", tx[t].stage \in InFlight \ {"affected"}, ~IsGuest(tx[t].role),
         NEW u \in given
  PROVE  \/ Kept(tx[t], u)
         \/ u \in tx[t].todo /\ <<u, tx[t].role>> \in rows
         \/ u = tx[t].who /\ Owed(tx[t], u)
<1>1. Kept(tx[t], u) \/ Owed(tx[t], u)
  BY DEF NobodyForgotten, Remembered
<1> QED
  BY <1>1 DEF Owed

LEMMA RemoveRowRemembered ==
  ASSUME TypeOK, Shapes, NobodyForgotten, NEW t \in Txn, RemoveRow(t)
  PROVE  NobodyForgotten'
<1> DEFINE x == tx[t]
           row == <<x.who, x.role>>
           y == [x EXCEPT !.removed = IF row \in Seen(t) THEN @ \cup {row} ELSE @]
           z(s) == [y EXCEPT !.stage = s]
<1>0. x \in Transaction /\ x.stage = "remove" /\ row \in Row
  BY DEF TypeOK, Shapes, RemoveRow, At, Shape, Row, InFlight
<1>1. /\ y \in Transaction /\ y.op = x.op /\ y.role = x.role /\ y.added = x.added
      /\ y.removed = (IF row \in Seen(t) THEN x.removed \cup {row} ELSE x.removed)
      /\ y.todo = x.todo /\ y.who = x.who
  BY <1>0 DEF Transaction
<1>2. \/ x.op = "delete" /\ Become(t, z("count"))
      \/ x.op # "delete" /\ Become(t, z("commit"))
      \/ Fail(t)
  BY DEF RemoveRow
<1> HIDE DEF y
<1>3. ASSUME NEW s \in {"count", "commit"}
      PROVE  /\ z(s) \in Transaction /\ z(s).op = x.op /\ z(s).role = x.role
             /\ z(s).added = x.added /\ z(s).removed = y.removed /\ z(s).todo = x.todo
             /\ z(s).who = x.who /\ z(s).stage = s
  BY <1>1 DEF Transaction, InFlight
<1> HIDE DEF z
<1>4. ASSUME x.op = "delete", ~overlapped, GuestsStay PROVE Remembered(z("count"))
  <2> SUFFICES ASSUME ~IsGuest(x.role), NEW u \in given
               PROVE  Kept(z("count"), u) \/ Owed(z("count"), u)
    BY <1>3 DEF Remembered
  <2>1. \/ Kept(x, u)
        \/ u \in x.todo /\ <<u, x.role>> \in rows
        \/ u = x.who /\ Owed(x, u)
    BY <1>0, <1>4, RememberedNow DEF InFlight
  <2>2. CASE Kept(x, u)
    BY <1>1, <1>3, <2>2 DEF Kept
  <2>3. CASE u \in x.todo /\ <<u, x.role>> \in rows
    BY <1>3, <2>3 DEF Owed
  <2>4. CASE u = x.who /\ Owed(x, u)
    <3>1. row \in rows
      BY <1>0, <2>4 DEF Owed
    <3>2. row \in y.removed
      BY <1>1, <3>1 DEF Seen
    <3> QED
      BY <1>3, <2>4, <3>2 DEF Owed
  <2> QED
    BY <2>1, <2>2, <2>3, <2>4
<1>5. x.op # "delete" => Remembered(z("commit"))
  BY <1>3 DEF Remembered
<1> QED
  BY <1>2, <1>3, <1>4, <1>5, FailRemembered, BecomeRemembered DEF Become, history

(* A user counted to hold a role holds one besides that which goes: its    *)
(* own row was removed just before.                                        *)
LEMMA CountRolesRemembered ==
  ASSUME TypeOK, Shapes, NobodyForgotten, NEW t \in Txn, CountRoles(t)
  PROVE  NobodyForgotten'
<1> DEFINE x == tx[t]
           y == [x EXCEPT !.stage = "find"]
<1>0. x \in Transaction /\ x.stage = "count" /\ Shape(t, x) /\ x.op = "delete"
  BY DEF TypeOK, Shapes, CountRoles, At, Shape
<1>1. /\ y \in Transaction /\ y.op = x.op /\ y.role = x.role /\ y.added = x.added
      /\ y.removed = x.removed /\ y.todo = x.todo /\ y.who = x.who /\ y.stage = "find"
  BY <1>0 DEF Transaction, InFlight
<1> DEFINE Now(u) == \/ Kept(x, u)
                     \/ u \in x.todo /\ <<u, x.role>> \in rows
                     \/ u = x.who /\ Owed(x, u)
<1>2. ASSUME ~overlapped, GuestsStay, ~IsGuest(x.role), NEW u \in given PROVE Now(u)
  BY <1>0, <1>2, RememberedNow DEF InFlight
<1>3. CASE Become(t, y)
  <2> HIDE DEF y
  <2>1. ASSUME ~overlapped, GuestsStay PROVE Remembered(y)
    <3> SUFFICES ASSUME ~IsGuest(y.role), NEW u \in given
                 PROVE  Kept(y, u) \/ Owed(y, u)
      BY DEF Remembered
    <3>1. Now(u)
      BY <1>1, <1>2, <2>1
    <3> QED
      BY <1>0, <1>1, <3>1 DEF Kept, Owed
  <2> QED
    BY <1>1, <1>3, <2>1, BecomeRemembered DEF Become, history
<1>4. CASE (\E r \in Key : <<x.who, r>> \in Seen(t)) /\ \E z \in Loop(x) : Become(t, z)
  <2>1. PICK z \in Loop(x) : Become(t, z)
    BY <1>4
  <2>2. PICK r \in Key : <<x.who, r>> \in Seen(t)
    BY <1>4
  <2>3. ASSUME ~overlapped, GuestsStay, ~IsGuest(x.role) PROVE Remembered(z)
    <3> SUFFICES ASSUME NEW u \in given
                 PROVE  Kept(x, u) \/ (u \in x.todo /\ <<u, x.role>> \in rows)
      BY <1>0, LoopRemembered
    <3>1. Now(u)
      BY <1>2, <2>3
    <3>2. CASE u = x.who /\ <<u, x.role>> \in x.removed
      <4>1. <<u, x.role>> \in x.removed
        BY <3>2
      <4>2. <<u, x.role>> \notin x.added
        BY <1>0, <2>3 DEF Shape
      <4> QED
        BY <2>2, <3>2, <4>1, <4>2 DEF Seen, Kept
    <3> QED
      BY <1>0, <3>1, <3>2 DEF Owed
  <2>4. z \in Transaction /\ (IsGuest(x.role) => Remembered(z))
    BY <1>0, LoopFields DEF Remembered
  <2> QED
    BY <2>1, <2>3, <2>4, BecomeRemembered DEF Become, history
<1> QED
  BY <1>3, <1>4 DEF CountRoles
(* Finding or creating a guest role leaves the user to be looked at.       *)
LEMMA FindGuestRemembered ==
  ASSUME TypeOK, Shapes, NobodyForgotten, NEW t \in Txn, FindGuest(t) \/ CreateGuest(t)
  PROVE  NobodyForgotten'
<1> DEFINE x == tx[t]
           Same(y) == /\ y \in Transaction /\ y.op = x.op /\ y.role = x.role /\ y.added = x.added
                      /\ y.removed = x.removed /\ y.todo = x.todo /\ y.who = x.who
                      /\ y.stage \in {"create", "check"}
<1>0. x \in Transaction /\ x.stage \in {"find", "create"} /\ x.op = "delete"
  BY DEF TypeOK, Shapes, FindGuest, CreateGuest, At, Shape
<1>1. ASSUME NEW y, Same(y), Become(t, y) PROVE NobodyForgotten'
  <2>1. ASSUME ~overlapped, GuestsStay PROVE Remembered(y)
    <3> SUFFICES ASSUME ~IsGuest(x.role), NEW u \in given
                 PROVE  Kept(y, u) \/ Owed(y, u)
      BY <1>1 DEF Remembered
    <3>1. \/ Kept(x, u)
          \/ u \in x.todo /\ <<u, x.role>> \in rows
          \/ u = x.who /\ Owed(x, u)
      BY <1>0, <2>1, RememberedNow DEF InFlight
    <3> QED
      BY <1>0, <1>1, <3>1 DEF Kept, Owed
  <2> QED
    BY <1>1, <2>1, BecomeRemembered DEF Become, history
<1>2. CASE FindGuest(t)
  <2> DEFINE y(g) == [x EXCEPT !.target = g, !.stage = "check"]
             z == [x EXCEPT !.stage = "create"]
  <2>1. Same(z)
    BY <1>0 DEF Transaction, InFlight
  <2>2. ASSUME NEW g \in RolesSeen(t) PROVE Same(y(g))
    BY <1>0 DEF Transaction, InFlight, TypeOK, RolesSeen, Key
  <2>3. Become(t, z) \/ \E g \in RolesSeen(t) : Become(t, y(g))
    BY <1>2 DEF FindGuest
  <2> HIDE DEF y, z, Same
  <2> QED
    BY <1>1, <2>1, <2>2, <2>3
<1>3. CASE CreateGuest(t)
  <2> DEFINE y == [x EXCEPT !.created = TRUE, !.target = t, !.stage = "check"]
  <2>1. Same(y)
    BY <1>0 DEF Transaction, InFlight, Key
  <2>2. Become(t, y) \/ Fail(t)
    BY <1>3 DEF CreateGuest
  <2> HIDE DEF y, Same
  <2> QED
    BY <1>1, <2>1, <2>2, FailRemembered
<1> QED
  BY <1>2, <1>3

(* A user that has the guest row already keeps that one.                   *)
LEMMA CheckRowRemembered ==
  ASSUME TypeOK, Shapes, NobodyForgotten, NEW t \in Txn, CheckRow(t)
  PROVE  NobodyForgotten'
<1> DEFINE x == tx[t]
           y == [x EXCEPT !.stage = "insert"]
           Now(u) == \/ Kept(x, u)
                     \/ u \in x.todo /\ <<u, x.role>> \in rows
                     \/ u = x.who /\ Owed(x, u)
<1>0. x \in Transaction /\ x.stage = "check" /\ Shape(t, x)
  BY DEF TypeOK, Shapes, CheckRow, At
<1>1. /\ y \in Transaction /\ y.op = x.op /\ y.role = x.role /\ y.added = x.added
      /\ y.removed = x.removed /\ y.todo = x.todo /\ y.who = x.who /\ y.stage = "insert"
  BY <1>0 DEF Transaction, InFlight
<1>2. ASSUME ~overlapped, GuestsStay, x.op = "delete", ~IsGuest(x.role), NEW u \in given
      PROVE  Now(u)
  BY <1>0, <1>2, RememberedNow DEF InFlight
<1>3. CASE Become(t, y)
  <2> HIDE DEF y
  <2>1. ASSUME ~overlapped, GuestsStay PROVE Remembered(y)
    <3> SUFFICES ASSUME x.op = "delete", ~IsGuest(x.role), NEW u \in given
                 PROVE  Kept(y, u) \/ Owed(y, u)
      BY <1>1 DEF Remembered
    <3>1. Now(u)
      BY <1>2, <2>1
    <3> QED
      BY <1>0, <1>1, <3>1 DEF Kept, Owed
  <2> QED
    BY <1>1, <1>3, <2>1, BecomeRemembered DEF Become, history
<1>4. CASE /\ <<x.who, x.target>> \in Seen(t) /\ x.op = "delete"
           /\ \E z \in Loop(x) : Become(t, z)
  <2>1. PICK z \in Loop(x) : Become(t, z)
    BY <1>4
  <2>2. ASSUME ~overlapped, GuestsStay, ~IsGuest(x.role) PROVE Remembered(z)
    <3>1. x.target # x.role /\ x.target \in Key
      BY <1>0, <1>4, <2>2 DEF Shape
    <3>2. Kept(x, x.who)
      BY <1>4, <3>1 DEF Kept, Seen
    <3>3. ASSUME NEW u \in given
          PROVE  Kept(x, u) \/ (u \in x.todo /\ <<u, x.role>> \in rows)
      BY <1>2, <1>4, <2>2, <3>2
    <3> QED
      BY <1>0, <1>4, <3>3, LoopRemembered
  <2>3. z \in Transaction /\ (IsGuest(x.role) => Remembered(z))
    BY <1>0, LoopFields DEF Remembered
  <2> QED
    BY <2>1, <2>2, <2>3, BecomeRemembered DEF Become, history
<1> QED
  BY <1>3, <1>4, FailRemembered DEF CheckRow

(* A user given the guest row keeps it.                                    *)
LEMMA InsertRowRemembered ==
  ASSUME TypeOK, Shapes, NobodyForgotten, NEW t \in Txn, InsertRow(t)
  PROVE  NobodyForgotten'
<1> DEFINE x == tx[t]
           row == <<x.who, x.target>>
<1>0. x \in Transaction /\ x.stage = "insert" /\ Shape(t, x) /\ x.target \in Key
  BY DEF TypeOK, Shapes, InsertRow, At, Shape
<1>1. ASSUME NEW y \in Transaction, Become(t, y), y.op = x.op, x.op = "assign"
      PROVE  NobodyForgotten'
  <2>1. Remembered(y)
    BY <1>1 DEF Remembered
  <2> QED
    BY <1>1, <2>1, BecomeRemembered DEF Become, history
<1>2. ASSUME NEW y \in Transaction, Become(t, y), x.op = "delete",
             y.op = x.op, y.role = x.role, y.added = x.added \cup {row}, y.removed = x.removed,
             \/ y.stage = "drop" /\ x.todo = {}
             \/ y.stage = "remove" /\ y.who \in x.todo /\ y.todo = x.todo \ {y.who}
      PROVE  NobodyForgotten'
  <2>1. ASSUME ~overlapped, GuestsStay PROVE Remembered(y)
    <3> SUFFICES ASSUME ~IsGuest(x.role), NEW u \in given
                 PROVE  Kept(y, u) \/ Owed(y, u)
      BY <1>2 DEF Remembered
    <3>1. \/ Kept(x, u)
          \/ u \in x.todo /\ <<u, x.role>> \in rows
          \/ u = x.who /\ Owed(x, u)
      BY <1>0, <1>2, <2>1, RememberedNow DEF InFlight
    <3>2. x.target # x.role
      BY <1>0, <1>2 DEF Shape
    <3>3. CASE u = x.who
      BY <1>0, <1>2, <3>2, <3>3 DEF Kept
    <3>4. CASE Kept(x, u)
      BY <1>2, <3>4 DEF Kept
    <3>5. CASE u \in x.todo /\ <<u, x.role>> \in rows
      BY <1>2, <3>5 DEF Owed
    <3> QED
      BY <3>1, <3>3, <3>4, <3>5
  <2> QED
    BY <1>2, <2>1, BecomeRemembered DEF Become, history
<1>3. CASE Fail(t)
  BY <1>3, FailRemembered
<1> QED
  BY <1>1, <1>2, <1>3, InsertRowRecord

(* When the role goes, there is nobody left to look at.                    *)
LEMMA DropRemembered ==
  ASSUME TypeOK, Shapes, NobodyForgotten, NEW t \in Txn, DropRole(t) \/ CascadeRow(t)
  PROVE  NobodyForgotten'
<1> DEFINE x == tx[t]
<1>0. /\ x \in Transaction /\ x.stage \in {"drop", "cascade"} /\ x.op = "delete"
      /\ x.todo = {} /\ x.role \in Key
  BY DEF TypeOK, Shapes, DropRole, CascadeRow, At, Shape, InFlight
<1>1. ASSUME ~overlapped, GuestsStay, ~IsGuest(x.role), NEW u \in given
      PROVE  Kept(x, u)
  <2>1. \/ Kept(x, u)
        \/ u \in x.todo /\ <<u, x.role>> \in rows
        \/ u = x.who /\ Owed(x, u)
    BY <1>0, <1>1, RememberedNow DEF InFlight
  <2> QED
    BY <1>0, <2>1 DEF Owed
<1>2. ASSUME NEW y \in Transaction, Become(t, y), y.role = x.role,
             \A row \in Row : row[2] # x.role =>
               /\ row \in y.added <=> row \in x.added
               /\ row \in y.removed <=> row \in x.removed
      PROVE  NobodyForgotten'
  <2>1. ASSUME NEW u \in given, Kept(x, u) PROVE Kept(y, u)
    <3>1. PICK r \in Key : r # x.role /\ <<u, r>> \in (rows \ x.removed) \cup x.added
      BY <2>1 DEF Kept
    <3>2. <<u, r>> \in Row /\ <<u, r>>[2] # x.role
      BY <3>1 DEF Row, TypeOK
    <3> QED
      BY <1>2, <3>1, <3>2 DEF Kept
  <2>2. ~overlapped /\ GuestsStay => Remembered(y)
    BY <1>1, <1>2, <2>1 DEF Remembered
  <2> QED
    BY <1>2, <2>2, BecomeRemembered DEF Become, history
<1>3. CASE DropRole(t)
  <2> DEFINE y == [x EXCEPT !.dropped = TRUE, !.stage = "cascade"]
  <2>1. y \in Transaction /\ y.role = x.role /\ y.added = x.added /\ y.removed = x.removed
    BY <1>0 DEF Transaction, InFlight
  <2>2. Become(t, y) \/ Fail(t)
    BY <1>3 DEF DropRole
  <2> HIDE DEF y
  <2> QED
    BY <1>2, <2>1, <2>2, FailRemembered
<1>4. CASE CascadeRow(t)
  BY <1>2, <1>4, CascadeRowRecord
<1> QED
  BY <1>3, <1>4

LEMMA BeginRemembered ==
  ASSUME TypeOK, NobodyForgotten, NEW t \in Txn,
         BeginDeletion(t) \/ BeginAssignment(t) \/ BeginRemoval(t)
  PROVE  NobodyForgotten'
<1>1. CASE BeginDeletion(t)
  <2>1. PICK r \in roles :
          tx' = [tx EXCEPT ![t] = [Fresh EXCEPT !.op = "delete", !.role = r, !.stage = "affected"]]
    BY <1>1 DEF BeginDeletion
  <2> DEFINE y == [Fresh EXCEPT !.op = "delete", !.role = r, !.stage = "affected"]
  <2>2. y \in Transaction /\ Remembered(y)
    BY DEF Fresh, Transaction, InFlight, TypeOK, Remembered
  <2> HIDE DEF y
  <2> QED
    BY <1>1, <2>1, <2>2, BecomeRemembered DEF BeginDeletion, y
<1>2. ASSUME NEW y \in Transaction, Become(t, y), y.op # "delete"
      PROVE  NobodyForgotten'
  <2>1. Remembered(y)
    BY <1>2 DEF Remembered
  <2> QED
    BY <1>2, <2>1, BecomeRemembered DEF Become, history
<1>3. CASE BeginAssignment(t)
  <2>1. PICK r \in roles, u \in User :
          Become(t, [Fresh EXCEPT !.op = "assign", !.who = u, !.role = r, !.target = r,
                                  !.stage = "check"])
    BY <1>3 DEF BeginAssignment
  <2> DEFINE y == [Fresh EXCEPT !.op = "assign", !.who = u, !.role = r, !.target = r,
                                !.stage = "check"]
  <2>2. y \in Transaction /\ y.op # "delete"
    BY DEF Fresh, Transaction, InFlight, TypeOK
  <2> QED
    BY <1>2, <2>1, <2>2
<1>4. CASE BeginRemoval(t)
  <2>1. PICK r \in roles, u \in User :
          Become(t, [Fresh EXCEPT !.op = "remove", !.who = u, !.role = r, !.stage = "remove"])
    BY <1>4 DEF BeginRemoval
  <2> DEFINE y == [Fresh EXCEPT !.op = "remove", !.who = u, !.role = r, !.stage = "remove"]
  <2>2. y \in Transaction /\ y.op # "delete"
    BY DEF Fresh, Transaction, InFlight, TypeOK
  <2> QED
    BY <1>2, <2>1, <2>2
<1> QED
  BY <1>1, <1>3, <1>4

(* An assignment or a removal takes no row from a user who was given one   *)
(* and keeps it.                                                           *)
LEMMA CommitKeeps ==
  ASSUME TypeOK, Shapes, NEW t \in Txn, Commit(t), tx[t].op # "delete",
         NEW u \in given', NEW r \in Key, <<u, r>> \in rows
  PROVE  <<u, r>> \in rows'
<1>1. tx[t] \in Transaction /\ Shape(t, tx[t])
  BY DEF TypeOK, Shapes
<1>2. rows' = (rows \ tx[t].removed) \cup tx[t].added
  BY DEF Commit, Seen
<1>3. CASE tx[t].op = "assign"
  <2>1. tx[t].removed = {}
    BY <1>1, <1>3 DEF Shape
  <2> QED
    BY <1>2, <2>1
<1>4. CASE tx[t].op = "remove"
  <2>1. tx[t].removed \subseteq {<<tx[t].who, tx[t].role>>}
    BY <1>1, <1>4 DEF Shape
  <2>2. u # tx[t].who
    BY <1>4 DEF Commit, Subject
  <2> QED
    BY <1>2, <2>1, <2>2
<1> QED
  BY <1>1, <1>3, <1>4 DEF Transaction

(* A user is given a role by an assignment, whose row is in store when it  *)
(* commits, and which no deletion that has read its users takes away.      *)
LEMMA CommitGives ==
  ASSUME TypeOK, Shapes, NEW t \in Txn, Commit(t), NEW u \in given'
  PROVE  \/ u \in given
         \/ /\ tx[t].op = "assign" /\ tx[t].role \in Key /\ <<u, tx[t].role>> \in rows'
            /\ \A s \in Txn \ {t} :
                 tx[s].op = "delete" /\ tx[s].stage \in InFlight \ {"affected"} =>
                   tx[s].role # tx[t].role /\ \A row \in tx[s].removed : row[2] # tx[t].role
<1> SUFFICES ASSUME u \notin given
             PROVE  /\ tx[t].op = "assign" /\ tx[t].role \in Key /\ <<u, tx[t].role>> \in rows'
                    /\ \A s \in Txn \ {t} :
                         tx[s].op = "delete" /\ tx[s].stage \in InFlight \ {"affected"} =>
                           tx[s].role # tx[t].role /\ \A row \in tx[s].removed : row[2] # tx[t].role
  OBVIOUS
<1>1. tx[t].stage = "commit" /\ Shape(t, tx[t])
  BY DEF Commit, At, Shapes
<1>2. tx[t].op = "assign" /\ u = tx[t].who /\ InTime(t)
  BY DEF Commit, Subject
<1>3. tx[t].role \in Key /\ <<u, tx[t].role>> \in tx[t].added
  BY <1>1, <1>2 DEF Shape, InFlight
<1>4. <<u, tx[t].role>> \in rows'
  BY <1>3 DEF Commit, Seen
<1>5. ASSUME NEW s \in Txn \ {t}, tx[s].op = "delete", tx[s].stage \in InFlight \ {"affected"}
      PROVE  tx[s].role # tx[t].role /\ \A row \in tx[s].removed : row[2] # tx[t].role
  <2>1. tx[s].role # tx[t].role
    BY <1>2, <1>5 DEF InTime, Others
  <2>2. \A row \in tx[s].removed : row[2] = tx[s].role
    BY DEF Shapes, Shape
  <2> QED
    BY <2>1, <2>2
<1> QED
  BY <1>2, <1>3, <1>4, <1>5

LEMMA CommitRemembered ==
  ASSUME TypeOK, Shapes, Serial, NobodyForgotten, NEW t \in Txn, Commit(t)
  PROVE  NobodyForgotten'
<1> SUFFICES ASSUME ~overlapped, GuestsStay', NEW s \in Txn,
                    tx'[s].op = "delete", tx'[s].stage \in InFlight \ {"affected"},
                    ~IsGuest(tx'[s].role), NEW u \in given'
             PROVE  Kept(tx[s], u)' \/ Owed(tx[s], u)'
  <2>1. overlapped' = overlapped
    BY DEF Commit
  <2> QED
    BY <2>1 DEF NobodyForgotten, Remembered, IsGuest
<1>1. /\ deleted \subseteq deleted'
      /\ \A r \in Txn : r # t => tx'[r] = tx[r]
      /\ tx'[t].stage = "done"
  BY DEF Commit, TypeOK, Fresh
<1>2. s # t /\ tx'[s] = tx[s]
  BY <1>1 DEF InFlight
<1>3. GuestsStay
  BY <1>1 DEF GuestsStay, IsGuest
<1>4. tx[t].op # "delete"
  <2>1. tx[t].stage \in InFlight
    BY DEF Commit, At, InFlight
  <2> QED
    BY <1>2, <2>1 DEF Serial, Deleting
<1>5. CASE u \in given
  <2>1. Kept(tx[s], u) \/ Owed(tx[s], u)
    BY <1>2, <1>3, <1>5 DEF NobodyForgotten, Remembered
  <2>2. \A r \in Key : <<u, r>> \in rows => <<u, r>> \in rows'
    BY <1>4, CommitKeeps
  <2>3. tx[s].role \in Key
    BY <1>2 DEF Shapes, Shape
  <2>4. CASE Kept(tx[s], u)
    BY <1>2, <2>2, <2>4 DEF Kept
  <2>5. CASE Owed(tx[s], u)
    BY <1>2, <2>2, <2>3, <2>5 DEF Owed
  <2> QED
    BY <2>1, <2>4, <2>5
<1>6. CASE u \notin given
  <2>1. /\ tx[t].role \in Key /\ <<u, tx[t].role>> \in rows' /\ tx[s].role # tx[t].role
        /\ \A row \in tx[s].removed : row[2] # tx[t].role
    BY <1>2, <1>6, CommitGives
  <2>2. <<u, tx[t].role>> \notin tx[s].removed
    BY <2>1
  <2> QED
    BY <1>2, <2>1, <2>2 DEF Kept
<1> QED
  BY <1>5, <1>6

LEMMA CommitDropsNobody ==
  ASSUME TypeOK, Shapes, Locks, NoOrphanRow, NobodyForgotten, NobodyDropped,
         NEW t \in Txn, Commit(t)
  PROVE  NobodyDropped'
<1> SUFFICES ASSUME ~overlapped, GuestsStay', NEW u \in given'
             PROVE  \E r \in roles' : <<u, r>> \in rows'
  <2>1. overlapped' = overlapped
    BY DEF Commit
  <2> QED
    BY <2>1 DEF NobodyDropped, GuestsStay, Holds, IsGuest
<1>1. GuestsStay
  BY DEF Commit, GuestsStay, IsGuest
<1>2. ASSUME NEW r, <<u, r>> \in rows' PROVE r \in roles'
  <2>1. <<u, r>>[2] \in roles'
    BY <1>2, CommitReferences
  <2> QED
    BY <2>1
<1>3. CASE u \notin given
  BY <1>2, <1>3, CommitGives
<1>4. CASE u \in given /\ tx[t].op # "delete"
  <2>1. PICK r \in roles : <<u, r>> \in rows
    BY <1>1, <1>4 DEF NobodyDropped, GuestsStay, Holds
  <2>2. r \in Key
    BY DEF TypeOK
  <2>3. <<u, r>> \in rows'
    BY <1>4, <2>1, <2>2, CommitKeeps
  <2> QED
    BY <1>2, <2>3
<1>5. CASE u \in given /\ tx[t].op = "delete"
  <2>1. tx[t].stage = "commit" /\ tx[t].dropped /\ tx[t].todo = {}
    BY <1>5 DEF Commit, At, Shapes, Shape
  <2>2. ~IsGuest(tx[t].role)
    BY <2>1 DEF Commit, GuestsStay, IsGuest
  <2>3. Kept(tx[t], u)
    <3>1. Kept(tx[t], u) \/ Owed(tx[t], u)
      BY <1>1, <1>5, <2>1, <2>2, RememberedNow DEF InFlight
    <3> QED
      BY <2>1, <3>1 DEF Owed
  <2>4. rows' = (rows \ tx[t].removed) \cup tx[t].added
    BY DEF Commit, Seen
  <2> QED
    BY <1>2, <2>3, <2>4 DEF Kept
<1> QED
  BY <1>3, <1>4, <1>5

LEMMA ForgottenNext ==
  ASSUME IInv, [Next]_vars
  PROVE  NobodyForgotten' /\ NobodyDropped'
<1> USE DEF IInv
<1>1. CASE UNCHANGED vars
  BY <1>1 DEF vars, history, NobodyForgotten, Remembered, Kept, Owed, GuestsStay, NobodyDropped,
              Holds, IsGuest
<1>2. ASSUME NEW t \in Txn, Commit(t) PROVE NobodyForgotten' /\ NobodyDropped'
  BY <1>2, CommitRemembered, CommitDropsNobody
<1>3. ASSUME NEW t \in Txn,
             \/ BeginAssignment(t) \/ BeginRemoval(t) \/ Abort(t) \/ BeginDeletion(t)
             \/ ReadAffected(t) \/ RemoveRow(t) \/ CountRoles(t) \/ FindGuest(t) \/ CreateGuest(t)
             \/ CheckRow(t) \/ InsertRow(t) \/ DropRole(t) \/ CascadeRow(t)
      PROVE  NobodyForgotten' /\ NobodyDropped'
  <2>1. NobodyForgotten'
    BY <1>3, BeginRemembered, FailRemembered, ReadAffectedRemembered, RemoveRowRemembered,
       CountRolesRemembered, FindGuestRemembered, CheckRowRemembered, InsertRowRemembered,
       DropRemembered DEF Abort
  <2>2. UNCHANGED <<roles, rows, given, deleted>>
    BY <1>3, StatementQuiet
  <2>3. overlapped => overlapped'
    BY <1>3, StatementQuiet
  <2> QED
    BY <2>1, <2>2, <2>3 DEF NobodyDropped, Holds, IsGuest
<1> QED
  BY <1>1, <1>2, <1>3 DEF Next, Step

-----------------------------------------------------------------------------
(* The theorems *)

LEMMA InitHolds == Init => IInv
<1> SUFFICES ASSUME Init PROVE IInv
  OBVIOUS
<1>1. \A t \in Txn : tx[t] = Fresh
  BY DEF Init
<1>2. Fresh \in Transaction /\ \A t \in Txn : Shape(t, Fresh)
  BY DEF Fresh, Transaction, Shape, InFlight
<1>3. roles \subseteq Role /\ rows \subseteq User \X roles
  BY DEF Init
<1>4. TypeOK
  BY <1>2, <1>3 DEF Init, TypeOK, Row, Key
<1>5. Shapes
  BY <1>1, <1>2 DEF Shapes
<1>6. Locks
  BY <1>1 DEF Locks, Fresh
<1>7. OneGuest
  BY <1>3, KeysAssumption DEF OneGuest, IsGuest
<1>8. NoOrphanRow
  BY <1>3 DEF NoOrphanRow
<1>9. Fallen
  BY <1>1 DEF Fallen, Fresh
<1>10. Serial
  BY <1>1 DEF Serial, Deleting, Fresh
<1>11. NobodyForgotten
  BY <1>1 DEF NobodyForgotten, Remembered, Fresh
<1>12. NobodyDropped
  BY DEF Init, NobodyDropped, Holds
<1> QED
  BY <1>4, <1>5, <1>6, <1>7, <1>8, <1>9, <1>10, <1>11, <1>12 DEF IInv

(* No step breaks it.                                                     *)
LEMMA StepKeeps == ASSUME IInv, [Next]_vars PROVE IInv'
<1>1. TypeOK' /\ Shapes'
  BY TypeNext, ShapesNext DEF IInv
<1>2. Locks' /\ OneGuest' /\ NoOrphanRow'
  BY LocksNext DEF IInv
<1>3. Serial' /\ Fallen'
  BY FallenNext DEF IInv
<1>4. NobodyForgotten' /\ NobodyDropped'
  BY ForgottenNext
<1> QED
  BY <1>1, <1>2, <1>3, <1>4 DEF IInv

(* The invariant holds in every reachable state.                           *)
THEOREM Inductive == Spec => []IInv
<1>1. IInv /\ [Next]_vars => IInv'
  BY StepKeeps
<1> QED
  BY <1>1, InitHolds, PTL DEF Spec

(* The tables, the transactions and the histories keep their types.        *)
THEOREM TypeCorrect == Spec => []TypeOK
<1>1. IInv => TypeOK
  BY DEF IInv
<1> QED
  BY <1>1, Inductive, PTL

(* However many deletions create a guest role at the same time, at most    *)
(* one guest role is ever committed.                                       *)
THEOREM GuestUnique == Spec => []OneGuest
<1>1. IInv => OneGuest
  BY DEF IInv
<1> QED
  BY <1>1, Inductive, PTL

(* No committed row of user_roles refers to a role that is not there,      *)
(* whatever deletions and assignments interleave.                          *)
THEOREM References == Spec => []NoOrphanRow
<1>1. IInv => NoOrphanRow
  BY DEF IInv
<1> QED
  BY <1>1, Inductive, PTL

(* While deletions do not overlap and no guest role is deleted, a user who *)
(* was given a role in time has one until a request removes one, with any  *)
(* number of assignments, removals, aborts and lost connections between    *)
(* the statements.                                                         *)
THEOREM NobodyIsDropped == Spec => []NobodyDropped
<1>1. IInv => NobodyDropped
  BY DEF IInv
<1> QED
  BY <1>1, Inductive, PTL

(* A request that was about to commit and is done has committed.           *)
LEMMA DoneByCommit ==
  ASSUME TypeOK, NEW t \in Txn, Next, tx[t].stage = "commit", tx'[t].stage = "done"
  PROVE  Commit(t)
<1>1. PICK s \in Txn :
        BeginDeletion(s) \/ BeginAssignment(s) \/ BeginRemoval(s) \/ Step(s) \/ Abort(s)
  BY DEF Next
<1>2. \E x : tx' = [tx EXCEPT ![s] = x]
  BY <1>1, StatementQuiet DEF Step, Commit
<1>3. s = t
  BY <1>2 DEF TypeOK
<1>4. ~Abort(t)
  BY DEF Abort, Fail, Become, Fresh, TypeOK
<1> QED
  BY <1>1, <1>3, <1>4
     DEF BeginDeletion, BeginAssignment, BeginRemoval, Step, At, ReadAffected, RemoveRow,
         CountRoles, FindGuest, CreateGuest, CheckRow, InsertRow, DropRole, CascadeRow

(* The commit of a deletion leaves everyone it moved with the guest role.  *)
THEOREM FallbackHolds == Spec => FallbackSurvives
<1> DEFINE Survives ==
      \A t \in Txn : tx[t].stage = "commit" /\ tx'[t].stage = "done" /\ ~IsGuest(tx[t].role) =>
        \A u \in tx[t].fell : \E g \in roles' : IsGuest(g) /\ <<u, g>> \in rows'
<1>1. ASSUME IInv, Next PROVE Survives
  <2> SUFFICES ASSUME NEW t \in Txn, tx[t].stage = "commit", tx'[t].stage = "done",
                      ~IsGuest(tx[t].role), NEW u \in tx[t].fell
               PROVE  \E g \in roles' : IsGuest(g) /\ <<u, g>> \in rows'
    OBVIOUS
  <2> USE <1>1 DEF IInv
  <2>1. Commit(t)
    BY DoneByCommit
  <2>2. PICK g \in Key : IsGuest(g) /\ <<u, g>> \in tx[t].added
    BY DEF Fallen
  <2>3. <<u, g>> \in rows'
    BY <2>1, <2>2 DEF Commit, Seen
  <2>4. <<u, g>>[2] \in roles'
    BY <2>1, <2>3, CommitReferences
  <2> QED
    BY <2>2, <2>3, <2>4
<1>2. IInv /\ [Next]_vars => [Survives]_vars
  BY <1>1
<1> QED
  BY <1>2, Inductive, PTL DEF Spec, FallbackSurvives
-----------------------------------------------------------------------------
(* One request at a time: what a request promises as one step on the two   *)
(* tables, in the way Rbac has DeleteRole, AssignRole and RemoveRole.      *)

AffectedBy(r) == {u \in User : <<u, r>> \in rows}
LosersOf(r) == {u \in AffectedBy(r) : \A k \in Key : <<u, k>> \in rows => k = r}
GuestRoles == {g \in roles : IsGuest(g)}

(* The roles the losers may fall back to when request t deletes a role.    *)
Fallback(t) == IF GuestRoles = {} THEN {t} ELSE GuestRoles

RowsOf(r) == User \X {r}

AtomicDeletion(r) ==
  /\ r \in roles
  /\ \E t \in Txn : \E g \in Fallback(t) :
       /\ roles' = (roles \cup IF LosersOf(r) = {} THEN {} ELSE {g}) \ {r}
       /\ rows' = (rows \cup (LosersOf(r) \X {g})) \ RowsOf(r)

AtomicAssignment(u, r) ==
  /\ r \in roles /\ <<u, r>> \notin rows
  /\ rows' = rows \cup {<<u, r>>}
  /\ roles' = roles

AtomicRemoval(u, r) ==
  /\ <<u, r>> \in rows
  /\ rows' = rows \ {<<u, r>>}
  /\ roles' = roles

AtomicInit ==
  /\ roles \in {Role, Role \ {Guest}}
  /\ rows \in SUBSET (User \X roles)

AtomicNext ==
  \/ \E r \in Key : AtomicDeletion(r)
  \/ \E u \in User, r \in Key : AtomicAssignment(u, r) \/ AtomicRemoval(u, r)

AtomicSpec == AtomicInit /\ [][AtomicNext]_<<roles, rows>>

(* A request takes a step only while no other is running.                  *)
SerialNext ==
  \E t \in Txn :
    /\ Others(t) = {}
    /\ BeginDeletion(t) \/ BeginAssignment(t) \/ BeginRemoval(t) \/ Step(t) \/ Abort(t)

SerialSpec == Init /\ [][SerialNext]_vars

Alone == \A s, t \in Txn : tx[s].stage \in InFlight /\ tx[t].stage \in InFlight => s = t

(* Users whose row the loop has still to remove, and the one it is at.     *)
Ahead(x) == x.todo \cup IF x.stage = "remove" THEN {x.who} ELSE {}
AtHand(x) ==
  IF x.stage \in {"count", "find", "create", "check", "insert"} THEN {x.who} ELSE {}

Looping == {"remove", "count", "find", "create", "check", "insert", "drop"}

(* What the loop has done to the users it is through with.                 *)
Turned(t, x) ==
  /\ Ahead(x) \cup AtHand(x) \subseteq AffectedBy(x.role)
  /\ x.stage # "drop" => x.who \notin x.todo
  /\ x.removed = (AffectedBy(x.role) \ Ahead(x)) \X {x.role}
  /\ x.fell = (LosersOf(x.role) \ Ahead(x)) \ AtHand(x)
  /\ x.added = x.fell \X Fallback(t)
  /\ x.stage \in {"find", "create", "check", "insert"} => x.who \in LosersOf(x.role)
  /\ x.stage \in {"check", "insert"} => x.target \in Fallback(t)
  /\ x.created <=> GuestRoles = {} /\ (x.fell # {} \/ x.stage \in {"check", "insert"})

(* What is left to commit once the role's own row is gone.                 *)
Emptied(t, x) ==
  /\ \A row \in Row : row[2] # x.role =>
       (row \in x.added <=> row \in LosersOf(x.role) \X Fallback(t))
  /\ x.created <=> GuestRoles = {} /\ LosersOf(x.role) # {}

Progress(t, x) ==
  /\ x.op = "delete" /\ x.stage \in InFlight => x.role \in roles
  /\ x.op = "delete" /\ x.stage = "affected" => ~x.created
  /\ x.op = "delete" /\ x.stage \in Looping => Turned(t, x)
  /\ x.op = "delete" /\ x.stage \in {"cascade", "commit"} => Emptied(t, x)
  /\ x.op = "assign" /\ x.stage \in InFlight => x.target = x.role
  /\ x.op = "assign" /\ x.stage \in {"check", "insert"} => x.added = {}
  /\ x.op = "assign" /\ x.stage = "commit" =>
       x.role \in roles /\ <<x.who, x.role>> \notin rows /\ x.added = {<<x.who, x.role>>}
       /\ x.who \in User
  /\ x.op = "remove" /\ x.stage = "remove" => x.removed = {}
  /\ x.op = "remove" /\ x.stage = "commit" =>
       <<x.who, x.role>> \in rows /\ x.removed = {<<x.who, x.role>>}

SerialInv == Alone /\ \A t \in Txn : Progress(t, tx[t])

LEMMA SerialIsNext == ASSUME [SerialNext]_vars PROVE [Next]_vars
  BY DEF SerialNext, Next

(* The request that was running is not any more.                           *)
LEMMA NobodyRuns ==
  ASSUME TypeOK, NEW t \in Txn, Others(t) = {},
         NEW y \in Transaction, tx' = [tx EXCEPT ![t] = y], y.stage \notin InFlight
  PROVE  SerialInv'
<1>1. \A s \in Txn : tx'[s].stage \notin InFlight
  BY DEF TypeOK, Others
<1>2. \A s \in Txn : Progress(s, tx[s])'
  BY <1>1 DEF Progress, InFlight, Looping
<1> QED
  BY <1>1, <1>2 DEF SerialInv, Alone

LEMMA FailSerial ==
  ASSUME TypeOK, NEW t \in Txn, Others(t) = {}, Fail(t)
  PROVE  SerialInv'
<1>1. [Fresh EXCEPT !.stage = "failed"].stage \notin InFlight
  BY DEF Fresh, InFlight
<1> QED
  BY <1>1, FreshType, NobodyRuns DEF Fail, Become

(* A statement that leaves the committed rows alone.                       *)
LEMMA BecomeProgress ==
  ASSUME TypeOK, NEW t \in Txn, Others(t) = {},
         NEW y \in Transaction, tx' = [tx EXCEPT ![t] = y], UNCHANGED <<roles, rows>>,
         Progress(t, y)
  PROVE  SerialInv'
<1>1. tx'[t] = y /\ \A s \in Txn \ {t} : tx'[s].stage \notin InFlight
  BY DEF TypeOK, Others
<1>2. Alone'
  BY <1>1 DEF Alone
<1>3. Progress(t, y)'
  BY DEF Progress, Turned, Emptied, AffectedBy, LosersOf, Fallback, GuestRoles
<1>4. ASSUME NEW s \in Txn \ {t} PROVE Progress(s, tx[s])'
  BY <1>1, <1>4 DEF Progress, InFlight, Looping
<1> QED
  BY <1>1, <1>2, <1>3, <1>4 DEF SerialInv

(* The loop goes on when it is through with a user.                        *)
LEMMA LoopProgress ==
  ASSUME NEW t \in Txn, NEW x \in Transaction, NEW y \in Loop(x),
         x.op = "delete", x.role \in roles,
         x.todo \subseteq AffectedBy(x.role),
         x.removed = (AffectedBy(x.role) \ x.todo) \X {x.role},
         x.fell = LosersOf(x.role) \ x.todo,
         x.added = x.fell \X Fallback(t),
         x.created <=> GuestRoles = {} /\ x.fell # {}
  PROVE  Progress(t, y)
<1>1. /\ y.op = x.op /\ y.role = x.role /\ y.removed = x.removed /\ y.fell = x.fell
      /\ y.added = x.added /\ y.created = x.created
      /\ \/ y.stage = "drop" /\ x.todo = {} /\ y.todo = {}
         \/ y.stage = "remove" /\ y.who \in x.todo /\ y.todo = x.todo \ {y.who}
  BY LoopFields
<1>2. Ahead(y) = x.todo /\ AtHand(y) = {}
  BY <1>1 DEF Ahead, AtHand
<1>3. y.stage # "drop" => y.who \notin y.todo
  BY <1>1
<1>4. Turned(t, y)
  BY <1>1, <1>2, <1>3 DEF Turned
<1> QED
  BY <1>1, <1>4 DEF Progress

LEMMA BeginSerial ==
  ASSUME TypeOK, NEW t \in Txn, Others(t) = {},
         BeginDeletion(t) \/ BeginAssignment(t) \/ BeginRemoval(t)
  PROVE  SerialInv'
<1>0. roles \subseteq Key
  BY DEF TypeOK
<1>1. CASE BeginDeletion(t)
  <2>1. PICK r \in roles :
          tx' = [tx EXCEPT ![t] = [Fresh EXCEPT !.op = "delete", !.role = r, !.stage = "affected"]]
    BY <1>1 DEF BeginDeletion
  <2> DEFINE y == [Fresh EXCEPT !.op = "delete", !.role = r, !.stage = "affected"]
  <2>2. y \in Transaction /\ Progress(t, y)
    BY <1>0 DEF Fresh, Transaction, InFlight, Progress, Looping
  <2> QED
    BY <1>1, <2>1, <2>2, BecomeProgress DEF BeginDeletion
<1>2. CASE BeginAssignment(t)
  <2>1. PICK r \in roles, u \in User :
          Become(t, [Fresh EXCEPT !.op = "assign", !.who = u, !.role = r, !.target = r,
                                  !.stage = "check"])
    BY <1>2 DEF BeginAssignment
  <2> DEFINE y == [Fresh EXCEPT !.op = "assign", !.who = u, !.role = r, !.target = r,
                                !.stage = "check"]
  <2>2. y \in Transaction /\ Progress(t, y)
    BY <1>0 DEF Fresh, Transaction, InFlight, Progress, Looping
  <2> QED
    BY <2>1, <2>2, BecomeProgress DEF Become
<1>3. CASE BeginRemoval(t)
  <2>1. PICK r \in roles, u \in User :
          Become(t, [Fresh EXCEPT !.op = "remove", !.who = u, !.role = r, !.stage = "remove"])
    BY <1>3 DEF BeginRemoval
  <2> DEFINE y == [Fresh EXCEPT !.op = "remove", !.who = u, !.role = r, !.stage = "remove"]
  <2>2. y \in Transaction /\ Progress(t, y)
    BY <1>0 DEF Fresh, Transaction, InFlight, Progress, Looping
  <2> QED
    BY <2>1, <2>2, BecomeProgress DEF Become
<1> QED
  BY <1>1, <1>2, <1>3

LEMMA ReadAffectedSerial ==
  ASSUME IInv, SerialInv, NEW t \in Txn, Others(t) = {}, ReadAffected(t)
  PROVE  SerialInv'
<1> DEFINE x == tx[t]
           z == [x EXCEPT !.todo = AffectedBy(x.role)]
<1>1. TypeOK /\ x \in Transaction /\ Shape(t, x) /\ Progress(t, x) /\ x.stage = "affected"
  BY DEF IInv, TypeOK, Shapes, SerialInv, ReadAffected, At
<1>2. /\ x.op = "delete" /\ x.role \in Key /\ x.role \in roles /\ ~x.created
      /\ x.added = {} /\ x.removed = {} /\ x.fell = {}
  BY <1>1 DEF Shape, Progress, InFlight
<1>3. AffectedBy(x.role) = {u \in User : <<u, x.role>> \in Seen(t)}
  BY <1>2 DEF AffectedBy, Seen
<1>4. PICK y \in Loop(z) : Become(t, y)
  BY <1>3 DEF ReadAffected
<1>5. z \in Transaction
  BY <1>1 DEF Transaction, AffectedBy
<1>6. /\ z.todo = AffectedBy(x.role) /\ z.op = x.op /\ z.role = x.role /\ z.added = x.added
      /\ z.removed = x.removed /\ z.fell = x.fell /\ z.created = x.created
  BY <1>1 DEF Transaction
<1>7. LosersOf(x.role) \subseteq AffectedBy(x.role)
  BY DEF LosersOf
<1> HIDE DEF z
<1>8. Progress(t, y)
  BY <1>2, <1>4, <1>5, <1>6, <1>7, LoopProgress
<1>9. y \in Transaction
  BY <1>4, <1>5, LoopFields
<1> QED
  BY <1>1, <1>4, <1>8, <1>9, BecomeProgress DEF Become

(* What holds of a deletion in its loop before a statement of it.          *)
LEMMA InLoop ==
  ASSUME IInv, SerialInv, NEW t \in Txn, tx[t].op = "delete", tx[t].stage \in Looping
  PROVE  /\ TypeOK /\ tx[t] \in Transaction /\ Shape(t, tx[t])
         /\ Turned(t, tx[t]) /\ tx[t].role \in roles /\ tx[t].role \in Key /\ ~tx[t].dropped
<1>1. TypeOK /\ tx[t] \in Transaction /\ Shape(t, tx[t]) /\ Progress(t, tx[t])
  BY DEF IInv, TypeOK, Shapes, SerialInv
<1> QED
  BY <1>1 DEF Shape, Progress, InFlight, Looping

LEMMA RemoveRowSerial ==
  ASSUME IInv, SerialInv, NEW t \in Txn, Others(t) = {}, RemoveRow(t)
  PROVE  SerialInv'
<1> DEFINE x == tx[t]
           row == <<x.who, x.role>>
           y == [x EXCEPT !.removed = IF row \in Seen(t) THEN @ \cup {row} ELSE @]
<1>1. /\ TypeOK /\ x \in Transaction /\ Shape(t, x) /\ Progress(t, x) /\ x.stage = "remove"
      /\ x.op # "assign" /\ x.who \in User /\ x.role \in Key
  BY DEF IInv, TypeOK, Shapes, SerialInv, RemoveRow, At, Shape, InFlight
<1>2. row \in Row
  BY <1>1 DEF Row
<1>3. CASE x.op = "delete"
  <2>1. Turned(t, x) /\ x.role \in roles
    BY <1>1, <1>3, InLoop DEF Looping
  <2>2. /\ Ahead(x) = x.todo \cup {x.who} /\ AtHand(x) = {}
        /\ x.who \in AffectedBy(x.role) /\ x.who \notin x.todo
    BY <1>1, <2>1 DEF Turned, Ahead, AtHand
  <2>3. row \in Seen(t)
    BY <2>1, <2>2 DEF Turned, AffectedBy, Seen
  <2> DEFINE z == [x EXCEPT !.removed = @ \cup {row}, !.stage = "count"]
  <2>4. z \in Transaction
    BY <1>1, <1>2 DEF Transaction, InFlight
  <2>5. Become(t, z)
    BY <1>1, <1>3, <2>3 DEF RemoveRow, Transaction
  <2>6. /\ z.removed = x.removed \cup {row} /\ z.stage = "count" /\ z.op = x.op
        /\ z.role = x.role /\ z.todo = x.todo /\ z.who = x.who /\ z.fell = x.fell
        /\ z.added = x.added /\ z.created = x.created
    BY <1>1 DEF Transaction
  <2> HIDE DEF z
  <2>7. Ahead(z) = x.todo /\ AtHand(z) = {x.who}
    BY <2>6 DEF Ahead, AtHand
  <2>8. z.removed = (AffectedBy(x.role) \ x.todo) \X {x.role}
    BY <2>1, <2>2, <2>6 DEF Turned
  <2>9. z.fell = (LosersOf(x.role) \ x.todo) \ {x.who}
    BY <2>1, <2>2, <2>6 DEF Turned
  <2>10. Turned(t, z)
    BY <1>1, <2>1, <2>2, <2>6, <2>7, <2>8, <2>9 DEF Turned
  <2>11. Progress(t, z)
    BY <1>3, <2>1, <2>6, <2>10 DEF Progress
  <2> QED
    BY <1>1, <2>4, <2>5, <2>11, BecomeProgress DEF Become
<1>4. CASE x.op = "remove" /\ row \in Seen(t)
  <2> DEFINE z == [x EXCEPT !.removed = @ \cup {row}, !.stage = "commit"]
  <2>1. x.removed = {} /\ x.added = {}
    BY <1>1, <1>4 DEF Progress, Shape
  <2>2. z \in Transaction
    BY <1>1, <1>2 DEF Transaction, InFlight
  <2>3. Become(t, z)
    BY <1>1, <1>4 DEF RemoveRow, Transaction
  <2>4. /\ z.removed = {row} /\ z.stage = "commit" /\ z.op = "remove" /\ z.role = x.role
        /\ z.who = x.who
    BY <1>1, <1>4, <2>1 DEF Transaction
  <2> HIDE DEF z
  <2>5. Progress(t, z)
    BY <1>4, <2>1, <2>4 DEF Progress, Seen, Looping
  <2> QED
    BY <1>1, <2>2, <2>3, <2>5, BecomeProgress DEF Become
<1>5. CASE x.op = "remove" /\ row \notin Seen(t)
  <2>1. Fail(t)
    BY <1>5 DEF RemoveRow
  <2> QED
    BY <1>1, <2>1, FailSerial
<1> QED
  BY <1>1, <1>3, <1>4, <1>5 DEF Transaction

LEMMA CountRolesSerial ==
  ASSUME IInv, SerialInv, NEW t \in Txn, Others(t) = {}, CountRoles(t)
  PROVE  SerialInv'
<1> DEFINE x == tx[t]
<1>1. x.stage = "count" /\ x.op = "delete"
  BY DEF CountRoles, At, IInv, Shapes, Shape
<1>2. /\ TypeOK /\ x \in Transaction /\ Turned(t, x) /\ x.role \in roles
      /\ x.who \in User /\ Shape(t, x)
  BY <1>1, InLoop DEF Looping, Shape
<1>3. /\ Ahead(x) = x.todo /\ AtHand(x) = {x.who} /\ x.who \in AffectedBy(x.role)
      /\ x.who \notin x.todo
  BY <1>1, <1>2 DEF Turned, Ahead, AtHand
<1>4. <<x.who, x.role>> \in x.removed /\ \A k \in Key : <<x.who, k>> \notin x.added
  BY <1>2, <1>3 DEF Turned
<1>5. CASE \E k \in Key : <<x.who, k>> \in Seen(t)
  <2>1. PICK y \in Loop(x) : Become(t, y)
    BY <1>5 DEF CountRoles
  <2>2. x.who \notin LosersOf(x.role)
    BY <1>4, <1>5 DEF Seen, LosersOf
  <2>3. x.fell = LosersOf(x.role) \ x.todo
    BY <1>2, <1>3, <2>2 DEF Turned
  <2>4. /\ x.todo \subseteq AffectedBy(x.role)
        /\ x.removed = (AffectedBy(x.role) \ x.todo) \X {x.role}
        /\ x.added = x.fell \X Fallback(t)
        /\ (x.created <=> GuestRoles = {} /\ x.fell # {})
    BY <1>1, <1>2, <1>3 DEF Turned
  <2>5. Progress(t, y) /\ y \in Transaction
    BY <1>1, <1>2, <2>1, <2>3, <2>4, LoopProgress, LoopFields
  <2> QED
    BY <1>2, <2>1, <2>5, BecomeProgress DEF Become
<1>6. CASE ~\E k \in Key : <<x.who, k>> \in Seen(t)
  <2> DEFINE y == [x EXCEPT !.stage = "find"]
  <2>1. Become(t, y)
    BY <1>6 DEF CountRoles
  <2>2. y \in Transaction
    BY <1>2 DEF Transaction, InFlight
  <2>3. /\ y.stage = "find" /\ y.op = x.op /\ y.role = x.role /\ y.who = x.who
        /\ y.todo = x.todo /\ y.removed = x.removed /\ y.added = x.added /\ y.fell = x.fell
        /\ y.created = x.created
    BY <1>2 DEF Transaction
  <2> HIDE DEF y
  <2>4. x.who \in LosersOf(x.role)
    BY <1>2, <1>3, <1>6 DEF Seen, LosersOf, Turned
  <2>5. Ahead(y) = Ahead(x) /\ AtHand(y) = AtHand(x)
    BY <1>1, <2>3 DEF Ahead, AtHand
  <2>6. Turned(t, y)
    BY <1>1, <1>2, <2>3, <2>4, <2>5 DEF Turned
  <2>7. Progress(t, y)
    BY <1>1, <1>2, <2>3, <2>6 DEF Progress
  <2> QED
    BY <1>2, <2>1, <2>2, <2>7, BecomeProgress DEF Become
<1> QED
  BY <1>5, <1>6

(* The fallback role is found or created when the first loser needs it,    *)
(* and found again by the next.                                            *)
LEMMA FindGuestSerial ==
  ASSUME IInv, SerialInv, NEW t \in Txn, Others(t) = {}, FindGuest(t) \/ CreateGuest(t)
  PROVE  SerialInv'
<1> DEFINE x == tx[t]
<1>1. x.stage \in {"find", "create"} /\ x.op = "delete"
  BY DEF FindGuest, CreateGuest, At, IInv, Shapes, Shape
<1>2. /\ TypeOK /\ x \in Transaction /\ Turned(t, x) /\ x.role \in roles
      /\ Shape(t, x) /\ ~x.dropped
  BY <1>1, InLoop DEF Looping
<1>3. ASSUME NEW y \in Transaction, Become(t, y), Turned(t, y), y.op = "delete",
             y.role = x.role, y.stage \in Looping
      PROVE  SerialInv'
  <2>1. Progress(t, y)
    BY <1>2, <1>3 DEF Progress, Looping
  <2> QED
    BY <1>2, <1>3, <2>1, BecomeProgress DEF Become
<1>4. RolesSeen(t) = roles \cup IF x.created THEN {t} ELSE {}
  BY <1>2 DEF RolesSeen
<1>5. IsGuest(t)
  BY DEF IsGuest
<1>6. ASSUME NEW g \in RolesSeen(t), IsGuest(g), FindGuest(t),
             Become(t, [x EXCEPT !.target = g, !.stage = "check"])
      PROVE  SerialInv'
  <2> DEFINE y == [x EXCEPT !.target = g, !.stage = "check"]
  <2>1. g \in Fallback(t) /\ g \in Key
    BY <1>2, <1>4, <1>6 DEF Turned, Fallback, GuestRoles, TypeOK, Key
  <2>2. y \in Transaction
    BY <1>2, <2>1 DEF Transaction, InFlight
  <2>3. /\ y.stage = "check" /\ y.target = g /\ y.op = x.op /\ y.role = x.role
        /\ y.who = x.who /\ y.todo = x.todo /\ y.removed = x.removed /\ y.added = x.added
        /\ y.fell = x.fell /\ y.created = x.created
    BY <1>2 DEF Transaction
  <2>4. Become(t, y)
    BY <1>6
  <2> HIDE DEF y
  <2>5. Ahead(y) = Ahead(x) /\ AtHand(y) = AtHand(x)
    BY <1>1, <2>3 DEF Ahead, AtHand
  <2>6. y.created <=> GuestRoles = {}
    BY <1>1, <1>2, <1>4, <1>6, <2>3 DEF Turned, GuestRoles
  <2>7. Turned(t, y)
    BY <1>1, <1>2, <2>1, <2>3, <2>5, <2>6 DEF Turned
  <2> QED
    BY <1>1, <1>3, <2>2, <2>3, <2>4, <2>7 DEF Looping
<1>7. CASE FindGuest(t) /\ \A g \in RolesSeen(t) : ~IsGuest(g)
  <2> DEFINE y == [x EXCEPT !.stage = "create"]
  <2>1. Become(t, y)
    BY <1>7 DEF FindGuest
  <2>2. y \in Transaction
    BY <1>2 DEF Transaction, InFlight
  <2>3. /\ y.stage = "create" /\ y.op = x.op /\ y.role = x.role
        /\ y.who = x.who /\ y.todo = x.todo /\ y.removed = x.removed /\ y.added = x.added
        /\ y.fell = x.fell /\ y.created = x.created
    BY <1>2 DEF Transaction
  <2> HIDE DEF y
  <2>5. Ahead(y) = Ahead(x) /\ AtHand(y) = AtHand(x)
    BY <1>1, <2>3 DEF Ahead, AtHand
  <2>6. Turned(t, y)
    BY <1>1, <1>2, <2>3, <2>5 DEF Turned
  <2> QED
    BY <1>1, <1>3, <2>1, <2>2, <2>3, <2>6 DEF Looping
<1>8. CASE CreateGuest(t) /\ GuestRoles = {}
  <2> DEFINE y == [x EXCEPT !.created = TRUE, !.target = t, !.stage = "check"]
  <2>1. Become(t, y)
    BY <1>8 DEF CreateGuest, GuestRoles
  <2>2. y \in Transaction
    BY <1>2 DEF Transaction, InFlight, Key
  <2>3. /\ y.stage = "check" /\ y.target = t /\ y.created /\ y.op = x.op /\ y.role = x.role
        /\ y.who = x.who /\ y.todo = x.todo /\ y.removed = x.removed /\ y.added = x.added
        /\ y.fell = x.fell
    BY <1>2 DEF Transaction
  <2> HIDE DEF y
  <2>5. Ahead(y) = Ahead(x) /\ AtHand(y) = AtHand(x) /\ t \in Fallback(t)
    BY <1>1, <1>8, <2>3 DEF Ahead, AtHand, Fallback
  <2>6. Turned(t, y)
    BY <1>1, <1>2, <1>8, <2>3, <2>5 DEF Turned
  <2> QED
    BY <1>1, <1>3, <2>1, <2>2, <2>3, <2>6 DEF Looping
<1>9. CASE CreateGuest(t) /\ GuestRoles # {}
  <2>1. Fail(t)
    BY <1>9 DEF CreateGuest, GuestRoles
  <2> QED
    BY <1>2, <2>1, FailSerial
<1> QED
  BY <1>6, <1>7, <1>8, <1>9 DEF FindGuest

(* A loser has no row left, so that the guest role is always inserted.     *)
LEMMA NoRowLeft ==
  ASSUME IInv, SerialInv, NEW t \in Txn, tx[t].op = "delete",
         tx[t].stage \in {"check", "insert"}
  PROVE  /\ <<tx[t].who, tx[t].target>> \notin Seen(t)
         /\ tx[t].target \in RolesSeen(t)
         /\ Fallback(t) = {tx[t].target}
<1> DEFINE x == tx[t]
<1>1. TypeOK /\ Turned(t, x) /\ x.role \in roles /\ ~x.dropped /\ Shape(t, x)
  BY InLoop DEF Looping
<1>2. /\ x.who \in LosersOf(x.role) /\ x.target \in Fallback(t) /\ x.target \in Key
      /\ AtHand(x) = {x.who} /\ Ahead(x) = x.todo /\ x.who \notin x.todo
      /\ x.who \in AffectedBy(x.role)
  BY <1>1 DEF Turned, AtHand, Ahead, Shape, LosersOf
<1>3. <<x.who, x.role>> \in x.removed /\ <<x.who, x.target>> \notin x.added
  BY <1>1, <1>2 DEF Turned
<1>4. <<x.who, x.target>> \notin Seen(t)
  BY <1>2, <1>3 DEF Seen, LosersOf
<1>5. x.target \in RolesSeen(t)
  BY <1>1, <1>2 DEF Turned, RolesSeen, Fallback, GuestRoles
<1>6. Fallback(t) = {x.target}
  BY <1>2 DEF Fallback, GuestRoles, IInv, OneGuest
<1> QED
  BY <1>4, <1>5, <1>6

LEMMA CheckRowSerial ==
  ASSUME IInv, SerialInv, NEW t \in Txn, Others(t) = {}, CheckRow(t)
  PROVE  SerialInv'
<1> DEFINE x == tx[t]
           y == [x EXCEPT !.stage = "insert"]
<1>1. /\ TypeOK /\ x \in Transaction /\ Shape(t, x) /\ Progress(t, x) /\ x.stage = "check"
      /\ x.op # "remove"
  BY DEF IInv, TypeOK, Shapes, SerialInv, CheckRow, At, Shape
<1>2. y \in Transaction
  BY <1>1 DEF Transaction, InFlight
<1>3. /\ y.stage = "insert" /\ y.op = x.op /\ y.role = x.role /\ y.target = x.target
      /\ y.who = x.who /\ y.todo = x.todo /\ y.removed = x.removed /\ y.added = x.added
      /\ y.fell = x.fell /\ y.created = x.created
  BY <1>1 DEF Transaction
<1>4. <<x.who, x.target>> \notin Seen(t) => Become(t, y)
  BY DEF CheckRow
<1> HIDE DEF y
<1>5. CASE x.op = "delete"
  <2>1. Turned(t, x) /\ x.role \in roles
    BY <1>1, <1>5, InLoop DEF Looping
  <2>2. Ahead(y) = Ahead(x) /\ AtHand(y) = AtHand(x)
    BY <1>1, <1>3 DEF Ahead, AtHand
  <2>3. Turned(t, y)
    BY <1>1, <1>3, <2>1, <2>2 DEF Turned
  <2>4. Progress(t, y)
    BY <1>3, <1>5, <2>1, <2>3 DEF Progress
  <2>5. Become(t, y)
    BY <1>1, <1>4, <1>5, NoRowLeft
  <2> QED
    BY <1>1, <1>2, <2>4, <2>5, BecomeProgress DEF Become
<1>6. CASE x.op = "assign" /\ <<x.who, x.target>> \notin Seen(t)
  <2>1. Progress(t, y)
    BY <1>1, <1>3, <1>6 DEF Progress, InFlight
  <2> QED
    BY <1>1, <1>2, <1>4, <1>6, <2>1, BecomeProgress DEF Become
<1>7. CASE x.op = "assign" /\ <<x.who, x.target>> \in Seen(t)
  <2>1. Fail(t)
    BY <1>7 DEF CheckRow
  <2> QED
    BY <1>1, <2>1, FailSerial
<1> QED
  BY <1>1, <1>5, <1>6, <1>7 DEF Transaction

LEMMA InsertRowSerial ==
  ASSUME IInv, SerialInv, NEW t \in Txn, Others(t) = {}, InsertRow(t)
  PROVE  SerialInv'
<1> DEFINE x == tx[t]
           row == <<x.who, x.target>>
<1>1. /\ TypeOK /\ x \in Transaction /\ Shape(t, x) /\ Progress(t, x) /\ x.stage = "insert"
      /\ x.op # "remove" /\ x.who \in User /\ x.target \in Key
  BY DEF IInv, TypeOK, Shapes, SerialInv, InsertRow, At, Shape
<1>2. row \in Row
  BY <1>1 DEF Row
<1>3. CASE x.op = "delete"
  <2> DEFINE z == [x EXCEPT !.added = @ \cup {row}, !.fell = @ \cup {x.who}]
  <2>1. Turned(t, x) /\ x.role \in roles
    BY <1>1, <1>3, InLoop DEF Looping
  <2>2. row \notin Seen(t) /\ x.target \in RolesSeen(t) /\ Fallback(t) = {x.target}
    BY <1>1, <1>3, NoRowLeft
  <2>3. PICK y \in Loop(z) : Become(t, y)
    <3>1. [[x EXCEPT !.added = @ \cup {row}] EXCEPT !.fell = @ \cup {x.who}] = z
      BY <1>1 DEF Transaction
    <3> QED
      BY <1>3, <2>2, <3>1 DEF InsertRow
  <2>4. z \in Transaction
    BY <1>1, <1>2 DEF Transaction
  <2>5. /\ z.added = x.added \cup {row} /\ z.fell = x.fell \cup {x.who} /\ z.op = x.op
        /\ z.role = x.role /\ z.todo = x.todo /\ z.removed = x.removed
        /\ z.created = x.created
    BY <1>1 DEF Transaction
  <2> HIDE DEF z
  <2>6. Ahead(x) = x.todo /\ AtHand(x) = {x.who}
    BY <1>1 DEF Ahead, AtHand
  <2>7. x.who \in LosersOf(x.role) /\ x.who \notin x.todo
    BY <1>1, <2>1 DEF Turned
  <2>8. z.fell = LosersOf(x.role) \ x.todo
    BY <2>1, <2>5, <2>6, <2>7 DEF Turned
  <2>9. z.added = z.fell \X Fallback(t)
    BY <2>1, <2>2, <2>5 DEF Turned
  <2>10. /\ x.todo \subseteq AffectedBy(x.role)
         /\ x.removed = (AffectedBy(x.role) \ x.todo) \X {x.role}
         /\ (x.created <=> GuestRoles = {})
    BY <1>1, <2>1, <2>6 DEF Turned
  <2>11. Progress(t, y) /\ y \in Transaction
    BY <1>3, <2>1, <2>3, <2>4, <2>5, <2>8, <2>9, <2>10, LoopProgress, LoopFields
  <2> QED
    BY <1>1, <2>3, <2>11, BecomeProgress DEF Become
<1>4. CASE x.op = "assign" /\ row \notin Seen(t) /\ x.target \in RolesSeen(t)
  <2> DEFINE y == [x EXCEPT !.added = @ \cup {row}, !.stage = "commit"]
  <2>1. Become(t, y)
    <3>1. [[x EXCEPT !.added = @ \cup {row}] EXCEPT !.stage = "commit"] = y
      BY <1>1 DEF Transaction
    <3> QED
      BY <1>4, <3>1 DEF InsertRow
  <2>2. y \in Transaction
    BY <1>1, <1>2 DEF Transaction, InFlight
  <2>3. /\ x.target = x.role /\ x.added = {} /\ x.removed = {}
        /\ ~x.created /\ ~x.dropped
    BY <1>1, <1>4 DEF Progress, Shape, InFlight
  <2>4. x.role \in roles /\ row \notin rows
    BY <1>4, <2>3 DEF RolesSeen, Seen
  <2>5. /\ y.stage = "commit" /\ y.op = "assign" /\ y.role = x.role /\ y.target = x.role
        /\ y.who = x.who /\ y.added = {<<x.who, x.role>>}
    BY <1>1, <1>4, <2>3 DEF Transaction
  <2> HIDE DEF y
  <2>6. Progress(t, y)
    BY <1>1, <2>3, <2>4, <2>5 DEF Progress
  <2> QED
    BY <1>1, <2>1, <2>2, <2>6, BecomeProgress DEF Become
<1>5. CASE row \in Seen(t) \/ x.target \notin RolesSeen(t)
  <2>1. Fail(t)
    BY <1>5 DEF InsertRow
  <2> QED
    BY <1>1, <2>1, FailSerial
<1> QED
  BY <1>1, <1>3, <1>4, <1>5 DEF Transaction

LEMMA DropSerial ==
  ASSUME IInv, SerialInv, NEW t \in Txn, Others(t) = {}, DropRole(t) \/ CascadeRow(t)
  PROVE  SerialInv'
<1> DEFINE x == tx[t]
<1>1. /\ TypeOK /\ x \in Transaction /\ Shape(t, x) /\ Progress(t, x)
      /\ x.stage \in {"drop", "cascade"} /\ x.op = "delete" /\ x.role \in roles
  BY DEF IInv, TypeOK, Shapes, SerialInv, DropRole, CascadeRow, At, Shape, Progress, InFlight
<1>2. ASSUME NEW y \in Transaction, Become(t, y), Emptied(t, y), y.op = "delete",
             y.role = x.role, y.stage \in {"cascade", "commit"}
      PROVE  SerialInv'
  <2>1. Progress(t, y)
    BY <1>1, <1>2 DEF Progress, Looping
  <2> QED
    BY <1>1, <1>2, <2>1, BecomeProgress DEF Become
<1>3. CASE DropRole(t)
  <2> DEFINE y == [x EXCEPT !.dropped = TRUE, !.stage = "cascade"]
  <2>1. Become(t, y) /\ x.stage = "drop"
    BY <1>1, <1>3 DEF DropRole, At
  <2>2. y \in Transaction
    BY <1>1 DEF Transaction, InFlight
  <2>3. /\ y.stage = "cascade" /\ y.op = x.op /\ y.role = x.role /\ y.added = x.added
        /\ y.created = x.created
    BY <1>1 DEF Transaction
  <2> HIDE DEF y
  <2>4. Turned(t, x) /\ Ahead(x) = {} /\ AtHand(x) = {}
    BY <1>1, <2>1 DEF Progress, Looping, Ahead, AtHand, Shape
  <2>5. x.added = LosersOf(x.role) \X Fallback(t)
        /\ (x.created <=> GuestRoles = {} /\ LosersOf(x.role) # {})
    BY <2>1, <2>4 DEF Turned
  <2>6. Emptied(t, y)
    BY <2>3, <2>5 DEF Emptied
  <2> QED
    BY <1>1, <1>2, <2>1, <2>2, <2>3, <2>6
<1>4. ASSUME NEW row \in CascadeRows(t), CascadeRow(t),
             Become(t, [x EXCEPT !.removed = @ \cup {row}, !.added = @ \ {row}])
      PROVE  SerialInv'
  <2> DEFINE y == [x EXCEPT !.removed = @ \cup {row}, !.added = @ \ {row}]
  <2>1. x.stage = "cascade" /\ row[2] = x.role /\ row \in Row
    BY <1>1, <1>4 DEF CascadeRow, At, CascadeRows, Seen, TypeOK, Transaction
  <2>2. y \in Transaction
    BY <1>1, <2>1 DEF Transaction
  <2>3. /\ y.stage = "cascade" /\ y.op = x.op /\ y.role = x.role /\ y.added = x.added \ {row}
        /\ y.created = x.created
    BY <1>1, <2>1 DEF Transaction
  <2>4. Become(t, y)
    BY <1>4
  <2> HIDE DEF y
  <2>5. Emptied(t, x)
    BY <1>1, <2>1 DEF Progress
  <2>6. Emptied(t, y)
    BY <2>1, <2>3, <2>5 DEF Emptied
  <2> QED
    BY <1>1, <1>2, <2>2, <2>3, <2>4, <2>6
<1>5. CASE CascadeRow(t) /\ CascadeRows(t) = {}
  <2> DEFINE y == [x EXCEPT !.stage = "commit"]
  <2>1. Become(t, y) /\ x.stage = "cascade"
    BY <1>5 DEF CascadeRow, At
  <2>2. y \in Transaction
    BY <1>1 DEF Transaction, InFlight
  <2>3. /\ y.stage = "commit" /\ y.op = x.op /\ y.role = x.role /\ y.added = x.added
        /\ y.created = x.created
    BY <1>1 DEF Transaction
  <2> HIDE DEF y
  <2>4. Emptied(t, y)
    BY <1>1, <2>1, <2>3 DEF Progress, Emptied
  <2> QED
    BY <1>1, <1>2, <2>1, <2>2, <2>3, <2>4
<1> QED
  BY <1>3, <1>4, <1>5 DEF CascadeRow

(* What a deletion commits: the role and its rows are gone, and the losers *)
(* have the fallback role, unless that is the role that went.              *)
LEMMA DeletionCommits ==
  ASSUME IInv, SerialInv, NEW t \in Txn, Commit(t), tx[t].op = "delete"
  PROVE  AtomicDeletion(tx[t].role)
<1> DEFINE x == tx[t]
           r == x.role
<1>1. /\ TypeOK /\ x \in Transaction /\ Shape(t, x) /\ x.stage = "commit"
      /\ r \in roles /\ Emptied(t, x) /\ x.dropped
  BY DEF IInv, TypeOK, Shapes, SerialInv, Commit, At, Shape, Progress, InFlight
<1>2. PICK g : Fallback(t) = {g}
  <2>1. GuestRoles = {} \/ \E g \in GuestRoles : GuestRoles = {g}
    BY DEF GuestRoles, IInv, OneGuest
  <2> QED
    BY <2>1 DEF Fallback
<1>3. \A row \in Seen(t) : row[2] # r
  BY <1>1 DEF IInv, Locks
<1>4. rows \subseteq Row /\ x.added \subseteq Row /\ g \in Key
  BY <1>1, <1>2 DEF TypeOK, Transaction, Fallback, GuestRoles, Key
<1>5. LosersOf(r) \X {g} \subseteq Row
  BY <1>4 DEF LosersOf, AffectedBy, Row
<1>6. rows' = (rows \cup (LosersOf(r) \X {g})) \ RowsOf(r)
  <2>1. \A row \in Row : row \in RowsOf(r) <=> row[2] = r
    BY DEF Row, RowsOf
  <2>2. \A row \in Row : row[2] # r =>
          (row \in x.added <=> row \in LosersOf(r) \X {g}) /\ row \notin x.removed
    BY <1>1, <1>2 DEF Emptied, Shape
  <2>3. rows' = (rows \ x.removed) \cup x.added
    BY DEF Commit, Seen
  <2>4. \A row \in rows' : row[2] # r
    BY <1>3 DEF Commit
  <2> HIDE DEF r, x
  <2> QED
    BY <1>4, <1>5, <2>1, <2>2, <2>3, <2>4
<1>7. roles' = (roles \cup IF LosersOf(r) = {} THEN {} ELSE {g}) \ {r}
  <2>1. roles' = (roles \ {r}) \cup IF x.created THEN {t} ELSE {}
    BY <1>1 DEF Commit, RolesSeen
  <2>2. IsGuest(t)
    BY DEF IsGuest
  <2>3. CASE GuestRoles = {}
    <3>1. g = t /\ t # r /\ (x.created <=> LosersOf(r) # {})
      BY <1>1, <1>2, <2>2, <2>3 DEF Fallback, GuestRoles, Emptied
    <3> QED
      BY <2>1, <3>1
  <2>4. CASE GuestRoles # {}
    <3>1. g \in roles /\ ~x.created
      BY <1>1, <1>2, <2>4 DEF Fallback, GuestRoles, Emptied
    <3> QED
      BY <2>1, <3>1
  <2> QED
    BY <2>3, <2>4
<1> QED
  BY <1>1, <1>2, <1>6, <1>7 DEF AtomicDeletion

(* The tables change only when a request commits, and then as one step.    *)
LEMMA CommitIsAtomic ==
  ASSUME IInv, SerialInv, NEW t \in Txn, Commit(t)
  PROVE  AtomicNext
<1> DEFINE x == tx[t]
<1>1. /\ TypeOK /\ x \in Transaction /\ Shape(t, x) /\ Progress(t, x) /\ x.stage = "commit"
      /\ x.role \in Key
  BY DEF IInv, TypeOK, Shapes, SerialInv, Commit, At, Shape, InFlight
<1>2. CASE x.op = "delete"
  BY <1>1, <1>2, DeletionCommits DEF AtomicNext
<1>3. CASE x.op = "assign"
  <2>1. /\ x.role \in roles /\ <<x.who, x.role>> \notin rows /\ x.who \in User
        /\ x.added = {<<x.who, x.role>>} /\ x.removed = {} /\ ~x.created /\ ~x.dropped
    BY <1>1, <1>3 DEF Progress, Shape
  <2>2. AtomicAssignment(x.who, x.role)
    BY <2>1 DEF AtomicAssignment, Commit, Seen, RolesSeen
  <2> QED
    BY <1>1, <2>1, <2>2 DEF AtomicNext
<1>4. CASE x.op = "remove"
  <2>1. /\ <<x.who, x.role>> \in rows /\ x.who \in User
        /\ x.removed = {<<x.who, x.role>>} /\ x.added = {} /\ ~x.created /\ ~x.dropped
    BY <1>1, <1>4 DEF Progress, Shape
  <2>2. AtomicRemoval(x.who, x.role)
    BY <2>1 DEF AtomicRemoval, Commit, Seen, RolesSeen
  <2> QED
    BY <1>1, <2>1, <2>2 DEF AtomicNext
<1> QED
  BY <1>1, <1>2, <1>3, <1>4 DEF Transaction

LEMMA SerialStep ==
  ASSUME IInv, SerialInv, [SerialNext]_vars
  PROVE  SerialInv' /\ [AtomicNext]_<<roles, rows>>
<1>0. TypeOK
  BY DEF IInv
<1>1. CASE UNCHANGED vars
  <2>1. UNCHANGED <<roles, rows, tx>>
    BY <1>1 DEF vars
  <2>2. \A t \in Txn : Progress(t, tx[t]) => Progress(t, tx[t])'
    BY <2>1 DEF Progress, Turned, Emptied, AffectedBy, LosersOf, Fallback, GuestRoles
  <2> QED
    BY <2>1, <2>2 DEF SerialInv, Alone
<1>2. ASSUME NEW t \in Txn, Others(t) = {},
             BeginDeletion(t) \/ BeginAssignment(t) \/ BeginRemoval(t)
      PROVE  SerialInv' /\ UNCHANGED <<roles, rows>>
  BY <1>0, <1>2, BeginSerial DEF BeginDeletion, BeginAssignment, BeginRemoval, Become
<1>3. ASSUME NEW t \in Txn, Others(t) = {}, Abort(t)
      PROVE  SerialInv' /\ UNCHANGED <<roles, rows>>
  BY <1>0, <1>3, FailSerial DEF Abort, Fail, Become
<1>4. ASSUME NEW t \in Txn, Others(t) = {}, Commit(t)
      PROVE  SerialInv' /\ AtomicNext
  <2>1. [Fresh EXCEPT !.stage = "done"].stage \notin InFlight
    BY DEF Fresh, InFlight
  <2>2. SerialInv'
    BY <1>0, <1>4, <2>1, FreshType, NobodyRuns DEF Commit
  <2> QED
    BY <1>4, <2>2, CommitIsAtomic
<1>5. ASSUME NEW t \in Txn, Others(t) = {},
             \/ ReadAffected(t) \/ RemoveRow(t) \/ CountRoles(t) \/ FindGuest(t)
             \/ CreateGuest(t) \/ CheckRow(t) \/ InsertRow(t) \/ DropRole(t) \/ CascadeRow(t)
      PROVE  SerialInv' /\ UNCHANGED <<roles, rows>>
  <2>1. SerialInv'
    BY <1>5, ReadAffectedSerial, RemoveRowSerial, CountRolesSerial, FindGuestSerial,
       CheckRowSerial, InsertRowSerial, DropSerial
  <2>2. UNCHANGED <<roles, rows>>
    BY <1>5, StatementQuiet DEF history
  <2> QED
    BY <2>1, <2>2
<1> QED
  BY <1>1, <1>2, <1>3, <1>4, <1>5 DEF SerialNext, Step, vars

(* When no request begins while another is running, the statements of      *)
(* delete_role, assign_role and remove_role amount to one step each on the *)
(* tables roles and user_roles: a deletion takes the role and its rows     *)
(* away and gives every user left without a role the guest role, which it  *)
(* creates when it is missing, or nothing at all happens.                  *)
THEOREM SerialIsAtomic == SerialSpec => AtomicSpec
<1>1. Init => IInv /\ SerialInv
  <2> SUFFICES ASSUME Init PROVE SerialInv
    BY InitHolds
  <2>1. \A t \in Txn : tx[t].stage \notin InFlight
    BY DEF Init, Fresh, InFlight
  <2>2. \A t \in Txn : Progress(t, tx[t])
    BY <2>1 DEF Progress, InFlight, Looping
  <2> QED
    BY <2>1, <2>2 DEF SerialInv, Alone
<1>2. IInv /\ SerialInv /\ [SerialNext]_vars => IInv' /\ SerialInv'
  BY SerialStep, SerialIsNext, StepKeeps
<1>3. IInv /\ SerialInv /\ [SerialNext]_vars => [AtomicNext]_<<roles, rows>>
  BY SerialStep
<1>4. Init => AtomicInit
  BY DEF Init, AtomicInit
<1> QED
  BY <1>1, <1>2, <1>3, <1>4, PTL DEF SerialSpec, AtomicSpec
=============================================================================
