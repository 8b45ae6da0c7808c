---------------------------- MODULE RoleDeletion ----------------------------
(***************************************************************************)
(* delete_role, statement by statement, against other deletions and        *)
(* against assignments and removals of roles by concurrent requests.       *)
(*                                                                         *)
(* A request is one READ COMMITTED transaction; its stage names the        *)
(* statement it is about to run.  A statement sees the committed rows and  *)
(* the transaction's own changes (Seen, RolesSeen).  It waits for a row    *)
(* that another transaction has changed, and a foreign key makes a         *)
(* transaction that inserted a user_roles row hold on to the role until it *)
(* ends (Waits).  The code between two statements runs with the first one. *)
(*                                                                         *)
(* The admin role, which cannot be deleted, and renaming are left out.     *)
(***************************************************************************)
CONSTANTS
  User, Role,
  Guest,          \* the key of the seeded role named guest
  Txn,            \* requests; t is also the key of a guest role t creates
  Deleters,       \* the requests that delete a role
  None

ASSUME KeysAssumption ==
  /\ Guest \in Role
  /\ Role \cap Txn = {}
  /\ Deleters \subseteq Txn
  /\ None \notin User \cup Role \cup Txn

VARIABLES
  roles,       \* the keys in the roles table, as committed
  rows,        \* user_roles, as committed: pairs <<user, role>>
  tx,          \* the transactions
  given,       \* history: users given a role in time, and not asked to give one up since
  late,        \* history: users given a role its deletion did not see, likewise
  deleted,     \* history: roles whose deletion was committed
  overlapped   \* history: a deletion began while another was running

history == <<given, late, deleted, overlapped>>
vars == <<roles, rows, tx, history>>

(* The operators with a suffix after their name are slips someone could    *)
(* make in the operator that follows; no action uses them.                 *)

Key == Role \cup Txn
Row == User \X Key
IsGuest(r) == r = Guest \/ r \in Txn

InFlight == {"affected", "remove", "count", "find", "create", "check", "insert",
             "drop", "cascade", "commit"}

(* A transaction: the role it deletes, assigns or removes; the user it is  *)
(* at and those still to come; the role it assigns; what it has changed.   *)
Transaction ==
  [op : {"delete", "assign", "remove"}, stage : InFlight \cup {"new", "done", "failed"},
   role : Key \cup {None}, who : User \cup {None}, todo : SUBSET User,
   target : Key \cup {None}, added : SUBSET Row, removed : SUBSET Row,
   created : BOOLEAN, dropped : BOOLEAN, fell : SUBSET User]

Fresh ==
  [op |-> "assign", stage |-> "new", role |-> None, who |-> None, todo |-> {},
   target |-> None, added |-> {}, removed |-> {},
   created |-> FALSE, dropped |-> FALSE, fell |-> {}]

TypeOK ==
  /\ roles \subseteq Key
  /\ rows \subseteq Row
  /\ tx \in [Txn -> Transaction]
  /\ given \subseteq User
  /\ late \subseteq User
  /\ deleted \subseteq Key
  /\ overlapped \in BOOLEAN

(* A user may have no role, as create_user makes them; guest may be        *)
(* missing, for it can be deleted.                                         *)
Init ==
  /\ roles \in {Role, Role \ {Guest}}
  /\ rows \in SUBSET (User \X roles)
  /\ tx = [t \in Txn |-> Fresh]
  /\ given = {u \in User : \E r \in roles : <<u, r>> \in rows}
  /\ late = {}
  /\ deleted = {}
  /\ overlapped = FALSE

-----------------------------------------------------------------------------
(* What a statement sees and what it waits for *)

Seen(t) == (rows \ tx[t].removed) \cup tx[t].added

RolesSeen(t) ==
  (roles \ IF tx[t].dropped THEN {tx[t].role} ELSE {}) \cup IF tx[t].created THEN {t} ELSE {}

Others(t) == {s \in Txn : s # t /\ tx[s].stage \in InFlight}

RowBusy(t, row) == \E s \in Others(t) : row \in tx[s].added \cup tx[s].removed

Dropping(t, r) == \E s \in Others(t) : tx[s].dropped /\ tx[s].role = r

Referred_Never(t, r) == FALSE

(* Another transaction holds the FOR KEY SHARE lock of a foreign key on r. *)
Referred(t, r) == \E s \in Others(t), u \in User : <<u, r>> \in tx[s].added

(* Another transaction has inserted or deleted a role named guest.         *)
GuestBusy(t) ==
  \E s \in Others(t) : tx[s].created \/ (tx[s].dropped /\ IsGuest(tx[s].role))

CascadeRows_None(t) == {}

(* ON DELETE CASCADE of user_roles.role_id.                                *)
CascadeRows(t) == {row \in Seen(t) : row[2] = tx[t].role}

Waits(t) ==
  LET x == tx[t]
  IN  \/ x.stage = "remove" /\ <<x.who, x.role>> \in rows /\ RowBusy(t, <<x.who, x.role>>)
      \/ x.stage = "create" /\ GuestBusy(t)
      \/ x.stage = "insert" /\ (RowBusy(t, <<x.who, x.target>>) \/ Dropping(t, x.target))
      \/ x.stage = "drop" /\ (Dropping(t, x.role) \/ Referred(t, x.role))
      \/ x.stage = "cascade" /\ CascadeRows(t) # {} /\ \A row \in CascadeRows(t) : RowBusy(t, row)

-----------------------------------------------------------------------------
(* Steps *)

At(t, s) == tx[t].stage = s /\ ~Waits(t)

Become(t, x) == tx' = [tx EXCEPT ![t] = x] /\ UNCHANGED <<roles, rows, history>>

Fail(t) == Become(t, [Fresh EXCEPT !.stage = "failed"])

(* The loop of delete_role: the next affected user, in the order the       *)
(* database returned them, or the deletion of the role.                    *)
Loop(x) ==
  IF x.todo = {} THEN {[x EXCEPT !.stage = "drop"]}
  ELSE {[x EXCEPT !.stage = "remove", !.who = u, !.todo = @ \ {u}] : u \in x.todo}

(* The role, and for an assignment the user, were looked up and found.     *)
BeginDeletion(t) ==
  /\ t \in Deleters /\ tx[t].stage = "new"
  /\ \E r \in roles :
       tx' = [tx EXCEPT ![t] = [Fresh EXCEPT !.op = "delete", !.role = r, !.stage = "affected"]]
  /\ overlapped' = (overlapped \/ \E s \in Others(t) : tx[s].op = "delete")
  /\ UNCHANGED <<roles, rows, given, late, deleted>>

BeginAssignment(t) ==
  /\ t \notin Deleters /\ tx[t].stage = "new"
  /\ \E r \in roles, u \in User :
       Become(t, [Fresh EXCEPT !.op = "assign", !.who = u, !.role = r, !.target = r,
                               !.stage = "check"])

BeginRemoval(t) ==
  /\ t \notin Deleters /\ tx[t].stage = "new"
  /\ \E r \in roles, u \in User :
       Become(t, [Fresh EXCEPT !.op = "remove", !.who = u, !.role = r, !.stage = "remove"])

ReadAffected_WholeRows(t) ==
  /\ At(t, "affected")
  /\ \E x \in Loop([tx[t] EXCEPT !.todo = {row \in Seen(t) : row[2] = tx[t].role}]) :
       Become(t, x)

ReadAffected(t) ==
  /\ At(t, "affected")
  /\ \E x \in Loop([tx[t] EXCEPT !.todo = {u \in User : <<u, tx[t].role>> \in Seen(t)}]) :
       Become(t, x)

RemoveRow_MustDelete(t) ==
  /\ At(t, "remove")
  /\ LET row == <<tx[t].who, tx[t].role>>
         x == [tx[t] EXCEPT !.removed = @ \cup {row}]
     IN  row \in Seen(t) /\ Become(t, [x EXCEPT !.stage = IF tx[t].op = "delete" THEN "count"
                                                          ELSE "commit"])

(* crud.user.remove_role; a row that is gone is no error to delete_role.   *)
RemoveRow(t) ==
  /\ At(t, "remove")
  /\ LET row == <<tx[t].who, tx[t].role>>
         x == [tx[t] EXCEPT !.removed = IF row \in Seen(t) THEN @ \cup {row} ELSE @]
     IN  IF tx[t].op = "delete" THEN Become(t, [x EXCEPT !.stage = "count"])
         ELSE IF row \in Seen(t) THEN Become(t, [x EXCEPT !.stage = "commit"])
         ELSE Fail(t)

CountRoles_IgnoreOwn(t) ==
  /\ At(t, "count")
  /\ IF \E r \in Key : <<tx[t].who, r>> \in rows
     THEN \E x \in Loop(tx[t]) : Become(t, x)
     ELSE Become(t, [tx[t] EXCEPT !.stage = "find"])

CountRoles(t) ==
  /\ At(t, "count")
  /\ IF \E r \in Key : <<tx[t].who, r>> \in Seen(t)
     THEN \E x \in Loop(tx[t]) : Become(t, x)
     ELSE Become(t, [tx[t] EXCEPT !.stage = "find"])

FindGuest(t) ==
  /\ At(t, "find")
  /\ \/ \E g \in RolesSeen(t) :
          IsGuest(g) /\ Become(t, [tx[t] EXCEPT !.target = g, !.stage = "check"])
     \/ /\ \A g \in RolesSeen(t) : ~IsGuest(g)
        /\ Become(t, [tx[t] EXCEPT !.stage = "create"])

CreateGuest_NoIndex(t) ==
  /\ At(t, "create")
  /\ Become(t, [tx[t] EXCEPT !.created = TRUE, !.target = t, !.stage = "check"])

(* roles.name is unique: a guest role committed meanwhile is a violation.  *)
CreateGuest(t) ==
  /\ At(t, "create")
  /\ IF \E g \in roles : IsGuest(g)
     THEN Fail(t)
     ELSE Become(t, [tx[t] EXCEPT !.created = TRUE, !.target = t, !.stage = "check"])

(* crud.user.assign_role: look for the row, then insert it.                *)
CheckRow(t) ==
  /\ At(t, "check")
  /\ IF <<tx[t].who, tx[t].target>> \notin Seen(t)
     THEN Become(t, [tx[t] EXCEPT !.stage = "insert"])
     ELSE IF tx[t].op = "delete" THEN \E x \in Loop(tx[t]) : Become(t, x)
     ELSE Fail(t)

(* The primary key and the foreign key reject what others committed.       *)
InsertRow(t) ==
  /\ At(t, "insert")
  /\ LET row == <<tx[t].who, tx[t].target>>
         x == [tx[t] EXCEPT !.added = @ \cup {row}]
     IN  IF row \in Seen(t) \/ tx[t].target \notin RolesSeen(t) THEN Fail(t)
         ELSE IF tx[t].op = "assign" THEN Become(t, [x EXCEPT !.stage = "commit"])
         ELSE \E y \in Loop([x EXCEPT !.fell = @ \cup {tx[t].who}]) : Become(t, y)

(* A role that another request deleted meanwhile: 404 and rollback.        *)
DropRole(t) ==
  /\ At(t, "drop")
  /\ IF tx[t].role \in roles
     THEN Become(t, [tx[t] EXCEPT !.dropped = TRUE, !.stage = "cascade"])
     ELSE Fail(t)

CascadeRow(t) ==
  /\ At(t, "cascade")
  /\ \/ \E row \in CascadeRows(t) :
          /\ ~RowBusy(t, row)
          /\ Become(t, [tx[t] EXCEPT !.removed = @ \cup {row}, !.added = @ \ {row}])
     \/ CascadeRows(t) = {} /\ Become(t, [tx[t] EXCEPT !.stage = "commit"])

(* The deletion of the role that t assigns, if one is running, has yet to  *)
(* read the users of the role.                                             *)
InTime(t) ==
  \A s \in Others(t) :
    tx[s].op = "delete" /\ tx[s].role = tx[t].role => tx[s].stage = "affected"

(* The user of an assignment or a removal; a deletion is nobody's.         *)
Subject(t, op) == IF tx[t].op = op THEN {tx[t].who} ELSE {}

Commit(t) ==
  /\ At(t, "commit")
  /\ rows' = Seen(t)
  /\ roles' = RolesSeen(t)
  /\ given' = (given \ Subject(t, "remove")) \cup IF InTime(t) THEN Subject(t, "assign") ELSE {}
  /\ late' = (late \ Subject(t, "remove")) \cup IF InTime(t) THEN {} ELSE Subject(t, "assign")
  /\ deleted' = deleted \cup IF tx[t].dropped THEN {tx[t].role} ELSE {}
  /\ tx' = [tx EXCEPT ![t] = [Fresh EXCEPT !.stage = "done"]]
  /\ UNCHANGED overlapped

(* The connection is lost, the process dies.                               *)
Abort(t) == tx[t].stage \in InFlight /\ Fail(t)

(* Everyone waits for someone: the database picks a victim.                *)
BreakDeadlock(t) ==
  /\ \A s \in Txn : tx[s].stage \in InFlight => Waits(s)
  /\ Abort(t)

Step(t) ==
  \/ ReadAffected(t) \/ RemoveRow(t) \/ CountRoles(t) \/ FindGuest(t) \/ CreateGuest(t)
  \/ CheckRow(t) \/ InsertRow(t) \/ DropRole(t) \/ CascadeRow(t) \/ Commit(t)

Next ==
  \E t \in Txn :
    BeginDeletion(t) \/ BeginAssignment(t) \/ BeginRemoval(t) \/ Step(t) \/ Abort(t)

Spec == Init /\ [][Next]_vars

(* The event loop resumes a request whose statement has returned, and      *)
(* PostgreSQL's deadlock detector ends every cycle of waits.               *)
Fairness ==
  /\ \A t \in Txn : WF_vars(Step(t))
  /\ WF_vars(\E t \in Txn : BreakDeadlock(t))

FairSpec == Spec /\ Fairness

-----------------------------------------------------------------------------
(* Properties *)

Holds(u) == \E r \in roles : <<u, r>> \in rows

(* While deletions do not overlap and nobody deletes a guest role, whoever *)
(* loses the last role to a deletion has got guest instead: every user who *)
(* was given a role, before its deletion read its users if it is being     *)
(* deleted, still has one, whatever else is assigned or removed meanwhile. *)
NobodyDropped ==
  ~overlapped /\ (\A r \in deleted : ~IsGuest(r)) => \A u \in given : Holds(u)

(* A user that a committed deletion moved to the guest role holds it, and  *)
(* the role exists, even if another request was deleting it meanwhile.     *)
FallbackSurvives ==
  [][\A t \in Txn : tx[t].stage = "commit" /\ tx'[t].stage = "done" /\ ~IsGuest(tx[t].role) =>
       \A u \in tx[t].fell : \E g \in roles' : IsGuest(g) /\ <<u, g>> \in rows']_vars

(* Deletions that find no guest role at the same time do not create two.   *)
OneGuest == \A g, h \in roles : IsGuest(g) /\ IsGuest(h) => g = h

(* What was committed refers to roles that exist.                          *)
NoOrphanRow == \A row \in rows : row[2] \in roles

(* Every request ends, those that wait for each other included.            *)
Answered == \A t \in Txn : tx[t].stage \in InFlight ~> tx[t].stage \in {"done", "failed"}

-----------------------------------------------------------------------------
(* What the documentation says, and the code does not do *)

(* "Users who lose their only role will be assigned to 'guest' role",      *)
(* overlapping deletions included.                                         *)
AlwaysFallsBack ==
  (\A r \in deleted : ~IsGuest(r)) => \A u \in given : Holds(u)

(* The same of a single deletion, users included who were assigned the     *)
(* role after the deletion had read its users: the cascade takes it away.  *)
LateAssignmentFallsBack ==
  ~overlapped /\ (\A r \in deleted : ~IsGuest(r)) => \A u \in late : Holds(u)
=============================================================================
