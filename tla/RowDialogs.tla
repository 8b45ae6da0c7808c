----------------------------- MODULE RowDialogs -----------------------------
(* The pages that list records and change them in dialogs: UsersPage, RolesPage,
   GroupsPage, PermissionsPage, ResourcesPage, with their create, edit and delete dialogs.
   What a page offers follows the permissions of the user in the Redux store, read when the
   user logged in; what the server accepts follows the permissions the user has by now.

   Each behaviour is about one page and one session. The roles' own create and edit dialogs
   are those of RelationEditor. *)
EXTENDS Naturals, FiniteSets

CONSTANTS Row,        \* records that exist or may be created
          Value,      \* their unique names (of users, the address)
          Reserved,   \* by page, the names whose records the services protect
          Logins,     \* the permissions a user may log in with
          MaxCalls,   \* bound: requests under way
          MaxPresses, \* bound: requests the user sends
          MaxUpsets,  \* bound: changes by others, and requests that fail by chance
          None, Unborn

Screens == {"users", "roles", "groups", "permissions", "resources"}
Ops == {"create", "edit", "delete"}
Actions == {"read", "write", "delete", "admin"}

\* Why the server rejects a request, and "lost" when there is no answer.
Reasons == {"forbidden", "gone", "protected", "members", "duplicate", "lost"}
Call == [op : Ops, row : Row \cup {None}, value : Value \cup {None}, own : BOOLEAN,
         left : BOOLEAN, doubt : BOOLEAN, stage : {"sent", "done"} \cup Reasons]
Form == [row : Row, base : Value, doubt : BOOLEAN]
Question == [row : Row, full : BOOLEAN, doubt : BOOLEAN]

ASSUME DialogConstants ==
  /\ {MaxCalls, MaxPresses, MaxUpsets} \subseteq Nat
  /\ Reserved \in [Screens -> SUBSET Value]
  /\ Logins \subseteq SUBSET Actions
  /\ None \notin Value \cup Row \cup Call \cup Form \cup Question
  /\ Unborn \notin Value \cup {None}

Record == Value \cup {None, Unborn}
Snapshot == [rows : [Row -> Record], full : SUBSET Row]

ASSUME NoSnapshot == None \notin Snapshot

VARIABLES screen,
          self,       \* on the users page, the user's own record
          held,       \* permissions of the user in the Redux store, for this page's records
          granted,    \* permissions of the user at the server
          regranted,  \* history: they were changed since the login
          server,     \* the records: a name, None once deleted, Unborn before they exist
          members,    \* the groups that have members
          list,       \* data of the page's query
          aged,       \* the list may be behind: another client changed records since it
                      \* was read, or it could not be read again
          fetch,      \* the query's last request: [stage, got, aged]
          stale,      \* an invalidation waits until nothing is under way
          create,     \* the create dialog is open
          edit,       \* the edit dialog: None, or its record, what its form showed of it at first
                      \* and whether that is in doubt: [row, base, doubt]
          delete,     \* the delete dialog: None, or its record, whether the list had members
                      \* for it and whether that is in doubt: [row, full, doubt]
          calls,      \* requests under way, by slot
          presses, upsets \* what the bounds count

rights == <<screen, self, held, granted, regranted>>
data == <<server, members>>
query == <<list, aged, fetch, stale>>
dialogs == <<create, edit, delete>>
vars == <<rights, data, query, dialogs, calls, presses, upsets>>

-----------------------------------------------------------------------------
(* What the pages offer *)

\* hasPermission: the wildcard counts for everything.
HasPermission(action) == {action, "admin"} \cap held # {}
CanView == HasPermission("read")
CanManage == HasPermission("write")
\* Variant of CanDelete: the permission to manage is enough.
CanDelete_Manage == HasPermission("write")
CanDelete == HasPermission("delete")

Managed == IF CanManage THEN {"create", "edit"} ELSE {}
Deleted == IF CanDelete THEN {"delete"} ELSE {}

Shows(r) == list # None /\ list.rows[r] \in Value

\* UsersPage has no guard of its own; a click on a row edits it.
UsersOffer == Managed \cup Deleted

\* RolesPage: the buttons of a role that the list calls admin are disabled.
RolesOffer(r) ==
  IF CanView /\ ~(Shows(r) /\ list.rows[r] \in Reserved["roles"])
  THEN Managed \cup Deleted ELSE {}

GroupsOffer == IF CanView THEN Managed \cup Deleted ELSE {}
PermissionsOffer == IF CanView THEN Managed \cup Deleted ELSE {}
ResourcesOffer == IF CanView THEN Managed \cup Deleted ELSE {}

Offer(r) ==
  CASE screen = "users" -> UsersOffer
    [] screen = "roles" -> RolesOffer(r) \ {"create", "edit"}
    [] screen = "groups" -> GroupsOffer
    [] screen = "permissions" -> PermissionsOffer
    [] screen = "resources" -> ResourcesOffer

Fetch(stage, got, old) == [stage |-> stage, got |-> got, aged |-> old]
Fetching == fetch.stage # "none"

NoDialog == ~create /\ edit = None /\ delete = None

-----------------------------------------------------------------------------
(* Requests *)

Slot == 1..MaxCalls
Pending(op) == {k \in Slot : calls[k] # None /\ calls[k].op = op}

\* isLoading of the dialog's mutation hook. The create dialog stays mounted when it is
\* closed; the others are mounted for one record at a time.
Busy(op) == \E k \in Pending(op) : calls[k].own

\* What the dialogs and requests knew may no longer be so.
InDoubt(d) == IF d = None THEN None ELSE [d EXCEPT !.doubt = TRUE]
AllInDoubt == [k \in Slot |-> InDoubt(calls[k])]

Send(op, row, value, doubt) ==
  \E k \in Slot :
    /\ calls[k] = None /\ \A j \in 1..(k - 1) : calls[j] # None
    /\ calls' = [AllInDoubt EXCEPT ![k] =
         [op |-> op, row |-> row, value |-> value, own |-> TRUE, left |-> FALSE,
          doubt |-> doubt \/ \E j \in Slot : calls[j] # None, stage |-> "sent"]]
    /\ presses < MaxPresses /\ presses' = presses + 1
    /\ UNCHANGED <<rights, data, query, upsets>>

\* The user leaves the dialog: nothing of it waits for its requests, unless it stays mounted.
Leave(op) ==
  calls' = [k \in Slot |->
    IF k \in Pending(op) THEN [calls[k] EXCEPT !.own = (op = "create"), !.left = TRUE]
    ELSE calls[k]]

ByUser == UNCHANGED <<rights, data, query, presses, upsets>>

-----------------------------------------------------------------------------
(* The dialogs *)

\* The "Create" button of the page; the form is reset when the dialog opens.
OpenCreate ==
  /\ NoDialog /\ \E r \in Row : "create" \in Offer(r)
  /\ create' = TRUE /\ UNCHANGED <<edit, delete, calls>> /\ ByUser

\* The form's submit button, disabled while its request is under way. What was typed is
\* chosen here; the fields are required.
SubmitCreate(v) ==
  /\ create /\ ~Busy("create") /\ Send("create", None, v, FALSE)
  /\ UNCHANGED dialogs

\* Cancel, or a click outside. The dialog stays mounted.
CloseCreate ==
  /\ create /\ create' = FALSE /\ Leave("create") /\ UNCHANGED <<edit, delete>> /\ ByUser

\* The record may change before the form is sent, or is not the one the server has.
Doubtful == aged \/ stale \/ Fetching \/ \E k \in Slot : calls[k] # None

\* The "Edit" button of a row: the form is filled with the record of the list.
OpenEdit(r) ==
  /\ NoDialog /\ Shows(r) /\ "edit" \in Offer(r)
  /\ edit' = [row |-> r, base |-> list.rows[r], doubt |-> Doubtful]
  /\ UNCHANGED <<create, delete, calls>> /\ ByUser

\* onSubmit sends every field of the form, typed over or not.
SubmitEdit(v) ==
  /\ edit # None /\ ~Busy("edit") /\ Send("edit", edit.row, v, edit.doubt)
  /\ UNCHANGED dialogs

CloseEdit ==
  /\ edit # None /\ edit' = None /\ Leave("edit") /\ UNCHANGED <<create, delete>> /\ ByUser

\* The "Delete" button of a row. The dialog keeps the row as the list had it.
OpenDelete(r) ==
  /\ NoDialog /\ Shows(r) /\ "delete" \in Offer(r)
  /\ delete' = [row |-> r, full |-> r \in list.full, doubt |-> Doubtful]
  /\ UNCHANGED <<create, edit, calls>> /\ ByUser

\* ConfirmDialog: only DeleteGroupDialog passes isLoading, and disables the button of a
\* group that had members in the list.
DeleteEnabled == screen = "groups" => (~Busy("delete") /\ ~delete.full)

ConfirmDelete ==
  /\ delete # None /\ DeleteEnabled /\ Send("delete", delete.row, None, delete.doubt)
  /\ UNCHANGED dialogs

CloseDelete ==
  /\ delete # None /\ delete' = None /\ Leave("delete")
  /\ UNCHANGED <<create, edit>> /\ ByUser

-----------------------------------------------------------------------------
(* The server *)

Accepts(action) == {action, "admin"} \cap granted # {}

\* The endpoints' permissions; one's own user may always be edited.
Forbidden(c) ==
  /\ ~Accepts(IF c.op = "delete" THEN "delete" ELSE "write")
  /\ ~(c.op = "edit" /\ screen = "users" /\ c.row = self)

IsReserved(r) == server[r] \in Reserved[screen]
Free(v, r) == \A j \in Row : server[j] = v => j = r

\* What the services refuse, by the records as they are now. A name that is taken is looked up
\* (409) or, in updates of users and permissions, left to the unique index; either refuses.
Refusals(c) ==
  {why \in Reasons :
     \/ why = "forbidden" /\ Forbidden(c)
     \/ why = "gone" /\ c.op # "create" /\ server[c.row] \notin Value
     \/ /\ why = "protected" /\ c.op # "create" /\ IsReserved(c.row)
        /\ c.op = "edit" => screen # "users"
     \/ why = "protected" /\ c.op = "delete" /\ screen = "users" /\ c.row = self
     \/ why = "members" /\ c.op = "delete" /\ screen = "groups" /\ c.row \in members
     \/ why = "duplicate" /\ c.op # "delete" /\ ~Free(c.value, c.row)}

At(k, stage) == calls' = [calls EXCEPT ![k].stage = stage]

\* Of several reasons the code names the first it comes to. Only the form of a user has
\* something else the service refuses: deactivating the system administrator.
Refuse(k) ==
  LET c == calls[k]
  IN \E why \in Reasons :
       /\ \/ why \in Refusals(c)
          \/ why = "protected" /\ c.op = "edit" /\ screen = "users" /\ IsReserved(c.row)
       /\ At(k, why) /\ UNCHANGED server

Perform(k) ==
  LET c == calls[k]
  IN /\ Refusals(c) = {}
     /\ \E r \in Row : /\ IF c.op = "create" THEN server[r] = Unborn ELSE r = c.row
                       /\ server' = [server EXCEPT ![r] = c.value]
     /\ At(k, "done")

Serve(k) ==
  /\ calls[k] # None /\ calls[k].stage = "sent"
  /\ Refuse(k) \/ Perform(k)
  /\ UNCHANGED <<rights, members, query, dialogs, presses, upsets>>

\* The request or its answer is lost.
Lose(k) ==
  /\ calls[k] # None /\ calls[k].stage \in {"sent", "done"} /\ upsets < MaxUpsets
  /\ upsets' = upsets + 1 /\ At(k, "lost")
  /\ edit' = InDoubt(edit) /\ delete' = InDoubt(delete)
  /\ UNCHANGED <<rights, data, query, create, presses>>

Other ==
  /\ upsets < MaxUpsets /\ upsets' = upsets + 1
  /\ aged' = TRUE /\ fetch' = [fetch EXCEPT !.aged = (fetch.stage = "served")]
  /\ edit' = InDoubt(edit) /\ delete' = InDoubt(delete) /\ calls' = AllInDoubt
  /\ UNCHANGED <<rights, list, stale, create, presses>>

\* Another client creates, renames or deletes a record, as the services let it. Whether this
\* user is deleted is left to WebSession.
OtherChanges(r, v) ==
  /\ Other /\ server[r] \notin {v, None}
  /\ v \in Value => Free(v, r) /\ (IsReserved(r) => screen = "users")
  /\ v = None => server[r] \in Value /\ ~IsReserved(r) /\ r \notin members /\ r # self
  /\ server' = [server EXCEPT ![r] = v] /\ UNCHANGED members

\* A group gets its first member, or loses the last.
OtherMembers(r) ==
  /\ Other /\ screen = "groups" /\ server[r] \in Value
  /\ members' = (members \ {r}) \cup ({r} \ members) /\ UNCHANGED server

\* The roles of the user change; the Redux store is not told.
Regrant(p) ==
  /\ upsets < MaxUpsets /\ upsets' = upsets + 1
  /\ granted' = (granted \ {p}) \cup ({p} \ granted) /\ regranted' = TRUE
  /\ UNCHANGED <<screen, self, held, data, query, dialogs, calls, presses>>

-----------------------------------------------------------------------------
(* Answers *)

Failed(k) == calls[k].stage \in Reasons

\* Variant of Succeeds: the mutation invalidates no tag.
Succeeds_NoTag(k) ==
  LET op == calls[k].op
  IN /\ calls[k] # None /\ calls[k].stage = "done"
     /\ create' = (create /\ op # "create")
     /\ edit' = IF op = "edit" THEN None ELSE edit
     /\ delete' = IF op = "delete" THEN None ELSE delete
     /\ calls' = [calls EXCEPT ![k] = None]
     /\ UNCHANGED <<rights, data, query, presses, upsets>>

\* The success of a request closes the dialog of its kind, whatever it shows by now.
Succeeds(k) ==
  LET op == calls[k].op
  IN /\ calls[k] # None /\ calls[k].stage = "done" /\ stale' = TRUE
     /\ create' = (create /\ op # "create")
     /\ edit' = IF op = "edit" THEN None ELSE edit
     /\ delete' = IF op = "delete" THEN None ELSE delete
     /\ calls' = [j \in Slot |->
          IF j = k THEN None
          ELSE IF j \in Pending(op) /\ op # "create"
               THEN [calls[j] EXCEPT !.own = FALSE, !.left = (@ \/ calls[k].left)]
          ELSE calls[j]]
     /\ UNCHANGED <<rights, data, list, aged, fetch, presses, upsets>>

\* Variant of Fails: the dialog is closed whatever the answer.
Fails_Closes(k) ==
  /\ calls[k] # None /\ Failed(k) /\ stale' = TRUE
  /\ calls' = [calls EXCEPT ![k] = None]
  /\ create' = FALSE /\ edit' = None /\ delete' = None
  /\ UNCHANGED <<rights, data, list, aged, fetch, presses, upsets>>

\* The catch block: a snackbar, the dialog stays. The tag is invalidated all the same.
Fails(k) ==
  /\ calls[k] # None /\ Failed(k) /\ stale' = TRUE
  /\ calls' = [calls EXCEPT ![k] = None]
  /\ UNCHANGED <<rights, data, list, aged, fetch, dialogs, presses, upsets>>

\* RTK Query refetches once nothing is under way.
Refetch ==
  /\ stale /\ ~Fetching /\ \A k \in Slot : calls[k] = None
  /\ fetch' = Fetch("sent", None, FALSE) /\ stale' = FALSE
  /\ UNCHANGED <<rights, data, list, aged, dialogs, calls, presses, upsets>>

ServeList ==
  /\ fetch.stage = "sent" /\ Accepts("read")
  /\ fetch' = Fetch("served", [rows |-> server, full |-> members], FALSE)
  /\ UNCHANGED <<rights, data, list, aged, stale, dialogs, calls, presses, upsets>>

ListAnswered ==
  /\ fetch.stage = "served" /\ list' = fetch.got /\ aged' = fetch.aged
  /\ fetch' = Fetch("none", None, FALSE)
  /\ UNCHANGED <<rights, data, stale, dialogs, calls, presses, upsets>>

\* The query fails: the page keeps the list it has.
ListFails ==
  /\ fetch.stage = "sent" /\ ~Accepts("read") /\ fetch' = Fetch("none", None, FALSE) /\ aged' = TRUE
  /\ UNCHANGED <<rights, data, list, stale, dialogs, calls, presses, upsets>>

-----------------------------------------------------------------------------
\* The page is opened after a login; the records the services protect exist.
Init ==
  /\ screen \in Screens /\ held \in Logins
  /\ granted = held /\ regranted = FALSE
  /\ server \in [Row -> Value \cup {Unborn}]
  /\ \A r, q \in Row : server[r] = server[q] /\ server[r] # Unborn => r = q
  /\ \A n \in Reserved[screen] : \E r \in Row : server[r] = n
  /\ members \in SUBSET {r \in Row : screen = "groups" /\ server[r] # Unborn}
  /\ IF screen = "users" THEN self \in Row /\ server[self] # Unborn ELSE self = None
  /\ list = None /\ aged = FALSE /\ fetch = Fetch("sent", None, FALSE) /\ stale = FALSE
  /\ create = FALSE /\ edit = None /\ delete = None
  /\ calls = [k \in Slot |-> None] /\ presses = 0 /\ upsets = 0

Press ==
  \/ OpenCreate \/ CloseCreate \/ CloseEdit \/ ConfirmDelete \/ CloseDelete
  \/ \E v \in Value : SubmitCreate(v) \/ SubmitEdit(v)
  \/ \E r \in Row : OpenEdit(r) \/ OpenDelete(r)

Next ==
  \/ Press
  \/ \E k \in Slot : Serve(k) \/ Lose(k) \/ Succeeds(k) \/ Fails(k)
  \/ Refetch \/ ServeList \/ ListAnswered \/ ListFails
  \/ \E r \in Row, v \in Value \cup {None} : OtherChanges(r, v)
  \/ \E r \in Row : OtherMembers(r)
  \/ \E p \in {"read", "write", "delete"} : Regrant(p)

Spec == Init /\ [][Next]_vars

-----------------------------------------------------------------------------
(* Properties *)

\* The variables keep their types.
TypeOK ==
  /\ screen \in Screens /\ self \in Row \cup {None}
  /\ held \in SUBSET Actions /\ granted \in SUBSET Actions /\ regranted \in BOOLEAN
  /\ server \in [Row -> Record] /\ members \in SUBSET Row
  /\ list \in Snapshot \cup {None}
  /\ aged \in BOOLEAN /\ stale \in BOOLEAN /\ create \in BOOLEAN
  /\ fetch \in [stage : {"none", "sent", "served"}, got : Snapshot \cup {None}, aged : BOOLEAN]
  /\ edit \in Form \cup {None} /\ delete \in Question \cup {None}
  /\ calls \in [Slot -> Call \cup {None}]
  /\ presses \in 0..MaxPresses /\ upsets \in 0..MaxUpsets

\* What a page offers the server accepts, as far as the page can know. No request lacks a
\* permission unless the user's permissions changed since the login; RolesPage offers nothing
\* of a protected role, however old its list is (the other pages do offer what their services
\* protect); and no request meets a record that is gone, or a group with members, unless what
\* its dialog showed was in doubt, or another request was under way with it. A name that is
\* taken is the user's to avoid.
OffersAreAccepted ==
  \A k \in Slot : calls[k] # None =>
    /\ calls[k].stage = "forbidden" => regranted
    /\ calls[k].stage = "protected" => screen # "roles"
    /\ calls[k].stage \in {"gone", "members"} => calls[k].doubt

\* An edit form shows the record the server has, or what it has itself sent: saving it undoes
\* nobody's change. The exceptions are those "doubt" records: the list was behind when the
\* form was opened (its own last change not yet read again, or another client's), another
\* client changed records since, or a request was lost on its way.
FormShowsTheRecord ==
  (edit # None /\ ~edit.doubt) =>
    \/ server[edit.row] = edit.base
    \/ \E k \in Pending("edit") : calls[k].own /\ server[edit.row] = calls[k].value

\* The open dialog is the one the request was sent from, or one like it.
ShowsOwn(c) ==
  \/ c.op = "create" /\ create
  \/ c.op = "edit" /\ edit # None /\ edit.row = c.row
  \/ c.op = "delete" /\ delete # None /\ delete.row = c.row

\* What the user typed or is asked to confirm disappears only because the user dismisses it, or
\* because a request for that very record succeeded: neither a late answer nor that of a second
\* press of Delete closes the dialog of another record. The exception is a request whose dialog
\* the user left while it was under way: its success closes the dialog of its kind that is open
\* by then, another record's too.
ClosesItsOwn ==
  [][\A k \in Slot : (calls[k] # None /\ calls'[k] = None /\ dialogs' # dialogs) =>
       calls[k].stage = "done" /\ (calls[k].left \/ ShowsOwn(calls[k]))]_vars
=============================================================================
