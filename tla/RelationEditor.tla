--------------------------- MODULE RelationEditor ---------------------------
(* The screens that edit a set held by the server: the permissions of a role
   (EditRoleDialog, CreateRoleDialog, the chips of RoleDetailPage), the users of
   a role or of a group (RoleDetailPage, GroupDetailPage), the roles of a group
   (GroupDetailPage), the roles and the groups of a user (EditUserDialog).

   Each behaviour is about one such screen, "editor", used by someone who holds
   the permissions it asks for, on a role other than admin. What the user changes
   is sent as one request per item; requests overlap and fail one by one, and the
   query that fills the screen is fetched again once nothing is pending. *)
EXTENDS Naturals, Sequences, FiniteSets

CONSTANTS Item,       \* what the set may contain
          Wildcard,   \* the permission named "admin", when items are permissions
          MaxPresses, \* bound: saves begun and single requests sent, per screen
          MaxUpsets,  \* bound: changes by other clients and requests that fail by chance
          None

Dialogs == {"editRole", "createRole"}
Batches == {"roleUsers", "groupMembers"}
Copies == {"userRoles", "userGroups"}
Editors == Dialogs \cup Batches \cup Copies \cup {"groupRoles", "rolePerms"}

ASSUME ConstantsFit ==
  /\ MaxPresses \in [Editors -> Nat] /\ MaxUpsets \in Nat
  /\ Wildcard \in Item /\ None \notin Item
  /\ \A S \in SUBSET Item : None # S

VARIABLES editor,     \* the screen
          server,     \* the set in the database, None while its role does not exist
          listed,     \* what the screen lists: data of its query, or its own copy
          fetch,      \* the query's last request: [stage, got]
          stale,      \* an invalidation waits until nothing is pending
          picked,     \* selectedPermIds, usersToAdd, selectedRoleToAdd, selectedGroupToAdd
          confirming, \* the item of the open "Remove ...?" dialog
          open,       \* the page, or the dialog, is shown
          calls,      \* mutations sent and not yet handled
          saves,      \* runs of onSubmit and of handleAddUsers
          sent, foreign, faults, \* what the bounds count
          edits,      \* history: items toggled since the selection was last loaded
          emptied,    \* history: the open dialog's list became empty under its selection
          doubled     \* history: a request was sent while an equal one was pending

data == <<listed, fetch, stale>>
selection == <<picked, edits, emptied>>
env == <<foreign, faults>>
vars == <<editor, server, data, selection, confirming, open, calls, saves, sent, env, doubled>>

\* The screens that list the data of a query.
Queried == Editors \ (Copies \cup {"createRole"})

Loaded == listed # None
\* A list that failed to load reads as empty: the default of useQuery's data.
Waiting == ~Loaded /\ fetch.stage # "failed"
Shown == IF Loaded THEN listed ELSE {}
Toggled(S, x) == (S \ {x}) \cup ({x} \ S)
Changed(S, T) == (S \ T) \cup (T \ S)

\* isLoading of a mutation hook: the last request it triggered is pending.
Loading(op) == \E c \in calls : c.op = op /\ c.watched

-----------------------------------------------------------------------------
(* What the screens offer *)

\* RoleDetailPage shows its sections once the queries have ended.
RolePage == editor \in {"roleUsers", "rolePerms"} /\ ~Waiting
\* GroupDetailPage shows its sections once the group is loaded.
GroupPage == editor \in {"groupMembers", "groupRoles"} /\ Loaded

\* Variant of EditRoleChip: the chip of the wildcard stays enabled.
EditRoleChip_Any(x) == editor = "editRole" /\ open /\ ~Waiting
\* EditRoleDialog: a chip per permission, the wildcard's disabled while listed.
EditRoleChip(x) ==
  /\ editor = "editRole" /\ open /\ ~Waiting
  /\ ~(x = Wildcard /\ x \in Shown)

\* CreateRoleDialog: a chip per permission.
CreateRoleChip == editor = "createRole" /\ open

\* The search effect of RoleDetailPage finds users outside the role.
RoleResults == IF Loaded THEN Item \ listed ELSE {}
\* The search effect of GroupDetailPage finds users outside the group.
GroupResults == Item \ Shown

\* RoleDetailPage: the rows of the search.
RoleSearchRow(x) == RolePage /\ editor = "roleUsers" /\ x \in RoleResults
\* GroupDetailPage: the rows of the search.
GroupSearchRow(x) == GroupPage /\ editor = "groupMembers" /\ x \in GroupResults

\* Variant of RoleUserRow: the button stays enabled during a removal.
RoleUserRow_Enabled(x) == RolePage /\ editor = "roleUsers" /\ x \in Shown
\* RoleDetailPage: the remove button of a user of the role.
RoleUserRow(x) ==
  RolePage /\ editor = "roleUsers" /\ x \in Shown /\ ~Loading("remove")

\* GroupDetailPage: the remove button of a member.
GroupMemberRow(x) ==
  GroupPage /\ editor = "groupMembers" /\ x \in listed /\ ~Loading("remove")

\* GroupDetailPage: the remove button of a role of the group.
GroupRoleRow(x) ==
  GroupPage /\ editor = "groupRoles" /\ x \in listed /\ ~Loading("remove")

\* GroupDetailPage: the select of the roles the group lacks.
GroupRoleOption(x) == GroupPage /\ editor = "groupRoles" /\ x \notin listed

\* EditUserDialog: the select of the roles, disabled while one is added.
UserRoleOption(x) ==
  editor = "userRoles" /\ open /\ x \notin listed /\ ~Loading("add")

\* EditUserDialog: the chips of the user's roles, disabled while one is removed.
UserRoleChip(x) ==
  editor = "userRoles" /\ open /\ x \in listed /\ ~Loading("remove")

\* EditUserDialog: the select of the groups; no request disables it.
UserGroupOption(x) == editor = "userGroups" /\ open /\ x \notin listed
\* EditUserDialog: the chips of the user's groups; no request disables them.
UserGroupChip(x) == editor = "userGroups" /\ open /\ x \in listed

\* RoleDetailPage: a chip per permission, the wildcard's disabled while listed.
RolePermChip(x) ==
  RolePage /\ editor = "rolePerms" /\ ~(x = Wildcard /\ x \in Shown)

-----------------------------------------------------------------------------
(* The user selects *)

Select(new, changed) ==
  /\ picked' = new /\ edits' = changed
  /\ UNCHANGED <<editor, server, data, emptied, confirming, open, calls, saves, sent, env,
                 doubled>>

Toggle(x) == Select(Toggled(picked, x), Toggled(edits, x))

\* EditRoleDialog.togglePermission
ToggleRolePermission(x) == EditRoleChip(x) /\ Toggle(x)
\* CreateRoleDialog.togglePermission
ToggleNewPermission(x) == CreateRoleChip /\ Toggle(x)
\* RoleDetailPage.handleUserToggle
ToggleRoleUser(x) == RoleSearchRow(x) /\ Toggle(x)
\* GroupDetailPage.handleUserToggle
ToggleGroupUser(x) == GroupSearchRow(x) /\ Toggle(x)

\* The selects of GroupDetailPage and EditUserDialog hold one item.
ChooseOption(x) ==
  /\ GroupRoleOption(x) \/ UserRoleOption(x) \/ UserGroupOption(x)
  /\ picked # {x}
  /\ Select({x}, {x})

\* The "n selected" chip of RoleDetailPage and of GroupDetailPage.
ClearPicked == editor \in Batches /\ picked # {} /\ Select({}, {})

Confirming(x) ==
  /\ confirming' = x
  /\ UNCHANGED <<editor, server, data, selection, open, calls, saves, sent, env, doubled>>

\* RoleDetailPage.initiateRemoveUser; the confirmation is modal.
AskRoleUser(x) == RoleUserRow(x) /\ confirming = None /\ Confirming(x)
\* GroupDetailPage.initiateRemoveUser
AskMember(x) == GroupMemberRow(x) /\ confirming = None /\ Confirming(x)
\* GroupDetailPage.initiateRemoveRole
AskGroupRole(x) == GroupRoleRow(x) /\ confirming = None /\ Confirming(x)

\* Cancel, or a click outside the confirmation, which a pending removal leaves possible.
DismissRemoval == confirming # None /\ Confirming(None)

-----------------------------------------------------------------------------
(* Requests *)

Pressable == Len(saves) + sent < MaxPresses[editor]
Upsettable == foreign + faults < MaxUpsets

Call(op, x, n, watched) ==
  [op |-> op, item |-> x, by |-> n, phase |-> "sent", watched |-> watched]

\* A request triggered through a hook takes over its isLoading.
Unwatched(C, ops) == {[c EXCEPT !.watched = @ /\ c.op \notin ops] : c \in C}

\* One request for one item, handled on its own.
Send(op, x) ==
  /\ Pressable /\ sent' = sent + 1
  /\ calls' = Unwatched(calls, {op}) \cup {Call(op, x, sent', TRUE)}
  /\ doubled' = (doubled \/ \E c \in calls : c.op = op /\ c.item = x)
  /\ UNCHANGED <<editor, server, data, selection, confirming, open, saves, env>>

\* RoleDetailPage.confirmRemoveUser, GroupDetailPage.confirmRemoveUser and
\* confirmRemoveRole up to the await; the button is disabled while one is removed.
ConfirmRemoval == confirming # None /\ ~Loading("remove") /\ Send("remove", confirming)

\* GroupDetailPage.handleAddRole
AddGroupRole(x) ==
  GroupPage /\ editor = "groupRoles" /\ picked = {x} /\ ~Loading("add")
  /\ Item \ listed # {} /\ Send("add", x)

\* EditUserDialog.handleAddRole
AddUserRole(x) ==
  editor = "userRoles" /\ open /\ picked = {x} /\ ~Loading("add")
  /\ Item \ listed # {} /\ Send("add", x)

\* EditUserDialog.handleRemoveRole
RemoveUserRole(x) == UserRoleChip(x) /\ Send("remove", x)

\* EditUserDialog.handleAddGroup
AddUserGroup(x) ==
  editor = "userGroups" /\ open /\ picked = {x} /\ Item \ listed # {} /\ Send("add", x)

\* EditUserDialog.handleRemoveGroup
RemoveUserGroup(x) == UserGroupChip(x) /\ Send("remove", x)

\* RoleDetailPage.handlePermissionToggle
TogglePermission(x) ==
  RolePermChip(x) /\ Send(IF x \in Shown THEN "remove" ELSE "add", x)

Ongoing == {i \in DOMAIN saves : saves[i].stage \in {"head", "all"}}

\* What the closures of a save captured when the button was pressed.
NewSave(stage, base) ==
  [stage |-> stage, chosen |-> picked, base |-> base, asked |-> edits,
   emptied |-> emptied]

\* onSubmit of EditRoleDialog and of CreateRoleDialog up to the first await.
SubmitWith(base) ==
  /\ open /\ ~Loading("head") /\ Pressable
  /\ saves' = Append(saves, NewSave("head", base))
  /\ calls' = Unwatched(calls, {"head"}) \cup {Call("head", None, Len(saves) + 1, TRUE)}
  /\ UNCHANGED <<editor, server, data, selection, confirming, open, sent, env, doubled>>

\* EditRoleDialog: Save, enabled also before the permissions are loaded.
SubmitRole == editor = "editRole" /\ SubmitWith(Shown)
\* CreateRoleDialog: Create
SubmitNewRole == editor = "createRole" /\ SubmitWith({})

\* The requests of a batch; the hook reports the last one of the iteration.
AddPicked ==
  /\ picked # {} /\ ~Loading("add") /\ Pressable
  /\ saves' = Append(saves, NewSave("all", {}))
  /\ \E last \in picked :
       calls' = Unwatched(calls, {"add"})
                  \cup {Call("add", x, Len(saves) + 1, x = last) : x \in picked}
  /\ UNCHANGED <<editor, server, data, selection, confirming, open, sent, env, doubled>>

\* RoleDetailPage.handleAddUsers
AddRoleUsers == RolePage /\ editor = "roleUsers" /\ AddPicked
\* GroupDetailPage.handleAddUsers
AddMembers == GroupPage /\ editor = "groupMembers" /\ AddPicked

-----------------------------------------------------------------------------
(* The server *)

Accepted(c) ==
  \/ c.op = "head" /\ (editor = "createRole" => server = None)
  \/ c.op = "add" /\ c.item \notin server
  \/ c.op = "remove" /\ c.item \in server

Effect(c) ==
  CASE c.op = "add" -> server \cup {c.item}
    [] c.op = "remove" -> server \ {c.item}
    [] OTHER -> IF editor = "createRole" THEN {} ELSE server

To(c, phase) == calls' = (calls \ {c}) \cup {[c EXCEPT !.phase = phase]}

Serve(c) ==
  /\ c.phase = "sent"
  /\ To(c, IF Accepted(c) THEN "ok" ELSE "bad")
  /\ server' = IF Accepted(c) THEN Effect(c) ELSE server
  /\ UNCHANGED <<editor, data, selection, confirming, open, saves, sent, env, doubled>>

\* The request fails before it has an effect, or its answer is lost after it had.
Fault(c) ==
  /\ c.phase = "sent" /\ Upsettable /\ faults' = faults + 1
  /\ To(c, "bad")
  /\ server' \in {server, IF Accepted(c) THEN Effect(c) ELSE server}
  /\ UNCHANGED <<editor, data, selection, confirming, open, saves, sent, foreign, doubled>>

\* Another client changes the set.
ForeignChange(x) ==
  /\ Upsettable /\ foreign' = foreign + 1
  /\ server # None /\ server' = Toggled(server, x)
  /\ UNCHANGED <<editor, data, selection, confirming, open, calls, saves, sent, faults,
                 doubled>>

-----------------------------------------------------------------------------
(* Answers *)

\* Variant of Invalidate: only a success invalidates.
Invalidate_Success(c) ==
  stale' = (stale \/ (editor \in Queried /\ c.op # "head" /\ c.phase = "ok"))
\* The mutations of the sets invalidate the query on success and on failure.
Invalidate(c) == stale' = (stale \/ (editor \in Queried /\ c.op # "head"))

\* EditRoleDialog is unmounted when it closes, EditUserDialog too.
Mounted(C) == IF editor = "createRole" THEN C ELSE Unwatched(C, {"head", "add", "remove"})

\* onClose of the page, which closes whatever dialog of the kind is open.
Closed(C) ==
  /\ open' = FALSE /\ picked' = {} /\ edits' = {} /\ emptied' = FALSE
  /\ calls' = Mounted(C)

\* Variant of Stage: a failure is not caught.
Stage_Uncaught(i, stage) ==
  saves' = [saves EXCEPT ![i].stage = IF stage = "failed" THEN @ ELSE stage]

Stage(i, stage) == saves' = [saves EXCEPT ![i].stage = stage]

\* Variant of HeadAnswered: what was unchecked is not removed.
HeadAnswered_Adds(c) ==
  LET toAssign == saves[c.by].chosen \ saves[c.by].base
  IN /\ c.op = "head" /\ c.phase = "ok"
     /\ IF toAssign = {} THEN Stage(c.by, "done") /\ Closed(calls \ {c})
        ELSE /\ Stage(c.by, "all")
             /\ calls' = (calls \ {c}) \cup {Call("add", x, c.by, FALSE) : x \in toAssign}
             /\ UNCHANGED <<selection, open>>
     /\ UNCHANGED <<editor, server, data, confirming, sent, env, doubled>>
\* EditRoleDialog.onSubmit after updateRole, CreateRoleDialog.onSubmit after createRole:
\* assign what is chosen and not held, remove what is held and not chosen.
HeadAnswered(c) ==
  LET s == saves[c.by]
      toAssign == s.chosen \ s.base
      toRemove == s.base \ s.chosen
      rest == calls \ {c}
  IN /\ c.op = "head"
     /\ \/ /\ c.phase = "bad" /\ Stage(c.by, "failed")
           /\ calls' = rest
           /\ UNCHANGED <<selection, open>>
        \/ /\ c.phase = "ok" /\ toAssign \cup toRemove # {} /\ Stage(c.by, "all")
           /\ calls' = rest \cup {Call("add", x, c.by, FALSE) : x \in toAssign}
                            \cup {Call("remove", x, c.by, FALSE) : x \in toRemove}
           /\ UNCHANGED <<selection, open>>
        \/ /\ c.phase = "ok" /\ toAssign \cup toRemove = {} /\ Stage(c.by, "done")
           /\ Closed(rest)
     /\ UNCHANGED <<editor, server, data, confirming, sent, env, doubled>>

\* One answer of a Promise.all: the first failure ends it, its other requests go on.
BatchAnswered(c) ==
  LET rest == calls \ {c}
      mates == {d \in rest : d.by = c.by /\ (editor \in Batches => d.op = "add")}
      running == saves[c.by].stage = "all"
  IN /\ c.phase # "sent"
     /\ \/ c.op # "head" /\ editor \in Dialogs
        \/ c.op = "add" /\ editor \in Batches
     /\ Invalidate(c)
     /\ \/ /\ running /\ c.phase = "bad" /\ Stage(c.by, "failed")
           /\ calls' = rest /\ UNCHANGED <<selection, open>>
        \/ /\ running /\ c.phase = "ok" /\ mates = {} /\ Stage(c.by, "done")
           /\ \/ editor \in Dialogs /\ Closed(rest)
              \/ /\ editor \in Batches /\ calls' = rest
                 /\ picked' = {} /\ edits' = {} /\ UNCHANGED <<emptied, open>>
        \/ /\ ~running \/ (c.phase = "ok" /\ mates # {})
           /\ calls' = rest /\ UNCHANGED <<saves, selection, open>>
     /\ UNCHANGED <<editor, server, listed, fetch, confirming, sent, env, doubled>>

\* After the await of confirmRemoveUser and confirmRemoveRole.
RemovalAnswered(c) ==
  /\ c.phase # "sent" /\ c.op = "remove" /\ editor \in Batches \cup {"groupRoles"}
  /\ calls' = calls \ {c} /\ Invalidate(c)
  /\ confirming' = IF c.phase = "ok" THEN None ELSE confirming
  /\ UNCHANGED <<editor, server, listed, fetch, selection, open, saves, sent, env, doubled>>

\* After the await of GroupDetailPage.handleAddRole.
GroupRoleAnswered(c) ==
  /\ c.phase # "sent" /\ c.op = "add" /\ editor = "groupRoles"
  /\ calls' = calls \ {c} /\ Invalidate(c)
  /\ picked' = IF c.phase = "ok" THEN {} ELSE picked
  /\ edits' = IF c.phase = "ok" THEN {} ELSE edits
  /\ UNCHANGED <<editor, server, listed, fetch, emptied, confirming, open, saves, sent, env,
                 doubled>>

\* After the awaits of EditUserDialog, which keeps copies of its own up to date.
CopyAnswered(c) ==
  LET update == c.phase = "ok" /\ open
  IN /\ c.phase # "sent" /\ editor \in Copies
     /\ calls' = calls \ {c}
     /\ \/ /\ update /\ c.op = "add"
           /\ listed' = listed \cup {c.item} /\ picked' = {} /\ edits' = {}
        \/ update /\ c.op = "remove" /\ listed' = listed \ {c.item} /\ UNCHANGED <<picked, edits>>
        \/ ~update /\ UNCHANGED <<listed, picked, edits>>
     /\ UNCHANGED <<editor, server, fetch, stale, emptied, confirming, open, saves, sent, env,
                    doubled>>

\* After the awaits of RoleDetailPage.handlePermissionToggle.
PermissionAnswered(c) ==
  /\ c.phase # "sent" /\ editor = "rolePerms"
  /\ calls' = calls \ {c} /\ Invalidate(c)
  /\ UNCHANGED <<editor, server, listed, fetch, selection, confirming, open, saves, sent, env,
                 doubled>>

Answer(c) ==
  \/ HeadAnswered(c) \/ BatchAnswered(c) \/ RemovalAnswered(c)
  \/ GroupRoleAnswered(c) \/ CopyAnswered(c) \/ PermissionAnswered(c)

-----------------------------------------------------------------------------
(* The query that fills the screen *)

Fetching == fetch.stage \in {"sent", "read"}
NoFetch(stage) == [stage |-> stage, got |-> None]

\* Delayed invalidation: the query is fetched again when nothing is pending.
Refetch ==
  /\ stale /\ stale' = FALSE /\ calls = {} /\ ~Fetching /\ open
  /\ fetch' = NoFetch("sent")
  /\ UNCHANGED <<editor, server, listed, selection, confirming, open, calls, saves, sent, env,
                 doubled>>

ReadFetch ==
  /\ fetch.stage = "sent" /\ fetch' = [stage |-> "read", got |-> server]
  /\ UNCHANGED <<editor, server, listed, stale, selection, confirming, open, calls, saves, sent,
                 env, doubled>>

\* Variant of LoadSelection: only the first list loads the selection.
LoadSelection_Once(got) ==
  IF editor = "editRole" /\ open /\ ~Loaded
  THEN picked' = got /\ edits' = {} /\ emptied' = FALSE
  ELSE UNCHANGED selection
\* The effect of EditRoleDialog on its list: a list that is new and not empty
\* replaces the selection.
LoadSelection(got) ==
  IF editor = "editRole" /\ open /\ got # listed
  THEN IF got # {} THEN picked' = got /\ edits' = {} /\ emptied' = FALSE
       ELSE emptied' = Loaded /\ UNCHANGED <<picked, edits>>
  ELSE UNCHANGED selection

StoreFetch ==
  /\ fetch.stage = "read" /\ fetch' = NoFetch("idle")
  /\ listed' = fetch.got /\ LoadSelection(fetch.got)
  /\ UNCHANGED <<editor, server, stale, confirming, open, calls, saves, sent, env, doubled>>

FetchFails ==
  /\ fetch.stage = "sent" /\ fetch' = NoFetch("failed")
  /\ Upsettable /\ faults' = faults + 1
  /\ UNCHANGED <<editor, server, listed, stale, selection, confirming, open, calls, saves, sent,
                 foreign, doubled>>

\* The entry of a closed EditRoleDialog expires, or is dropped when invalidated.
DropUnused ==
  /\ editor = "editRole" /\ ~open /\ ~Fetching /\ (Loaded \/ stale)
  /\ listed' = None /\ stale' = FALSE
  /\ UNCHANGED <<editor, server, fetch, selection, confirming, open, calls, saves, sent, env,
                 doubled>>

\* handleClose, also by a click outside while requests are pending.
CloseDialog ==
  /\ editor \in Dialogs \cup Copies /\ open /\ Closed(calls)
  /\ UNCHANGED <<editor, server, data, confirming, saves, sent, env, doubled>>

\* RolesPage opens CreateRoleDialog, whose effect resets the selection, or mounts
\* EditRoleDialog, whose effects load it from the list or wait for the query. Bound: only
\* while a save is left to press.
OpenDialog ==
  /\ editor \in Dialogs /\ ~open /\ Pressable /\ open' = TRUE
  /\ picked' = IF editor = "editRole" /\ Loaded THEN listed ELSE {}
  /\ fetch' = IF editor = "editRole" /\ ~Loaded /\ ~Fetching THEN NoFetch("sent") ELSE fetch
  /\ UNCHANGED <<editor, server, listed, stale, edits, emptied, confirming, calls, saves, sent,
                 env, doubled>>

-----------------------------------------------------------------------------
Init ==
  /\ editor \in Editors
  /\ server \in IF editor = "createRole" THEN {None} ELSE SUBSET Item
  /\ listed \in CASE editor = "createRole" -> {{}}
                  [] editor \in Copies -> {server}
                  [] OTHER -> {None, server}
  /\ fetch = NoFetch(IF Loaded THEN "idle" ELSE "sent")
  /\ picked = (IF editor = "editRole" /\ Loaded THEN listed ELSE {})
  /\ open = TRUE
  /\ confirming = None /\ calls = {} /\ saves = <<>> /\ edits = {}
  /\ sent = 0 /\ foreign = 0 /\ faults = 0
  /\ stale = FALSE /\ emptied = FALSE /\ doubled = FALSE

Next ==
  \/ \E x \in Item :
       \/ ToggleRolePermission(x) \/ ToggleNewPermission(x)
       \/ ToggleRoleUser(x) \/ ToggleGroupUser(x) \/ ChooseOption(x)
       \/ AskRoleUser(x) \/ AskMember(x) \/ AskGroupRole(x)
       \/ AddGroupRole(x) \/ AddUserRole(x) \/ RemoveUserRole(x)
       \/ AddUserGroup(x) \/ RemoveUserGroup(x) \/ TogglePermission(x)
       \/ ForeignChange(x)
  \/ ClearPicked \/ DismissRemoval \/ ConfirmRemoval
  \/ SubmitRole \/ SubmitNewRole \/ AddRoleUsers \/ AddMembers
  \/ \E c \in calls : Serve(c) \/ Fault(c) \/ Answer(c)
  \/ Refetch \/ ReadFetch \/ StoreFetch \/ FetchFails \/ DropUnused
  \/ CloseDialog \/ OpenDialog

\* Servers answer and the browser runs the handlers; the user owes nothing.
Fairness ==
  /\ WF_vars(\E c \in calls : Serve(c)) /\ WF_vars(\E c \in calls : Answer(c))
  /\ WF_vars(Refetch) /\ WF_vars(ReadFetch) /\ WF_vars(StoreFetch)

Spec == Init /\ [][Next]_vars /\ Fairness

-----------------------------------------------------------------------------
(* Properties *)

Requests(e) == [op : {"head", "add", "remove"}, item : Item \cup {None}, by : 1..MaxPresses[e],
                phase : {"sent", "ok", "bad"}, watched : BOOLEAN]
Saves == [stage : {"head", "all", "done", "failed"}, chosen : SUBSET Item, base : SUBSET Item,
          asked : SUBSET Item, emptied : BOOLEAN]

\* The variables keep their types.
TypeOK ==
  /\ editor \in Editors /\ server \in (SUBSET Item) \cup {None}
  /\ listed \in (SUBSET Item) \cup {None}
  /\ fetch \in [stage : {"idle", "sent", "read", "failed"}, got : (SUBSET Item) \cup {None}]
  /\ picked \in SUBSET Item /\ edits \in SUBSET Item /\ confirming \in Item \cup {None}
  /\ calls \subseteq Requests(editor) /\ saves \in Seq(Saves)
  /\ sent \in Nat /\ Len(saves) + sent <= MaxPresses[editor]
  /\ foreign \in Nat /\ faults \in Nat /\ foreign + faults <= MaxUpsets
  /\ open \in BOOLEAN /\ stale \in BOOLEAN /\ emptied \in BOOLEAN /\ doubled \in BOOLEAN

\* "Don't allow removing admin wildcard": neither the chips of RoleDetailPage nor a save
\* of EditRoleDialog, whatever was fetched between opening it and saving, sends a request
\* that takes the wildcard from a role (disabled chips, the selection effect and the
\* two filters of onSubmit together).
WildcardHeld ==
  editor \in {"editRole", "rolePerms"} =>
    \A c \in calls : c.op = "remove" => c.item # Wildcard

\* A save asks for exactly what the user toggled since the list was last loaded, also
\* when a list fetched meanwhile reset the selection; a list that became empty is the
\* exception, for the selection effect of EditRoleDialog ignores it.
SavesAskForEdits ==
  \A i \in DOMAIN saves :
    ~saves[i].emptied => Changed(saves[i].chosen, saves[i].base) = saves[i].asked

\* "Role updated successfully", "Role created successfully", "Added n user(s)" tell the
\* truth when nobody else acts: of every item the user had toggled, the server holds what
\* the only save chose.
SuccessMeansSaved ==
  (foreign = 0 /\ sent = 0 /\ Len(saves) = 1 /\ saves[1].stage = "done") =>
    \A x \in saves[1].asked : x \in server <=> x \in saves[1].chosen

\* The answer to a removal closes the confirmation of that removal only, though a click
\* outside lets the user leave it while the request is pending.
ConfirmationsStayOpen ==
  [][(calls' # calls /\ confirming # None /\ confirming' # confirming) =>
       \E c \in calls \ calls' : c.op = "remove" /\ c.item = confirming]_vars

\* When nothing is pending and nobody else acts, what the screen shows is what the server
\* holds: the data of a query after requests that overlapped a fetch, failed or lost their
\* answer after an effect; the copies EditUserDialog keeps unless a request failed or was
\* sent twice at a time, which nothing keeps its group controls from. A query whose last
\* fetch failed is left out: it keeps the list it had, behind the server, and nothing tells
\* the user nor asks again before the next mutation or reload.
ScreensAgree ==
  /\ calls = {} /\ foreign = 0
  /\ \/ editor \in Queried /\ Loaded /\ ~stale /\ fetch.stage = "idle"
     \/ editor \in Copies /\ open /\ faults = 0 /\ ~doubled
  => listed = server

\* Saves come to an end, and what a mutation invalidated is fetched again while the screen
\* is there to show it.
Settles == (Ongoing # {} \/ (stale /\ open)) ~> (Ongoing = {} /\ ~(stale /\ open))
=============================================================================
