------------------------- MODULE RelationEditorProofs -------------------------
(* The safety of RelationEditor, for any items and bounds: what is sent (WildcardHeld,
   SavesAskForEdits), what an answer closes (ConfirmationsStayOpen), what a success tells
   (SuccessMeansSaved) and what a screen shows (ScreensAgree).

   A save captures the selection and the list of the moment it is begun, and its requests are
   sent after an answer, when both may have changed. The invariant therefore relates the
   selection to the list shown at every moment (SelectionFits), each save to what it captured
   (SavesFit) and each request to its save (CallsFit), and says that an open confirmation is
   that of the only removal under way (RemovalsFit).

   On top of it, requests are followed to the end: to the fetch that shows what they did
   (ListAgrees), to the answer that updates a copy (CopiesAgree), and to the last answer of the
   save they belong to (FirstSave, from Untouched). *)
EXTENDS RelationEditor, SequenceTheorems, TLAPS

\* The selection differs from the list shown by what the user toggled, and the wildcard of the
\* list is always selected; only dialogs are closed, without a selection.
SelectionFits ==
  /\ ~open => editor \in Dialogs \cup Copies /\ picked = {} /\ edits = {} /\ ~emptied
  /\ emptied => listed # None
  /\ editor = "editRole" /\ open =>
       /\ ~emptied => Changed(picked, Shown) = edits
       /\ Wildcard \in Shown => Wildcard \in picked
  /\ editor \in {"createRole"} \cup Batches => picked = edits

\* A save asks for the edits of its moment, and keeps the wildcard the list had.
SavesFit ==
  \A i \in DOMAIN saves :
    /\ ~saves[i].emptied => Changed(saves[i].chosen, saves[i].base) = saves[i].asked
    /\ editor = "editRole" /\ Wildcard \in saves[i].base => Wildcard \in saves[i].chosen

\* The requests of a dialog belong to its saves.
CallsFit ==
  \A c \in calls :
    /\ c.op = "head" => editor \in Dialogs
    /\ c.op # "head" => c.item \in Item
    /\ editor \in Dialogs => c.by \in DOMAIN saves

\* A role that is not created yet has no permissions, and no request about them is sent.
ServerFits ==
  /\ editor # "createRole" => server # None
  /\ \A c \in calls : c.op # "head" \/ c.phase = "ok" => server # None

\* A screen without a query has its list from the start and never fetches it; what a fetch
\* reads is a list.
FetchFits ==
  /\ editor \notin Queried => fetch.stage = "idle" /\ ~stale /\ listed # None
  /\ fetch.stage = "read" => fetch.got # None

\* Where removals are confirmed there is one at a time, and its dialog is the one open, if any.
RemovalsFit ==
  IF editor \in Batches \cup {"groupRoles"}
  THEN \A c \in calls : c.op = "remove" => c.watched /\ confirming \in {None, c.item}
  ELSE confirming = None

IInv ==
  /\ TypeOK /\ SelectionFits /\ SavesFit /\ CallsFit /\ ServerFits /\ FetchFits
  /\ RemovalsFit /\ WildcardHeld

-----------------------------------------------------------------------------
(* Requests, saves and sets *)

\* Taking over a hook's isLoading changes nothing else of a request.
LEMMA UnwatchedCalls ==
  ASSUME NEW C, C \subseteq Requests(editor), NEW ops
  PROVE  /\ Unwatched(C, ops) \subseteq Requests(editor)
         /\ \A d \in Unwatched(C, ops) : \E c \in C :
              /\ d.op = c.op /\ d.item = c.item /\ d.by = c.by /\ d.phase = c.phase
              /\ c.op \notin ops => d.watched = c.watched
<1>1. ASSUME NEW c \in C
      PROVE  LET d == [c EXCEPT !.watched = @ /\ c.op \notin ops]
             IN  /\ d \in Requests(editor)
                 /\ d.op = c.op /\ d.item = c.item /\ d.by = c.by /\ d.phase = c.phase
                 /\ c.op \notin ops => d.watched = c.watched
  <2>1. c \in Requests(editor) /\ c.watched \in BOOLEAN
    BY DEF Requests
  <2>2. CASE c.op \in ops
    <3>1. [c EXCEPT !.watched = @ /\ c.op \notin ops] = [c EXCEPT !.watched = FALSE]
      BY <2>2
    <3>2. QED  BY <2>1, <2>2, <3>1 DEF Requests
  <2>3. CASE c.op \notin ops
    <3>1. (c.watched /\ c.op \notin ops) = c.watched
      BY <2>1, <2>3
    <3>2. [c EXCEPT !.watched = @ /\ c.op \notin ops] = [c EXCEPT !.watched = c.watched]
      BY <3>1
    <3>3. [c EXCEPT !.watched = c.watched] = c
      BY <2>1 DEF Requests
    <3>4. QED  BY <2>1, <3>2, <3>3
  <2>4. QED  BY <2>2, <2>3
<1>2. ASSUME NEW d \in Unwatched(C, ops)
      PROVE  /\ d \in Requests(editor)
             /\ \E c \in C :
                  /\ d.op = c.op /\ d.item = c.item /\ d.by = c.by /\ d.phase = c.phase
                  /\ c.op \notin ops => d.watched = c.watched
  <2>1. PICK c \in C : d = [c EXCEPT !.watched = @ /\ c.op \notin ops]
    BY Zenon DEF Unwatched
  <2>2. QED  BY <1>1, <2>1, Zenon
<1>3. QED  BY <1>2

\* The same, of the requests under way.
LEMMA UnwatchedOp ==
  ASSUME TypeOK, NEW op
  PROVE  /\ Unwatched(calls, {op}) \subseteq Requests(editor)
         /\ \A d \in Unwatched(calls, {op}) : \E c \in calls :
              /\ d.op = c.op /\ d.item = c.item /\ d.by = c.by /\ d.phase = c.phase
              /\ c.op \notin {op} => d.watched = c.watched
<1>1. calls \subseteq Requests(editor)
  BY DEF TypeOK
<1>2. QED  BY <1>1, UnwatchedCalls

\* A new request.
LEMMA CallTyped ==
  ASSUME NEW op \in {"head", "add", "remove"}, NEW x \in Item \cup {None},
         NEW n \in 1..MaxPresses[editor], NEW w
  PROVE  /\ w \in BOOLEAN => Call(op, x, n, w) \in Requests(editor)
         /\ Call(op, x, n, w).op = op /\ Call(op, x, n, w).item = x
         /\ Call(op, x, n, w).by = n /\ Call(op, x, n, w).watched = w
BY DEF Call, Requests

\* A save that moves on asks for what it asked.
LEMMA StagedSaves ==
  ASSUME saves \in Seq(Saves), NEW i, NEW s \in {"head", "all", "done", "failed"}, Stage(i, s)
  PROVE  /\ saves' \in Seq(Saves) /\ Len(saves') = Len(saves) /\ DOMAIN saves' = DOMAIN saves
         /\ \A j \in DOMAIN saves : /\ saves'[j].chosen = saves[j].chosen
                                    /\ saves'[j].base = saves[j].base
                                    /\ saves'[j].asked = saves[j].asked
                                    /\ saves'[j].emptied = saves[j].emptied
<1>1. \A j \in DOMAIN saves : saves[j] \in Saves
  OBVIOUS
<1>2. ASSUME NEW t \in Saves
      PROVE  LET u == [t EXCEPT !.stage = s]
             IN  u \in Saves /\ u.chosen = t.chosen /\ u.base = t.base /\ u.asked = t.asked
                   /\ u.emptied = t.emptied
  BY DEF Saves
<1>3. CASE i \in DOMAIN saves
  <2>1. saves' = [saves EXCEPT ![i] = [saves[i] EXCEPT !.stage = s]]
    BY DEF Stage
  <2>2. [saves[i] EXCEPT !.stage = s] \in Saves
    BY <1>1, <1>2, <1>3
  <2>3. /\ saves' \in Seq(Saves) /\ Len(saves') = Len(saves) /\ DOMAIN saves' = DOMAIN saves
        /\ \A j \in DOMAIN saves :
             saves'[j] = IF j = i THEN [saves[i] EXCEPT !.stage = s] ELSE saves[j]
    BY <1>3, <2>1, <2>2
  <2>4. ASSUME NEW j \in DOMAIN saves
        PROVE  /\ saves'[j].chosen = saves[j].chosen /\ saves'[j].base = saves[j].base
               /\ saves'[j].asked = saves[j].asked /\ saves'[j].emptied = saves[j].emptied
    <3>1. CASE j = i
      BY <1>1, <1>2, <2>3, <3>1
    <3>2. CASE j # i
      BY <2>3, <3>2
    <3>3. QED  BY <3>1, <3>2
  <2>5. QED  BY <2>3, <2>4
<1>4. CASE i \notin DOMAIN saves
  <2>1. saves' = saves
    BY <1>4 DEF Stage
  <2>2. QED  BY <2>1
<1>5. QED  BY <1>3, <1>4

\* Toggling an item in a set toggles it in what the set differs by.
LEMMA ToggleChanges ==
  ASSUME NEW S, NEW T, NEW x
  PROVE  Changed(Toggled(S, x), T) = Toggled(Changed(S, T), x)
BY DEF Changed, Toggled

-----------------------------------------------------------------------------
(* The user's steps *)

\* Selecting disturbs nothing but the selection.
LEMMA SelectKeeps ==
  ASSUME IInv, NEW new \in SUBSET Item, NEW changed \in SUBSET Item, Select(new, changed),
         SelectionFits'
  PROVE  IInv'
<1> USE DEF Select, data, env
<1>1. TypeOK'
  BY DEF IInv, TypeOK
<1>2. SavesFit' /\ CallsFit' /\ ServerFits' /\ FetchFits'
  BY DEF IInv, SavesFit, CallsFit, ServerFits, FetchFits
<1>3. RemovalsFit' /\ WildcardHeld'
  BY DEF IInv, RemovalsFit, WildcardHeld
<1>4. QED  BY <1>1, <1>2, <1>3 DEF IInv

\* The chips, the search rows, the selects and their "n selected" chip.
LEMMA SelectionStepsKeep ==
  ASSUME IInv, NEW x \in Item,
         \/ ToggleRolePermission(x) \/ ToggleNewPermission(x)
         \/ ToggleRoleUser(x) \/ ToggleGroupUser(x) \/ ChooseOption(x) \/ ClearPicked
  PROVE  IInv'
<1>0. picked \in SUBSET Item /\ edits \in SUBSET Item
  BY DEF IInv, TypeOK
<1>1. CASE Toggle(x) /\ (editor = "editRole" => EditRoleChip(x)) /\ (open \/ editor \in Batches)
           /\ editor \in Dialogs \cup Batches
  <2>1. Toggled(picked, x) \in SUBSET Item /\ Toggled(edits, x) \in SUBSET Item
    BY <1>0 DEF Toggled
  <2>2. Select(Toggled(picked, x), Toggled(edits, x))
    BY <1>1 DEF Toggle
  <2>3. SelectionFits'
    <3>1. UNCHANGED <<open, editor, emptied, listed>> /\ Shown' = Shown
          /\ picked' = Toggled(picked, x) /\ edits' = Toggled(edits, x)
      BY <2>2 DEF Select, data, Shown, Loaded
    <3>2. open /\ open' /\ (emptied => listed # None)
      BY <1>1, <3>1 DEF IInv, SelectionFits, Dialogs, Copies, Batches
    <3>3. CASE editor = "editRole"
      <4>1. ~emptied => Changed(picked', Shown) = edits'
        BY <1>1, <3>1, <3>3, ToggleChanges DEF IInv, SelectionFits, Dialogs, Batches
      <4>2. Wildcard \in Shown => Wildcard \in picked'
        BY <1>1, <3>1, <3>3 DEF IInv, SelectionFits, EditRoleChip, Toggled
      <4>3. editor' = "editRole" /\ (~emptied' => Changed(picked', Shown') = edits')
            /\ (Wildcard \in Shown' => Wildcard \in picked')
        BY <3>1, <3>3, <4>1, <4>2
      <4>4. QED  BY <3>1, <3>2, <4>3 DEF SelectionFits, Batches
    <3>4. CASE editor # "editRole"
      BY <3>1, <3>2, <3>4 DEF IInv, SelectionFits
    <3>5. QED  BY <3>3, <3>4
  <2>4. QED  BY <2>1, <2>2, <2>3, SelectKeeps
<1>2. CASE ChooseOption(x)
  <2>1. Select({x}, {x}) /\ editor \notin Dialogs \cup Batches /\ open
    BY <1>2 DEF ChooseOption, GroupRoleOption, UserRoleOption, UserGroupOption,
       GroupPage, Dialogs, Copies, Batches, IInv, SelectionFits
  <2>2. SelectionFits'
    BY <2>1 DEF Select, data, IInv, SelectionFits, Dialogs, Batches
  <2>3. QED  BY <2>1, <2>2, SelectKeeps
<1>3. CASE ClearPicked
  <2>1. Select({}, {}) /\ editor \in Batches
    BY <1>3 DEF ClearPicked
  <2>2. SelectionFits'
    BY <2>1 DEF Select, data, IInv, SelectionFits, Batches
  <2>3. QED  BY <2>1, <2>2, SelectKeeps
<1>4. QED
  BY <1>1, <1>2, <1>3 DEF ToggleRolePermission, ToggleNewPermission, ToggleRoleUser,
     ToggleGroupUser, EditRoleChip, CreateRoleChip, RoleSearchRow, GroupSearchRow, RolePage,
     GroupPage, Dialogs, Batches

\* Opening and dismissing a confirmation.
LEMMA ConfirmingKeeps ==
  ASSUME IInv, NEW x \in Item,
         AskRoleUser(x) \/ AskMember(x) \/ AskGroupRole(x) \/ DismissRemoval
  PROVE  IInv'
<1> USE DEF Confirming, data, selection, env
<1>0. PICK y \in Item \cup {None} : Confirming(y)
  BY DEF AskRoleUser, AskMember, AskGroupRole, DismissRemoval
<1>1. TypeOK'
  BY <1>0 DEF IInv, TypeOK
<1>2. SelectionFits'
  BY <1>0 DEF IInv, SelectionFits, Shown, Loaded
<1>3. SavesFit' /\ CallsFit' /\ ServerFits' /\ FetchFits' /\ WildcardHeld'
  BY <1>0 DEF IInv, SavesFit, CallsFit, ServerFits, FetchFits, WildcardHeld
<1>4. RemovalsFit'
  <2>1. CASE AskRoleUser(x) \/ AskMember(x) \/ AskGroupRole(x)
    <3>1. ~Loading("remove") /\ editor \in Batches \cup {"groupRoles"} /\ Confirming(x)
      BY <2>1 DEF AskRoleUser, AskMember, AskGroupRole, RoleUserRow, GroupMemberRow,
         GroupRoleRow, Batches
    <3>2. QED  BY <3>1 DEF IInv, RemovalsFit, Loading
  <2>2. CASE DismissRemoval
    BY <2>2 DEF DismissRemoval, IInv, RemovalsFit
  <2>3. QED  BY <2>1, <2>2
<1>5. QED  BY <1>1, <1>2, <1>3, <1>4 DEF IInv

\* One request more.
LEMMA SendKeeps ==
  ASSUME IInv, NEW op \in {"add", "remove"}, NEW x \in Item, Send(op, x), editor \notin Dialogs,
         op = "remove" /\ x = Wildcard => editor # "rolePerms",
         op = "remove" /\ editor \in Batches \cup {"groupRoles"} =>
           ~Loading("remove") /\ confirming = x
  PROVE  IInv'
<1> USE DEF Send, data, selection, env
<1> DEFINE old == Unwatched(calls, {op})
           new == Call(op, x, sent', TRUE)
<1>1. calls' = old \cup {new}
  OBVIOUS
<1>2. sent' \in 1..MaxPresses[editor] /\ Len(saves) + sent' <= MaxPresses[editor]
  <2>1. Len(saves) \in Nat /\ MaxPresses[editor] \in Nat /\ sent \in Nat
    BY ConstantsFit DEF IInv, TypeOK
  <2>2. QED  BY <2>1 DEF Pressable
<1>3. new \in Requests(editor) /\ new.op = op /\ new.item = x /\ new.watched
  BY <1>2 DEF Call, Requests
<1>4. /\ old \subseteq Requests(editor)
      /\ \A d \in old : \E c \in calls :
           /\ d.op = c.op /\ d.item = c.item /\ d.by = c.by /\ d.phase = c.phase
           /\ c.op \notin {op} => d.watched = c.watched
  BY UnwatchedOp DEF IInv
<1> HIDE DEF old, new
<1>5. TypeOK'
  <2>1. sent' \in Nat
    BY DEF IInv, TypeOK
  <2>2. doubled' \in BOOLEAN
    BY DEF IInv, TypeOK
  <2>3. QED  BY <1>1, <1>2, <1>3, <1>4, <2>1, <2>2 DEF IInv, TypeOK
<1>6. SelectionFits'
  BY DEF IInv, SelectionFits, Shown, Loaded
<1>7. SavesFit'
  BY DEF IInv, SavesFit
<1>8. ASSUME NEW d \in calls'
      PROVE  /\ d.op # "head" /\ d.item \in Item
             /\ editor = "rolePerms" /\ d.op = "remove" => d.item # Wildcard
  <2>1. CASE d \in old
    <3>1. PICK c \in calls : d.op = c.op /\ d.item = c.item
      BY <1>4, <2>1
    <3>2. QED  BY <3>1 DEF IInv, CallsFit, WildcardHeld
  <2>2. CASE d = new
    BY <1>3, <2>2
  <2>3. QED  BY <1>1, <2>1, <2>2
<1>9. CallsFit' /\ WildcardHeld'
  BY <1>8 DEF CallsFit, WildcardHeld, Dialogs
<1>10. RemovalsFit'
  <2>1. CASE editor \in Batches \cup {"groupRoles"}
    <3>1. ASSUME NEW d \in old, d.op = "remove" PROVE d.watched /\ confirming \in {None, d.item}
      <4>1. PICK c \in calls : /\ d.op = c.op /\ d.item = c.item
                               /\ c.op \notin {op} => d.watched = c.watched
        BY <1>4
      <4>2. c.op = "remove" /\ c.watched /\ confirming \in {None, c.item}
        BY <2>1, <3>1, <4>1 DEF IInv, RemovalsFit
      <4>3. op # "remove"
        BY <2>1, <4>2 DEF Loading
      <4>4. QED  BY <4>1, <4>2, <4>3
    <3>2. QED  BY <1>1, <1>3, <2>1, <3>1 DEF RemovalsFit
  <2>2. CASE editor \notin Batches \cup {"groupRoles"}
    BY <2>2 DEF IInv, RemovalsFit
  <2>3. QED  BY <2>1, <2>2
<1>11. ServerFits' /\ FetchFits'
  BY DEF IInv, ServerFits, FetchFits, Dialogs
<1>12. QED  BY <1>5, <1>6, <1>7, <1>9, <1>10, <1>11 DEF IInv

\* The buttons that send one request.
LEMMA SingleRequestsKeep ==
  ASSUME IInv, NEW x \in Item,
         \/ ConfirmRemoval \/ AddGroupRole(x) \/ AddUserRole(x) \/ RemoveUserRole(x)
         \/ AddUserGroup(x) \/ RemoveUserGroup(x) \/ TogglePermission(x)
  PROVE  IInv'
<1>1. CASE ConfirmRemoval
  <2>1. /\ confirming \in Item /\ editor \in Batches \cup {"groupRoles"}
        /\ ~Loading("remove") /\ Send("remove", confirming)
    BY <1>1 DEF ConfirmRemoval, IInv, TypeOK, RemovalsFit
  <2>2. QED  BY <2>1, SendKeeps DEF Batches, Dialogs
<1>2. CASE AddGroupRole(x) \/ AddUserRole(x) \/ AddUserGroup(x)
  BY <1>2, SendKeeps DEF AddGroupRole, AddUserRole, AddUserGroup, GroupPage, Dialogs
<1>3. CASE RemoveUserRole(x) \/ RemoveUserGroup(x)
  <2>1. Send("remove", x) /\ editor \in Copies
    BY <1>3 DEF RemoveUserRole, RemoveUserGroup, UserRoleChip, UserGroupChip, Copies
  <2>2. QED  BY <2>1, SendKeeps DEF Copies, Batches, Dialogs
<1>4. CASE TogglePermission(x)
  <2>1. /\ editor = "rolePerms"
        /\ x \in Shown => x # Wildcard /\ Send("remove", x)
        /\ x \notin Shown => Send("add", x)
    BY <1>4 DEF TogglePermission, RolePermChip
  <2>2. QED  BY <2>1, SendKeeps DEF Dialogs, Batches
<1>5. QED  BY <1>1, <1>2, <1>3, <1>4

\* What a save captures.
LEMMA NewSaveTyped ==
  ASSUME IInv, NEW stage \in {"head", "all"}, NEW base \in SUBSET Item
  PROVE  /\ NewSave(stage, base) \in Saves
         /\ NewSave(stage, base).chosen = picked /\ NewSave(stage, base).base = base
         /\ NewSave(stage, base).asked = edits /\ NewSave(stage, base).emptied = emptied
BY DEF NewSave, Saves, IInv, TypeOK

\* One save more, with its first requests.
Begins(op, stage, base, new) ==
  /\ Pressable /\ saves' = Append(saves, NewSave(stage, base))
  /\ ~emptied => Changed(picked, base) = edits
  /\ editor = "editRole" /\ Wildcard \in base => Wildcard \in picked
  /\ op = "head" <=> editor \in Dialogs
  /\ new \subseteq Requests(editor)
  /\ \A d \in new : /\ d.op = op /\ d.by = Len(saves) + 1 /\ d.phase = "sent"
                    /\ op = "add" => d.item \in picked
  /\ IF op = "head" THEN stage = "head"
     ELSE /\ stage = "all" /\ editor \in Batches
          /\ \A x \in picked : \E d \in new : d.item = x
  /\ calls' = Unwatched(calls, {op}) \cup new
  /\ UNCHANGED <<editor, server, data, selection, confirming, open, sent, env, doubled>>

LEMMA SaveKeeps ==
  ASSUME IInv, NEW op \in {"head", "add"}, NEW stage \in {"head", "all"},
         NEW base \in SUBSET Item, NEW new, Begins(op, stage, base, new)
  PROVE  IInv'
<1> USE DEF data, selection, env, Begins
<1> DEFINE old == Unwatched(calls, {op})
           s == NewSave(stage, base)
<1>1. calls' = old \cup new
  OBVIOUS
<1>2. /\ old \subseteq Requests(editor)
      /\ \A d \in old : \E c \in calls :
           /\ d.op = c.op /\ d.item = c.item /\ d.by = c.by /\ d.phase = c.phase
           /\ c.op \notin {op} => d.watched = c.watched
  BY UnwatchedOp DEF IInv
<1>3. /\ s \in Saves /\ s.chosen = picked /\ s.base = base /\ s.asked = edits
      /\ s.emptied = emptied /\ saves' = Append(saves, s)
  BY NewSaveTyped
<1> HIDE DEF old, s
<1>4. /\ saves' \in Seq(Saves) /\ Len(saves') = Len(saves) + 1 /\ Len(saves) \in Nat
      /\ saves'[Len(saves) + 1] = s
      /\ \A i \in DOMAIN saves : saves'[i] = saves[i]
      /\ DOMAIN saves = 1..Len(saves) /\ DOMAIN saves' = 1..(Len(saves) + 1)
  BY <1>3 DEF IInv, TypeOK
<1>5. Len(saves') + sent' <= MaxPresses[editor]
  <2>1. Len(saves) \in Nat /\ MaxPresses[editor] \in Nat /\ sent \in Nat
    BY ConstantsFit DEF IInv, TypeOK
  <2>2. QED  BY <1>4, <2>1 DEF Pressable
<1>6. TypeOK'
  BY <1>1, <1>2, <1>4, <1>5 DEF IInv, TypeOK
<1>7. SelectionFits'
  BY DEF IInv, SelectionFits, Shown, Loaded
<1>8. SavesFit'
  <2>1. ASSUME NEW i \in DOMAIN saves'
        PROVE  /\ ~saves'[i].emptied =>
                    Changed(saves'[i].chosen, saves'[i].base) = saves'[i].asked
               /\ editor = "editRole" /\ Wildcard \in saves'[i].base =>
                    Wildcard \in saves'[i].chosen
    <3>1. CASE i = Len(saves) + 1
      BY <1>3, <1>4, <3>1
    <3>2. CASE i \in DOMAIN saves
      BY <1>4, <3>2 DEF IInv, SavesFit
    <3>3. QED  BY <1>4, <3>1, <3>2
  <2>2. QED  BY <2>1 DEF SavesFit
<1>9. ASSUME NEW d \in calls'
      PROVE  \/ \E c \in calls : /\ d.op = c.op /\ d.item = c.item /\ d.by = c.by
                                 /\ d.phase = c.phase
                                 /\ c.op = "remove" => d.watched = c.watched
             \/ /\ d.op = op /\ d.by = Len(saves) + 1 /\ d.phase = "sent"
                /\ op = "add" => d.item \in Item
  <2>1. picked \subseteq Item
    BY DEF IInv, TypeOK
  <2>2. QED  BY <1>1, <1>2, <2>1
<1>10. ASSUME NEW d \in calls'
       PROVE  /\ d.op = "head" => editor \in Dialogs
              /\ d.op # "head" => d.item \in Item
              /\ d.op # "head" \/ d.phase = "ok" => server # None
              /\ editor \in Dialogs => d.by \in DOMAIN saves'
              /\ d.op = "remove" /\ editor \in {"editRole", "rolePerms"} => d.item # Wildcard
              /\ d.op = "remove" /\ editor \in Batches \cup {"groupRoles"} =>
                   d.watched /\ confirming \in {None, d.item}
  <2>1. CASE /\ d.op = op /\ d.by = Len(saves) + 1 /\ d.phase = "sent"
             /\ op = "add" => d.item \in Item
    BY <1>4, <2>1 DEF IInv, ServerFits, Dialogs
  <2>2. CASE \E c \in calls : /\ d.op = c.op /\ d.item = c.item /\ d.by = c.by
                              /\ d.phase = c.phase
                              /\ c.op = "remove" => d.watched = c.watched
    <3>1. PICK c \in calls : /\ d.op = c.op /\ d.item = c.item /\ d.by = c.by
                             /\ d.phase = c.phase
                             /\ c.op = "remove" => d.watched = c.watched
      BY <2>2
    <3>2. d.op = "head" => editor \in Dialogs
      BY <3>1 DEF IInv, CallsFit
    <3>3. editor \in Dialogs => d.by \in DOMAIN saves'
      BY <1>4, <3>1 DEF IInv, CallsFit
    <3>4. d.op = "remove" /\ editor \in {"editRole", "rolePerms"} => d.item # Wildcard
      BY <3>1 DEF IInv, WildcardHeld
    <3>5. d.op = "remove" /\ editor \in Batches \cup {"groupRoles"} =>
            d.watched /\ confirming \in {None, d.item}
      BY <3>1 DEF IInv, RemovalsFit
    <3>6. /\ d.op # "head" => d.item \in Item
          /\ d.op # "head" \/ d.phase = "ok" => server # None
      BY <3>1 DEF IInv, CallsFit, ServerFits
    <3>7. QED  BY <3>2, <3>3, <3>4, <3>5, <3>6
  <2>3. QED  BY <1>9, <2>1, <2>2
<1>11. CallsFit' /\ WildcardHeld' /\ ServerFits' /\ FetchFits'
  BY <1>10 DEF CallsFit, WildcardHeld, IInv, ServerFits, FetchFits
<1>12. RemovalsFit'
  BY <1>10 DEF IInv, RemovalsFit
<1>13. QED  BY <1>6, <1>7, <1>8, <1>11, <1>12 DEF IInv

\* The buttons that begin a save.
Begun ==
  \E op \in {"head", "add"}, stage \in {"head", "all"}, base \in SUBSET Item :
    \E new : Begins(op, stage, base, new)

LEMMA ButtonsBegin ==
  ASSUME IInv, SubmitRole \/ SubmitNewRole \/ AddRoleUsers \/ AddMembers
  PROVE  Begun
<1>0. /\ Shown \in SUBSET Item /\ picked \in SUBSET Item
      /\ Pressable => Len(saves) + 1 \in 1..MaxPresses[editor]
  <2>1. Len(saves) \in Nat /\ MaxPresses[editor] \in Nat /\ sent \in Nat
    BY ConstantsFit DEF IInv, TypeOK
  <2>2. Shown \in SUBSET Item
    BY DEF Shown, Loaded, IInv, TypeOK
  <2>3. QED  BY <2>1, <2>2 DEF Pressable, IInv, TypeOK
<1>1. ASSUME NEW base \in SUBSET Item, SubmitWith(base), editor \in Dialogs,
             ~emptied => Changed(picked, base) = edits,
             editor = "editRole" /\ Wildcard \in base => Wildcard \in picked
      PROVE  Begun
  <2> DEFINE c == Call("head", None, Len(saves) + 1, TRUE)
  <2>1. c \in Requests(editor) /\ c.op = "head" /\ c.by = Len(saves) + 1 /\ c.phase = "sent"
    BY <1>0, <1>1 DEF SubmitWith, Call, Requests
  <2>2. calls' = Unwatched(calls, {"head"}) \cup {c}
    BY <1>1 DEF SubmitWith
  <2> HIDE DEF c
  <2>3. /\ {c} \subseteq Requests(editor)
        /\ \A d \in {c} : d.op = "head" /\ d.by = Len(saves) + 1 /\ d.phase = "sent"
    BY <2>1
  <2>4. /\ saves' = Append(saves, NewSave("head", base)) /\ Pressable
        /\ UNCHANGED <<editor, server, data, selection, confirming, open, sent, env, doubled>>
    BY <1>1 DEF SubmitWith
  <2>5. Begins("head", "head", base, {c})
    BY <1>1, <2>2, <2>3, <2>4 DEF Begins
  <2>6. QED  BY <1>1, <2>5, Zenon DEF Begun
<1>2. CASE SubmitRole
  <2>1. SubmitWith(Shown) /\ editor = "editRole" /\ open
    BY <1>2 DEF SubmitRole, SubmitWith
  <2>2. QED  BY <1>0, <1>1, <2>1 DEF IInv, SelectionFits, Dialogs
<1>3. CASE SubmitNewRole
  <2>1. SubmitWith({}) /\ editor = "createRole"
    BY <1>3 DEF SubmitNewRole
  <2>2. Changed(picked, {}) = edits
    BY <2>1 DEF IInv, SelectionFits, Changed
  <2>3. QED  BY <1>1, <2>1, <2>2 DEF Dialogs
<1>4. CASE AddRoleUsers \/ AddMembers
  <2>1. AddPicked /\ editor \in Batches
    BY <1>4 DEF AddRoleUsers, AddMembers, Batches
  <2>2. PICK last \in picked :
          calls' = Unwatched(calls, {"add"})
                     \cup {Call("add", x, Len(saves) + 1, x = last) : x \in picked}
    BY <2>1 DEF AddPicked
  <2> DEFINE new == {Call("add", x, Len(saves) + 1, x = last) : x \in picked}
  <2>3. \A x \in picked : LET d == Call("add", x, Len(saves) + 1, x = last)
                         IN  /\ d \in Requests(editor) /\ d.op = "add"
                             /\ d.by = Len(saves) + 1 /\ d.phase = "sent" /\ d.item = x
    BY <1>0, <2>1 DEF AddPicked, Call, Requests
  <2>4. /\ new \subseteq Requests(editor)
        /\ \A d \in new : /\ d.op = "add" /\ d.by = Len(saves) + 1 /\ d.phase = "sent"
                          /\ d.item \in picked
        /\ \A x \in picked : \E d \in new : d.item = x
    BY <2>3
  <2>5. calls' = Unwatched(calls, {"add"}) \cup new
    BY <2>2
  <2> HIDE DEF new
  <2>6. /\ ~emptied => Changed(picked, {}) = edits
        /\ editor \notin Dialogs /\ editor # "editRole"
    BY <2>1 DEF IInv, SelectionFits, Changed, Batches, Dialogs
  <2>7. /\ saves' = Append(saves, NewSave("all", {})) /\ Pressable
        /\ UNCHANGED <<editor, server, data, selection, confirming, open, sent, env, doubled>>
    BY <2>1 DEF AddPicked
  <2>8. Begins("add", "all", {}, new)
    BY <2>1, <2>4, <2>5, <2>6, <2>7 DEF Begins
  <2>9. QED  BY <2>8, Zenon DEF Begun
<1>5. QED  BY <1>2, <1>3, <1>4

LEMMA SavesBegin ==
  ASSUME IInv, SubmitRole \/ SubmitNewRole \/ AddRoleUsers \/ AddMembers
  PROVE  IInv'
BY ButtonsBegin, SaveKeeps DEF Begun

-----------------------------------------------------------------------------
(* The servers' and the browser's steps *)

\* What the invariant says of one request.
CallFits(d) ==
  /\ d \in Requests(editor)
  /\ d.op = "head" => editor \in Dialogs
  /\ d.op # "head" => d.item \in Item
  /\ editor \in Dialogs => d.by \in DOMAIN saves
  /\ d.op = "remove" /\ editor \in {"editRole", "rolePerms"} => d.item # Wildcard
  /\ d.op = "remove" /\ editor \in Batches \cup {"groupRoles"} =>
       d.watched /\ confirming \in {None, d.item}

LEMMA CallsEachFit == ASSUME IInv, NEW c \in calls PROVE CallFits(c)
BY DEF IInv, TypeOK, CallsFit, WildcardHeld, RemovalsFit, CallFits

\* Requests that fit before a step fit after it, when the step moves no save away and at most
\* closes a confirmation.
LEMMA CallsStayFit ==
  ASSUME IInv, \A d \in calls' : CallFits(d), editor' = editor, DOMAIN saves' = DOMAIN saves,
         confirming' \in {confirming, None}
  PROVE  calls' \subseteq Requests(editor) /\ CallsFit' /\ WildcardHeld' /\ RemovalsFit'
<1>1. calls' \subseteq Requests(editor)
  BY DEF CallFits
<1>2. CallsFit' /\ WildcardHeld'
  BY DEF CallFits, CallsFit, WildcardHeld
<1>3. RemovalsFit'
  <2>1. CASE editor \in Batches \cup {"groupRoles"}
    BY <2>1 DEF CallFits, RemovalsFit
  <2>2. CASE editor \notin Batches \cup {"groupRoles"}
    BY <2>2 DEF IInv, RemovalsFit
  <2>3. QED  BY <2>1, <2>2
<1>4. QED  BY <1>1, <1>2, <1>3

\* The mutations of a closed dialog are no longer waited for.
LEMMA MountedFits ==
  ASSUME IInv, editor \in Dialogs \cup Copies, NEW C, \A c \in C : CallFits(c)
  PROVE  \A d \in Mounted(C) : CallFits(d) /\ \E c \in C : d.op = c.op /\ d.phase = c.phase
<1>1. CASE editor = "createRole"
  BY <1>1 DEF Mounted
<1>2. CASE editor # "createRole"
  <2>1. C \subseteq Requests(editor)
    BY DEF CallFits
  <2> DEFINE D == Unwatched(C, {"head", "add", "remove"})
  <2>2. /\ D \subseteq Requests(editor)
        /\ \A d \in D : \E c \in C :
             d.op = c.op /\ d.item = c.item /\ d.by = c.by /\ d.phase = c.phase
    BY <2>1, UnwatchedCalls
  <2>3. Mounted(C) = D
    BY <1>2 DEF Mounted
  <2> HIDE DEF D
  <2>4. ASSUME NEW d \in D
        PROVE  CallFits(d) /\ \E c \in C : d.op = c.op /\ d.phase = c.phase
    <3>1. PICK c \in C : d.op = c.op /\ d.item = c.item /\ d.by = c.by /\ d.phase = c.phase
      BY <2>2
    <3>2. d \in Requests(editor) /\ CallFits(c)
      BY <2>2
    <3>3. QED  BY <3>1, <3>2 DEF CallFits, Dialogs, Copies, Batches
  <2>5. QED  BY <2>3, <2>4
<1>3. QED  BY <1>1, <1>2

\* The server handles a request, or the network loses it.
LEMMA ServingKeeps ==
  ASSUME IInv, NEW c \in calls, Serve(c) \/ Fault(c)
  PROVE  IInv'
<1> USE DEF data, selection, env
<1>0. c \in Requests(editor) /\ CallFits(c)
  BY CallsEachFit DEF CallFits
<1>1. PICK p \in {"ok", "bad"} :
        /\ To(c, p)
        /\ server' = server \/ (Accepted(c) /\ server' = Effect(c))
        /\ p = "ok" => Accepted(c) /\ server' = Effect(c)
  <2>1. CASE Serve(c) /\ Accepted(c)
    BY <2>1 DEF Serve
  <2>2. CASE Serve(c) /\ ~Accepted(c)
    BY <2>2 DEF Serve
  <2>3. CASE Fault(c)
    BY <2>3 DEF Fault
  <2>4. QED  BY <2>1, <2>2, <2>3
<1> DEFINE e == [c EXCEPT !.phase = p]
<1>2. /\ e \in Requests(editor) /\ e.op = c.op /\ e.item = c.item /\ e.by = c.by
      /\ e.watched = c.watched
  BY <1>0 DEF Requests
<1>3. calls' = (calls \ {c}) \cup {e}
  BY <1>1 DEF To
<1> HIDE DEF e
<1>4. CallFits(e)
  BY <1>0, <1>2 DEF CallFits
<1>5. \A d \in calls' : CallFits(d)
  BY <1>3, <1>4, CallsEachFit
<1>6. UNCHANGED <<editor, data, selection, confirming, open, saves, sent, foreign, doubled>>
  BY DEF Serve, Fault
<1>7. Accepted(c) => server \in (SUBSET Item) \cup {None}
                     /\ (c.op # "head" => server # None /\ c.item \in Item)
                     /\ (c.op = "head" /\ editor # "createRole" => server # None)
  BY DEF IInv, TypeOK, ServerFits, CallsFit
<1>8. Accepted(c) => Effect(c) \in SUBSET Item
  <2>1. CASE c.op = "add"
    BY <1>7, <2>1 DEF Effect
  <2>2. CASE c.op = "remove"
    BY <1>7, <2>2 DEF Effect
  <2>3. CASE c.op = "head"
    BY <1>7, <2>3 DEF Effect
  <2>4. QED  BY <1>0, <2>1, <2>2, <2>3 DEF Requests
<1>9. /\ server' \in (SUBSET Item) \cup {None}
      /\ server # None => server' # None
      /\ p = "ok" => server' # None
  BY <1>1, <1>8, ConstantsFit DEF IInv, TypeOK
<1>10. faults' \in Nat /\ foreign + faults' <= MaxUpsets
  BY ConstantsFit DEF Serve, Fault, Upsettable, IInv, TypeOK
<1>11. CallsFit' /\ WildcardHeld' /\ RemovalsFit' /\ calls' \subseteq Requests(editor)
  BY <1>5, <1>6, CallsStayFit
<1>12. TypeOK'
  BY <1>6, <1>9, <1>10, <1>11 DEF IInv, TypeOK
<1>13. SelectionFits' /\ SavesFit' /\ FetchFits'
  BY <1>6 DEF IInv, SelectionFits, SavesFit, FetchFits, Shown, Loaded
<1>14. ServerFits'
  <2>1. e.op # "head" \/ e.phase = "ok" => server' # None
    <3>1. e.phase = p
      BY <1>0 DEF e, Requests
    <3>2. QED  BY <1>2, <1>9, <3>1 DEF IInv, ServerFits
  <2>2. \A d \in calls : d.op # "head" \/ d.phase = "ok" => server' # None
    BY <1>9 DEF IInv, ServerFits
  <2>3. editor' # "createRole" => server' # None
    BY <1>6, <1>9 DEF IInv, ServerFits
  <2>4. QED  BY <1>3, <2>1, <2>2, <2>3 DEF ServerFits
<1>15. QED  BY <1>11, <1>12, <1>13, <1>14 DEF IInv

\* Another client changes the set.
LEMMA ForeignChangeKeeps ==
  ASSUME IInv, NEW x \in Item, ForeignChange(x)
  PROVE  IInv'
<1> USE DEF ForeignChange, data, selection, env
<1>1. server' \in SUBSET Item /\ server' # None
  BY ConstantsFit DEF IInv, TypeOK, Toggled
<1>2. foreign' \in Nat /\ foreign' + faults <= MaxUpsets
  BY ConstantsFit DEF Upsettable, IInv, TypeOK
<1>3. TypeOK'
  BY <1>1, <1>2 DEF IInv, TypeOK
<1>4. /\ SelectionFits' /\ SavesFit' /\ CallsFit' /\ FetchFits'
      /\ RemovalsFit' /\ WildcardHeld'
  BY DEF IInv, SelectionFits, SavesFit, CallsFit, FetchFits, RemovalsFit, WildcardHeld, Shown,
     Loaded
<1>5. ServerFits'
  BY <1>1 DEF ServerFits
<1>6. QED  BY <1>3, <1>4, <1>5 DEF IInv

\* A step of the screen: it sends, closes or drops requests that fit, moves a save on, and
\* keeps the selection fit.
ScreenStep ==
  /\ \A d \in calls' : CallFits(d) /\ (d.op # "head" \/ d.phase = "ok" => server # None)
  /\ saves' = saves \/ \E i, s : s \in {"all", "done", "failed"} /\ Stage(i, s)
  /\ confirming' \in {confirming, None}
  /\ listed' \in (SUBSET Item) \cup {None}
  /\ fetch' \in [stage : {"idle", "sent", "read", "failed"}, got : (SUBSET Item) \cup {None}]
  /\ picked' \in SUBSET Item /\ edits' \in SUBSET Item
  /\ open' \in BOOLEAN /\ stale' \in BOOLEAN /\ emptied' \in BOOLEAN
  /\ faults' \in Nat /\ foreign + faults' <= MaxUpsets
  /\ UNCHANGED <<editor, server, sent, foreign, doubled>>
  /\ SelectionFits' /\ FetchFits'

LEMMA ScreenStepKeeps == ASSUME IInv, ScreenStep PROVE IInv'
<1> USE DEF ScreenStep
<1>1. /\ saves' \in Seq(Saves) /\ Len(saves') = Len(saves) /\ DOMAIN saves' = DOMAIN saves
      /\ \A j \in DOMAIN saves : /\ saves'[j].chosen = saves[j].chosen
                                 /\ saves'[j].base = saves[j].base
                                 /\ saves'[j].asked = saves[j].asked
                                 /\ saves'[j].emptied = saves[j].emptied
  <2>1. saves \in Seq(Saves)
    BY DEF IInv, TypeOK
  <2>2. CASE saves' = saves
    BY <2>1, <2>2
  <2>3. CASE \E i, s : s \in {"all", "done", "failed"} /\ Stage(i, s)
    <3>1. PICK i, s : s \in {"all", "done", "failed"} /\ Stage(i, s)
      BY <2>3
    <3>2. QED  BY <2>1, <3>1, StagedSaves
  <2>4. QED  BY <2>2, <2>3
<1>2. calls' \subseteq Requests(editor) /\ CallsFit' /\ WildcardHeld' /\ RemovalsFit'
  BY <1>1, CallsStayFit
<1>3. TypeOK'
  BY <1>1, <1>2 DEF IInv, TypeOK
<1>4. SavesFit'
  BY <1>1 DEF IInv, SavesFit
<1>5. ServerFits'
  BY DEF IInv, ServerFits
<1>6. QED  BY <1>2, <1>3, <1>4, <1>5 DEF IInv

\* What every request of the invariant gives a step that keeps it.
LEMMA CallsFitNow ==
  ASSUME IInv
  PROVE  \A d \in calls : CallFits(d) /\ (d.op # "head" \/ d.phase = "ok" => server # None)
BY CallsEachFit DEF IInv, ServerFits

\* The parts of the screen that a step leaves alone keep their types.
LEMMA ScreenTyped ==
  ASSUME IInv
  PROVE  /\ listed \in (SUBSET Item) \cup {None} /\ server \in (SUBSET Item) \cup {None}
         /\ fetch \in [stage : {"idle", "sent", "read", "failed"},
                       got : (SUBSET Item) \cup {None}]
         /\ picked \in SUBSET Item /\ edits \in SUBSET Item /\ confirming \in Item \cup {None}
         /\ open \in BOOLEAN /\ stale \in BOOLEAN /\ emptied \in BOOLEAN
         /\ faults \in Nat /\ foreign + faults <= MaxUpsets
         /\ Shown \in SUBSET Item
BY DEF IInv, TypeOK, Shown, Loaded

\* Closing a dialog.
LEMMA ClosedFits ==
  ASSUME IInv, editor \in Dialogs \cup Copies, NEW C \in SUBSET calls, Closed(C),
         UNCHANGED editor
  PROVE  /\ \A d \in calls' : CallFits(d) /\ (d.op # "head" \/ d.phase = "ok" => server # None)
         /\ picked' \in SUBSET Item /\ edits' \in SUBSET Item
         /\ open' \in BOOLEAN /\ emptied' \in BOOLEAN
         /\ SelectionFits'
<1>1. \A d \in C : CallFits(d) /\ (d.op # "head" \/ d.phase = "ok" => server # None)
  BY CallsFitNow
<1>2. \A d \in calls' : CallFits(d) /\ \E c \in C : d.op = c.op /\ d.phase = c.phase
  BY <1>1, MountedFits DEF Closed
<1>3. \A d \in calls' : d.op # "head" \/ d.phase = "ok" => server # None
  BY <1>1, <1>2
<1>4. SelectionFits'
  <2>1. ~open' /\ picked' = {} /\ edits' = {} /\ ~emptied' /\ editor' \in Dialogs \cup Copies
    BY DEF Closed
  <2>2. QED  BY <2>1 DEF SelectionFits, Dialogs, Copies, Batches
<1>5. QED  BY <1>2, <1>3, <1>4 DEF Closed

\* onSubmit of the two role dialogs, after its first await.
LEMMA HeadAnsweredKeeps ==
  ASSUME IInv, NEW c \in calls, HeadAnswered(c)
  PROVE  IInv'
<1> DEFINE s == saves[c.by]
           toAssign == s.chosen \ s.base
           toRemove == s.base \ s.chosen
           rest == calls \ {c}
           fits(D) == \A d \in D :
             CallFits(d) /\ (d.op # "head" \/ d.phase = "ok" => server # None)
<1> USE DEF data, selection, env
<1>0. /\ c.op = "head" /\ editor \in Dialogs /\ c.by \in DOMAIN saves /\ s \in Saves
      /\ c.by \in 1..MaxPresses[editor]
      /\ UNCHANGED <<editor, server, data, confirming, sent, env, doubled>>
  <2>1. c.op = "head" /\ editor \in Dialogs /\ c.by \in DOMAIN saves
    BY CallsEachFit DEF HeadAnswered, CallFits
  <2>2. s \in Saves
    BY <2>1 DEF IInv, TypeOK
  <2>3. c.by \in 1..MaxPresses[editor]
    BY CallsEachFit DEF CallFits, Requests
  <2>4. QED  BY <2>1, <2>2, <2>3 DEF HeadAnswered
<1>1. fits(rest)
  BY CallsFitNow
<1>2. CASE c.phase = "bad" /\ Stage(c.by, "failed") /\ calls' = rest
           /\ UNCHANGED <<selection, open>>
  <2>1. SelectionFits' /\ FetchFits'
    BY <1>0, <1>2 DEF IInv, SelectionFits, FetchFits, Shown, Loaded
  <2>2. ScreenStep
    BY <1>0, <1>1, <1>2, <2>1, ScreenTyped DEF ScreenStep
  <2>3. QED  BY <2>2, ScreenStepKeeps
<1>3. CASE /\ c.phase = "ok" /\ toAssign \cup toRemove # {} /\ Stage(c.by, "all")
           /\ calls' = rest \cup {Call("add", x, c.by, FALSE) : x \in toAssign}
                            \cup {Call("remove", x, c.by, FALSE) : x \in toRemove}
           /\ UNCHANGED <<selection, open>>
  <2>1. server # None
    BY <1>3 DEF IInv, ServerFits
  <2>2. \A x \in toAssign : CallFits(Call("add", x, c.by, FALSE))
    BY <1>0 DEF CallFits, Call, Requests, Saves
  <2>3. editor = "editRole" => Wildcard \notin toRemove
    BY <1>0 DEF IInv, SavesFit
  <2>4. \A x \in toRemove : CallFits(Call("remove", x, c.by, FALSE))
    BY <1>0, <2>3 DEF CallFits, Call, Requests, Saves, Dialogs, Batches
  <2>5. fits(calls')
    BY <1>1, <1>3, <2>1, <2>2, <2>4
  <2>6. SelectionFits' /\ FetchFits'
    BY <1>0, <1>3 DEF IInv, SelectionFits, FetchFits, Shown, Loaded
  <2>7. ScreenStep
    BY <1>0, <1>3, <2>5, <2>6, ScreenTyped DEF ScreenStep
  <2>8. QED  BY <2>7, ScreenStepKeeps
<1>4. CASE c.phase = "ok" /\ Stage(c.by, "done") /\ Closed(rest)
  <2>1. /\ fits(calls') /\ picked' \in SUBSET Item /\ edits' \in SUBSET Item
        /\ open' \in BOOLEAN /\ emptied' \in BOOLEAN /\ SelectionFits' /\ FetchFits'
    BY <1>0, <1>4, ClosedFits DEF IInv, FetchFits
  <2>2. ScreenStep
    BY <1>0, <1>4, <2>1, ScreenTyped DEF ScreenStep
  <2>3. QED  BY <2>2, ScreenStepKeeps
<1>5. QED  BY <1>2, <1>3, <1>4 DEF HeadAnswered

\* The answers of a Promise.all.
LEMMA BatchAnsweredKeeps ==
  ASSUME IInv, NEW c \in calls, BatchAnswered(c)
  PROVE  IInv'
<1> DEFINE rest == calls \ {c}
           fits(D) == \A d \in D :
             CallFits(d) /\ (d.op # "head" \/ d.phase = "ok" => server # None)
<1> USE DEF data, selection, env
<1>0. /\ UNCHANGED <<editor, server, listed, fetch, confirming, sent, env, doubled>>
      /\ editor \in Dialogs \cup Batches
      /\ stale' \in BOOLEAN /\ (editor \notin Queried => stale' = stale)
  BY ScreenTyped DEF BatchAnswered, Invalidate
<1>1. fits(rest)
  BY CallsFitNow
<1>2. CASE /\ calls' = rest /\ UNCHANGED <<selection, open>>
           /\ saves' = saves \/ Stage(c.by, "failed")
  <2>1. SelectionFits' /\ FetchFits'
    BY <1>0, <1>2 DEF IInv, SelectionFits, FetchFits, Shown, Loaded
  <2>2. ScreenStep
    BY <1>0, <1>1, <1>2, <2>1, ScreenTyped DEF ScreenStep
  <2>3. QED  BY <2>2, ScreenStepKeeps
<1>3. CASE Stage(c.by, "done") /\ editor \in Dialogs /\ Closed(rest)
  <2>1. /\ fits(calls') /\ picked' \in SUBSET Item /\ edits' \in SUBSET Item
        /\ open' \in BOOLEAN /\ emptied' \in BOOLEAN /\ SelectionFits' /\ FetchFits'
    BY <1>0, <1>3, ClosedFits DEF IInv, FetchFits
  <2>2. ScreenStep
    BY <1>0, <1>3, <2>1, ScreenTyped DEF ScreenStep
  <2>3. QED  BY <2>2, ScreenStepKeeps
<1>4. CASE /\ Stage(c.by, "done") /\ editor \in Batches /\ calls' = rest
           /\ picked' = {} /\ edits' = {} /\ UNCHANGED <<emptied, open>>
  <2>1. SelectionFits' /\ FetchFits'
    BY <1>0, <1>4 DEF IInv, SelectionFits, FetchFits, Shown, Loaded, Batches
  <2>2. ScreenStep
    BY <1>0, <1>1, <1>4, <2>1, ScreenTyped DEF ScreenStep
  <2>3. QED  BY <2>2, ScreenStepKeeps
<1>5. QED  BY <1>2, <1>3, <1>4 DEF BatchAnswered

\* The answers to single requests.
LEMMA SingleAnswersKeep ==
  ASSUME IInv, NEW c \in calls,
         \/ RemovalAnswered(c) \/ GroupRoleAnswered(c) \/ CopyAnswered(c)
         \/ PermissionAnswered(c)
  PROVE  IInv'
<1> USE DEF data, selection, env
<1>1. /\ UNCHANGED <<editor, server, fetch, open, saves, sent, env, doubled>>
      /\ calls' = calls \ {c} /\ confirming' \in {confirming, None} /\ stale' \in BOOLEAN
      /\ emptied' = emptied /\ (editor \notin Queried => stale' = stale)
  BY ScreenTyped
     DEF RemovalAnswered, GroupRoleAnswered, CopyAnswered, PermissionAnswered, Invalidate
<1>2. \A d \in calls' : CallFits(d) /\ (d.op # "head" \/ d.phase = "ok" => server # None)
  BY <1>1, CallsFitNow
<1>3. /\ picked' \in SUBSET Item /\ edits' \in SUBSET Item
      /\ listed' \in (SUBSET Item) \cup {None}
      /\ editor \in Copies => listed' # None
  <2>1. CASE RemovalAnswered(c) \/ GroupRoleAnswered(c) \/ PermissionAnswered(c)
    BY <2>1, ScreenTyped
       DEF RemovalAnswered, GroupRoleAnswered, PermissionAnswered, Batches, Copies
  <2>2. CASE CopyAnswered(c)
    <3>1. CallFits(c) /\ editor \in Copies
      BY <2>2, CallsEachFit DEF CopyAnswered
    <3>2. c.op # "head" /\ c.item \in Item
      BY <3>1 DEF CallFits, Dialogs, Copies
    <3>3. listed \in SUBSET Item
      BY <3>1, ScreenTyped DEF IInv, FetchFits, Queried
    <3>4. listed' \in SUBSET Item
      BY <2>2, <3>2, <3>3 DEF CopyAnswered
    <3>5. QED  BY <2>2, <3>4, ScreenTyped, ConstantsFit DEF CopyAnswered
  <2>3. QED  BY <2>1, <2>2
<1>4. SelectionFits' /\ FetchFits'
  <2>1. CASE RemovalAnswered(c) \/ GroupRoleAnswered(c) \/ PermissionAnswered(c)
    <3>1. /\ listed' = listed
          /\ editor \in Dialogs \cup Batches \cup Copies => UNCHANGED <<picked, edits>>
      BY <1>1, <2>1
         DEF RemovalAnswered, GroupRoleAnswered, PermissionAnswered, Batches, Dialogs, Copies
    <3>2. open
      BY <2>1 DEF RemovalAnswered, GroupRoleAnswered, PermissionAnswered, IInv, SelectionFits,
         Batches, Dialogs, Copies
    <3>3. QED
      BY <1>1, <3>1, <3>2 DEF IInv, SelectionFits, FetchFits, Shown, Loaded, Batches, Dialogs
  <2>2. CASE CopyAnswered(c)
    <3>1. /\ editor \in Copies /\ listed' # None
          /\ ~open => UNCHANGED <<picked, edits>>
      BY <1>3, <2>2 DEF CopyAnswered
    <3>2. QED
      BY <1>1, <3>1 DEF IInv, SelectionFits, FetchFits, Batches, Dialogs, Copies, Queried
  <2>3. QED  BY <2>1, <2>2
<1>5. ScreenStep
  BY <1>1, <1>2, <1>3, <1>4, ScreenTyped DEF ScreenStep
<1>6. QED  BY <1>5, ScreenStepKeeps

\* The effects of the query.
LEMMA FetchesKeep ==
  ASSUME IInv, Refetch \/ ReadFetch \/ FetchFails \/ DropUnused
  PROVE  IInv'
<1> USE DEF data, selection, env
<1>1. /\ UNCHANGED <<editor, server, selection, confirming, open, calls, saves, sent, foreign,
                     doubled>>
      /\ stale' \in BOOLEAN /\ listed' \in {listed, None}
  BY ScreenTyped DEF Refetch, ReadFetch, FetchFails, DropUnused
<1>2. fetch' \in [stage : {"idle", "sent", "read", "failed"}, got : (SUBSET Item) \cup {None}]
  BY ScreenTyped DEF Refetch, ReadFetch, FetchFails, DropUnused, NoFetch
<1>3. faults' \in Nat /\ foreign + faults' <= MaxUpsets
  BY ConstantsFit, ScreenTyped
     DEF Refetch, ReadFetch, FetchFails, DropUnused, Upsettable, IInv, TypeOK
<1>4. SelectionFits' /\ FetchFits'
  <2>1. listed' = listed \/ (editor = "editRole" /\ ~open)
    BY DEF Refetch, ReadFetch, FetchFails, DropUnused
  <2>2. SelectionFits'
    BY <1>1, <2>1 DEF IInv, SelectionFits, Shown, Loaded
  <2>3. editor \notin Queried => UNCHANGED <<fetch, stale, listed>>
    BY DEF Refetch, ReadFetch, FetchFails, DropUnused, IInv, FetchFits, Queried, Editors,
       Dialogs, Copies
  <2>4. fetch'.stage = "read" => fetch'.got # None
    <3>1. CASE ReadFetch
      <4>1. fetch'.got = server /\ editor \in Queried
        BY <3>1 DEF ReadFetch, IInv, FetchFits
      <4>2. QED  BY <4>1 DEF IInv, ServerFits, Queried
    <3>2. CASE Refetch \/ FetchFails \/ DropUnused
      BY <3>2 DEF Refetch, FetchFails, DropUnused, NoFetch, IInv, FetchFits
    <3>3. QED  BY <3>1, <3>2
  <2>5. QED  BY <1>1, <2>2, <2>3, <2>4 DEF IInv, FetchFits
<1>5. ScreenStep
  BY <1>1, <1>2, <1>3, <1>4, ScreenTyped, CallsFitNow DEF ScreenStep
<1>6. QED  BY <1>5, ScreenStepKeeps

\* A list that arrives loads the selection.
LEMMA StoreFetchKeeps == ASSUME IInv, StoreFetch PROVE IInv'
<1> USE DEF data, env
<1>1. /\ UNCHANGED <<editor, server, stale, confirming, open, calls, saves, sent, env, doubled>>
      /\ listed' = fetch.got /\ fetch.got \in SUBSET Item /\ editor \in Queried
      /\ fetch' \in [stage : {"idle", "sent", "read", "failed"}, got : (SUBSET Item) \cup {None}]
      /\ fetch'.stage # "read" /\ fetch.got # None
  BY ScreenTyped DEF StoreFetch, NoFetch, IInv, FetchFits
<1>2. LoadSelection(fetch.got) /\ Shown' = fetch.got
  BY <1>1 DEF StoreFetch, Shown, Loaded
<1>3. /\ SelectionFits' /\ picked' \in SUBSET Item /\ edits' \in SUBSET Item
      /\ emptied' \in BOOLEAN
  <2>1. CASE editor = "editRole" /\ open /\ fetch.got # listed /\ fetch.got # {}
    <3>1. picked' = fetch.got /\ edits' = {} /\ emptied' = FALSE
      BY <1>2, <2>1 DEF LoadSelection
    <3>2. Changed(picked', Shown') = edits'
      BY <1>2, <3>1 DEF Changed
    <3>3. QED  BY <1>1, <1>2, <2>1, <3>1, <3>2 DEF SelectionFits, Batches
  <2>2. CASE editor = "editRole" /\ open /\ fetch.got # listed /\ fetch.got = {}
    <3>1. UNCHANGED <<picked, edits>> /\ emptied' = Loaded
      BY <1>2, <2>2 DEF LoadSelection
    <3>2. ~emptied' => Changed(picked', Shown') = edits'
      <4>1. ~Loaded => ~emptied /\ Shown = {}
        BY DEF IInv, SelectionFits, Loaded, Shown
      <4>2. QED  BY <1>2, <2>2, <3>1, <4>1 DEF IInv, SelectionFits
    <3>3. QED  BY <1>1, <1>2, <2>2, <3>1, <3>2, ScreenTyped DEF SelectionFits, Batches, Loaded
  <2>3. CASE ~(editor = "editRole" /\ open /\ fetch.got # listed)
    <3>1. UNCHANGED selection
      BY <1>2, <2>3 DEF LoadSelection
    <3>2. editor = "editRole" /\ open => Shown' = Shown
      BY <1>1, <1>2, <2>3 DEF Shown, Loaded
    <3>3. QED  BY <1>1, <3>1, <3>2, ScreenTyped DEF IInv, SelectionFits, selection
  <2>4. QED  BY <2>1, <2>2, <2>3
<1>4. FetchFits'
  BY <1>1 DEF FetchFits
<1>5. ScreenStep
  BY <1>1, <1>3, <1>4, ScreenTyped, CallsFitNow DEF ScreenStep
<1>6. QED  BY <1>5, ScreenStepKeeps

\* Closing and opening a dialog.
LEMMA DialogStepsKeep ==
  ASSUME IInv, CloseDialog \/ OpenDialog
  PROVE  IInv'
<1> USE DEF data, env
<1>1. CASE CloseDialog
  <2>1. /\ editor \in Dialogs \cup Copies /\ Closed(calls)
        /\ UNCHANGED <<editor, server, data, confirming, saves, sent, env, doubled>>
    BY <1>1 DEF CloseDialog
  <2>2. FetchFits'
    BY <2>1 DEF IInv, FetchFits
  <2>3. ScreenStep
    BY <2>1, <2>2, ClosedFits, ScreenTyped DEF ScreenStep
  <2>4. QED  BY <2>3, ScreenStepKeeps
<1>2. CASE OpenDialog
  <2>1. /\ editor \in Dialogs /\ ~open /\ open' = TRUE
        /\ UNCHANGED <<editor, server, listed, stale, edits, emptied, confirming, calls, saves,
                       sent, env, doubled>>
        /\ picked' = IF editor = "editRole" /\ Loaded THEN listed ELSE {}
        /\ fetch' \in {fetch, NoFetch("sent")} /\ (editor # "editRole" => fetch' = fetch)
    BY <1>2 DEF OpenDialog
  <2>2. picked' \in SUBSET Item
    BY <2>1, ScreenTyped DEF Loaded
  <2>3. fetch' \in [stage : {"idle", "sent", "read", "failed"}, got : (SUBSET Item) \cup {None}]
    BY <2>1, ScreenTyped DEF NoFetch
  <2>4. FetchFits'
    BY <2>1 DEF IInv, FetchFits, NoFetch, Queried, Editors, Dialogs, Copies
  <2>5. SelectionFits'
    <3>1. ~emptied /\ edits = {} /\ Shown' = Shown
      BY <2>1 DEF IInv, SelectionFits, Shown, Loaded
    <3>2. editor = "editRole" => picked' = Shown /\ Changed(picked', Shown) = {}
      BY <2>1 DEF Shown, Changed
    <3>3. QED  BY <2>1, <3>1, <3>2 DEF SelectionFits, Batches, Dialogs
  <2>6. ScreenStep
    BY <2>1, <2>2, <2>3, <2>4, <2>5, ScreenTyped, CallsFitNow DEF ScreenStep
  <2>7. QED  BY <2>6, ScreenStepKeeps
<1>3. QED  BY <1>1, <1>2

-----------------------------------------------------------------------------
(* The theorems *)

LEMMA EditorStarts == Init => IInv
<1> SUFFICES ASSUME Init PROVE IInv
  OBVIOUS
<1> USE DEF Init
<1>1. /\ editor \in Editors /\ MaxPresses[editor] \in Nat
      /\ saves \in Seq(Saves) /\ Len(saves) = 0 /\ DOMAIN saves = {}
      /\ Len(saves) + sent <= MaxPresses[editor] /\ foreign + faults <= MaxUpsets
  BY ConstantsFit
<1>2. /\ server \in (SUBSET Item) \cup {None}
      /\ editor # "createRole" => server \in SUBSET Item
      /\ listed \in (SUBSET Item) \cup {None}
      /\ (editor \notin Queried => listed \in SUBSET Item)
  <2>1. CASE editor = "createRole"
    BY <2>1 DEF Copies
  <2>2. CASE editor \in Copies
    BY <2>2 DEF Copies
  <2>3. CASE editor \notin Copies \cup {"createRole"}
    BY <2>3, <1>1 DEF Queried
  <2>4. QED  BY <2>1, <2>2, <2>3
<1>3. /\ fetch \in [stage : {"idle", "sent", "read", "failed"}, got : (SUBSET Item) \cup {None}]
      /\ fetch.stage # "read" /\ (Loaded => fetch.stage = "idle")
  BY DEF NoFetch
<1>4. picked \in SUBSET Item
  BY <1>2 DEF Loaded
<1>5. TypeOK
  BY <1>1, <1>2, <1>3, <1>4, ConstantsFit DEF TypeOK
<1>6. SelectionFits
  <2>1. editor = "editRole" => picked = Shown /\ Changed(picked, Shown) = edits
    BY DEF Shown, Changed
  <2>2. QED  BY <2>1 DEF SelectionFits, Batches
<1>7. SavesFit /\ CallsFit /\ WildcardHeld /\ RemovalsFit
  BY <1>1 DEF SavesFit, CallsFit, WildcardHeld, RemovalsFit
<1>8. ServerFits /\ FetchFits
  BY <1>2, <1>3, ConstantsFit DEF ServerFits, FetchFits, Loaded
<1>9. QED  BY <1>5, <1>6, <1>7, <1>8 DEF IInv

LEMMA EditorContinues == IInv /\ [Next]_vars => IInv'
<1> SUFFICES ASSUME IInv, [Next]_vars PROVE IInv'
  OBVIOUS
<1>1. CASE \E x \in Item :
             \/ ToggleRolePermission(x) \/ ToggleNewPermission(x)
             \/ ToggleRoleUser(x) \/ ToggleGroupUser(x) \/ ChooseOption(x)
  BY <1>1, SelectionStepsKeep
<1>2. CASE \E x \in Item : AskRoleUser(x) \/ AskMember(x) \/ AskGroupRole(x)
  BY <1>2, ConfirmingKeeps
<1>3. CASE \E x \in Item :
             \/ AddGroupRole(x) \/ AddUserRole(x) \/ RemoveUserRole(x)
             \/ AddUserGroup(x) \/ RemoveUserGroup(x) \/ TogglePermission(x)
  BY <1>3, SingleRequestsKeep
<1>4. CASE \E x \in Item : ForeignChange(x)
  BY <1>4, ForeignChangeKeeps
<1>5. CASE ClearPicked
  BY <1>5, SelectionStepsKeep, ConstantsFit
<1>6. CASE DismissRemoval
  BY <1>6, ConfirmingKeeps, ConstantsFit
<1>7. CASE ConfirmRemoval
  BY <1>7, SingleRequestsKeep, ConstantsFit
<1>8. CASE SubmitRole \/ SubmitNewRole \/ AddRoleUsers \/ AddMembers
  BY <1>8, SavesBegin
<1>9. CASE \E c \in calls : Serve(c) \/ Fault(c)
  BY <1>9, ServingKeeps
<1>10. CASE \E c \in calls : Answer(c)
  BY <1>10, HeadAnsweredKeeps, BatchAnsweredKeeps, SingleAnswersKeep DEF Answer
<1>11. CASE Refetch \/ ReadFetch \/ FetchFails \/ DropUnused
  BY <1>11, FetchesKeep
<1>12. CASE StoreFetch
  BY <1>12, StoreFetchKeeps
<1>13. CASE CloseDialog \/ OpenDialog
  BY <1>13, DialogStepsKeep
<1>14. CASE UNCHANGED vars
  <2> USE <1>14 DEF vars, data, selection, env
  <2>1. TypeOK' /\ SelectionFits' /\ FetchFits'
    BY DEF IInv, TypeOK, SelectionFits, FetchFits, Shown, Loaded
  <2>2. SavesFit' /\ CallsFit' /\ ServerFits' /\ RemovalsFit' /\ WildcardHeld'
    BY DEF IInv, SavesFit, CallsFit, ServerFits, RemovalsFit, WildcardHeld
  <2>3. QED  BY <2>1, <2>2 DEF IInv
<1>15. QED
  BY <1>1, <1>2, <1>3, <1>4, <1>5, <1>6, <1>7, <1>8, <1>9, <1>10, <1>11, <1>12, <1>13, <1>14
     DEF Next

\* The inductive invariant holds whatever the items and the bounds.
THEOREM EditorInvariant == Spec => []IInv
BY EditorStarts, EditorContinues, PTL DEF Spec

\* The variables of every screen keep their types.
THEOREM EditorTyped == Spec => []TypeOK
<1>1. IInv => TypeOK
  BY DEF IInv
<1>2. QED  BY <1>1, EditorInvariant, PTL

\* "Don't allow removing admin wildcard", whatever is fetched, answered or pressed between
\* opening an editor and the requests of its save.
THEOREM WildcardIsKept == Spec => []WildcardHeld
<1>1. IInv => WildcardHeld
  BY DEF IInv
<1>2. QED  BY <1>1, EditorInvariant, PTL

\* A save asks for exactly what was toggled since its list was loaded.
THEOREM SavesAskForTheEdits == Spec => []SavesAskForEdits
<1>1. IInv => SavesAskForEdits
  BY DEF IInv, SavesFit, SavesAskForEdits
<1>2. QED  BY <1>1, EditorInvariant, PTL

\* Only the answer to a removal closes the confirmation of that removal, on any screen.
THEOREM ConfirmationsKept == Spec => ConfirmationsStayOpen
<1>1. ASSUME IInv, Next, calls' # calls, confirming # None, confirming' # confirming
      PROVE  \E c \in calls \ calls' : c.op = "remove" /\ c.item = confirming
  <2>1. PICK c \in calls : RemovalAnswered(c)
    BY <1>1
       DEF Next, Answer, Select, Toggle, ToggleRolePermission, ToggleNewPermission,
           ToggleRoleUser, ToggleGroupUser, ChooseOption, ClearPicked, Confirming, AskRoleUser,
           AskMember, AskGroupRole, DismissRemoval, Send, ConfirmRemoval, AddGroupRole,
           AddUserRole, RemoveUserRole, AddUserGroup, RemoveUserGroup, TogglePermission,
           SubmitWith, SubmitRole, SubmitNewRole, AddPicked, AddRoleUsers, AddMembers, Serve,
           Fault, ForeignChange, HeadAnswered, BatchAnswered, GroupRoleAnswered, CopyAnswered,
           PermissionAnswered, Refetch, ReadFetch, StoreFetch, FetchFails, DropUnused,
           CloseDialog, OpenDialog
  <2>2. c.op = "remove" /\ c \notin calls' /\ editor \in Batches \cup {"groupRoles"}
    BY <2>1 DEF RemovalAnswered
  <2>3. c.item = confirming
    BY <1>1, <2>2 DEF IInv, RemovalsFit
  <2>4. QED  BY <2>2, <2>3
<1>2. IInv /\ [Next]_vars =>
        [(calls' # calls /\ confirming # None /\ confirming' # confirming) =>
           \E c \in calls \ calls' : c.op = "remove" /\ c.item = confirming]_vars
  BY <1>1 DEF vars
<1>3. QED  BY <1>2, EditorInvariant, PTL DEF Spec, ConfirmationsStayOpen

-----------------------------------------------------------------------------
(* What a screen shows *)

\* Requests that change the set, not the head of a dialog's save.
Mutations == {c \in calls : c.op # "head"}

\* The list of a query, and what a fetch read, are the server's unless a request may still
\* change it or has and the invalidation waits.
ListAgrees ==
  (editor \in Queried /\ foreign = 0 /\ ~stale /\ Mutations = {}) =>
    /\ fetch.stage = "idle" /\ Loaded => listed = server
    /\ fetch.stage = "read" => fetch.got = server

\* The copies of EditUserDialog differ from the server by the requests that were served and not
\* yet answered, one for an item at most; an item is chosen while it is not in the copy.
CopyIsKept ==
  /\ \A c \in calls : /\ c.phase # "bad"
                      /\ c.op = "remove" <=> c.item \in listed
                      /\ (c.item \in server <=> c.item \in listed) <=> c.phase = "sent"
  /\ \A c, d \in calls : c.item = d.item => c = d
  /\ \A x \in Item : (\A c \in calls : c.item # x) => (x \in server <=> x \in listed)
CopiesAgree ==
  (editor \in Copies /\ open) =>
    /\ picked \cap listed = {}
    /\ foreign = 0 /\ faults = 0 /\ ~doubled => CopyIsKept

\* Requests that differ at most in whether a hook waits for them.
Alike(c, d) == c.op = d.op /\ c.item = d.item /\ c.by = d.by /\ c.phase = d.phase
SameCalls(C, D) == /\ \A d \in D : \E c \in C : Alike(c, d)
                   /\ \A c \in C : \E d \in D : Alike(c, d)

\* Taking over a hook's isLoading leaves the requests alike, one by one.
LEMMA UnwatchedSame ==
  ASSUME NEW C, C \subseteq Requests(editor), NEW ops
  PROVE  /\ SameCalls(C, Unwatched(C, ops))
         /\ (\A c, d \in C : c.item = d.item => c = d) =>
              \A c, d \in Unwatched(C, ops) : c.item = d.item => c = d
<1> DEFINE un(c) == [c EXCEPT !.watched = @ /\ c.op \notin ops]
<1>1. \A d \in Unwatched(C, ops) : \E c \in C : d = un(c)
  BY Zenon DEF Unwatched
<1>2. \A c \in C : un(c) \in Unwatched(C, ops)
  BY Zenon DEF Unwatched
<1>3. \A c \in C : Alike(c, un(c))
  BY DEF Requests, Alike
<1> HIDE DEF un
<1>4. SameCalls(C, Unwatched(C, ops))
  BY <1>1, <1>2, <1>3, Zenon DEF SameCalls
<1>5. ASSUME \A c, d \in C : c.item = d.item => c = d,
             NEW e \in Unwatched(C, ops), NEW f \in Unwatched(C, ops), e.item = f.item
      PROVE  e = f
  <2>1. PICK c \in C : e = un(c)
    BY <1>1
  <2>2. PICK d \in C : f = un(d)
    BY <1>1
  <2>3. c.item = d.item
    BY <1>3, <1>5, <2>1, <2>2 DEF Alike
  <2>4. QED  BY <1>5, <2>1, <2>2, <2>3
<1>6. QED  BY <1>4, <1>5

\* So does closing a dialog.
LEMMA MountedSame ==
  ASSUME NEW C, C \subseteq Requests(editor)
  PROVE  SameCalls(C, Mounted(C))
<1>1. CASE editor = "createRole"
  BY <1>1 DEF Mounted, SameCalls, Alike
<1>2. CASE editor # "createRole"
  <2>1. Mounted(C) = Unwatched(C, {"head", "add", "remove"})
    BY <1>2 DEF Mounted
  <2>2. SameCalls(C, Unwatched(C, {"head", "add", "remove"}))
    BY UnwatchedSame
  <2>3. QED  BY <2>1, <2>2
<1>3. QED  BY <1>1, <1>2

\* The steps, by what they do to requests, server and lists.
Selects ==
  /\ UNCHANGED <<editor, server, data, emptied, open, calls, saves, sent, env, doubled>>
  /\ editor \in Copies => picked' = picked \/ picked' \cap listed = {}
Asks(op, x) ==
  /\ Send(op, x)
  /\ editor \in Copies => IF op = "remove" THEN x \in listed ELSE x \in picked

LEMMA StepKinds ==
  ASSUME IInv, [Next]_vars
  PROVE  \/ Selects
         \/ \E op \in {"add", "remove"}, x \in Item : Asks(op, x)
         \/ Begun
         \/ \E x \in Item : ForeignChange(x)
         \/ \E c \in calls : Serve(c) \/ Fault(c) \/ Answer(c)
         \/ Refetch \/ ReadFetch \/ FetchFails \/ DropUnused \/ StoreFetch
         \/ CloseDialog \/ OpenDialog
<1> DEFINE goal ==
      \/ Selects
      \/ \E op \in {"add", "remove"}, x \in Item : Asks(op, x)
      \/ Begun
      \/ \E x \in Item : ForeignChange(x)
      \/ \E c \in calls : Serve(c) \/ Fault(c) \/ Answer(c)
      \/ Refetch \/ ReadFetch \/ FetchFails \/ DropUnused \/ StoreFetch
      \/ CloseDialog \/ OpenDialog
<1> SUFFICES goal
  OBVIOUS
<1> HIDE DEF goal
<1>0. listed \in (SUBSET Item) \cup {None}
  BY DEF IInv, TypeOK
<1>1. ASSUME NEW x \in Item,
             \/ ToggleRolePermission(x) \/ ToggleNewPermission(x)
             \/ ToggleRoleUser(x) \/ ToggleGroupUser(x)
      PROVE  goal
  <2>1. Selects
    BY <1>1 DEF ToggleRolePermission, ToggleNewPermission, ToggleRoleUser, ToggleGroupUser,
       Toggle, Select, EditRoleChip, CreateRoleChip, RoleSearchRow, GroupSearchRow, Copies,
       Selects
  <2>2. QED  BY <2>1 DEF goal
<1>2. ASSUME NEW x \in Item, ChooseOption(x) PROVE goal
  <2>1. Selects
    BY <1>2 DEF ChooseOption, GroupRoleOption, UserRoleOption, UserGroupOption, Select, Selects
  <2>2. QED  BY <2>1 DEF goal
<1>3. CASE ClearPicked
  <2>1. Selects
    BY <1>3 DEF ClearPicked, Select, Selects
  <2>2. QED  BY <2>1 DEF goal
<1>4. CASE DismissRemoval \/ \E x \in Item : AskRoleUser(x) \/ AskMember(x) \/ AskGroupRole(x)
  <2>1. Selects
    BY <1>4 DEF DismissRemoval, AskRoleUser, AskMember, AskGroupRole, Confirming, selection,
       Selects
  <2>2. QED  BY <2>1 DEF goal
<1>5. CASE ConfirmRemoval
  <2>1. confirming \in Item /\ editor \notin Copies
    BY <1>5 DEF ConfirmRemoval, IInv, TypeOK, RemovalsFit, Copies, Batches
  <2>2. Asks("remove", confirming)
    BY <1>5, <2>1 DEF ConfirmRemoval, Asks
  <2>3. QED  BY <2>1, <2>2 DEF goal
<1>6. ASSUME NEW x \in Item,
             \/ AddGroupRole(x) \/ AddUserRole(x) \/ RemoveUserRole(x)
             \/ AddUserGroup(x) \/ RemoveUserGroup(x) \/ TogglePermission(x)
      PROVE  goal
  <2>1. CASE AddGroupRole(x) \/ AddUserRole(x) \/ AddUserGroup(x)
    <3>1. Asks("add", x)
      BY <2>1 DEF AddGroupRole, AddUserRole, AddUserGroup, Asks
    <3>2. QED  BY <3>1 DEF goal
  <2>2. CASE RemoveUserRole(x) \/ RemoveUserGroup(x)
    <3>1. Asks("remove", x)
      BY <2>2 DEF RemoveUserRole, RemoveUserGroup, UserRoleChip, UserGroupChip, Asks
    <3>2. QED  BY <3>1 DEF goal
  <2>3. CASE TogglePermission(x)
    <3>1. Asks("add", x) \/ Asks("remove", x)
      BY <2>3 DEF TogglePermission, RolePermChip, Asks, Copies
    <3>2. QED  BY <3>1 DEF goal
  <2>4. QED  BY <1>6, <2>1, <2>2, <2>3
<1>7. CASE SubmitRole \/ SubmitNewRole \/ AddRoleUsers \/ AddMembers
  <2>1. Begun
    BY <1>7, ButtonsBegin
  <2>2. QED  BY <2>1 DEF goal
<1>8. CASE UNCHANGED vars
  <2>1. Selects
    BY <1>8 DEF vars, selection, Selects
  <2>2. QED  BY <2>1 DEF goal
<1>9. ASSUME NEW c \in calls, Serve(c) \/ Fault(c) \/ Answer(c) PROVE goal
  BY <1>9, Zenon DEF goal
<1>10. CASE \/ \E x \in Item : ForeignChange(x)
            \/ Refetch \/ ReadFetch \/ FetchFails \/ DropUnused \/ StoreFetch
            \/ CloseDialog \/ OpenDialog
  BY <1>10 DEF goal
<1>11. CASE Next
  BY <1>1, <1>2, <1>3, <1>4, <1>5, <1>6, <1>7, <1>9, <1>10, <1>11 DEF Next
<1>12. QED  BY <1>8, <1>11

\* A request that was served or lost is the same request in another phase.
LEMMA Serving ==
  ASSUME IInv, NEW c \in calls, Serve(c) \/ Fault(c)
  PROVE  /\ c \in Requests(editor) /\ c.phase = "sent"
         /\ \E e \in Requests(editor) :
              /\ calls' = (calls \ {c}) \cup {e} /\ e.phase \in {"ok", "bad"}
              /\ e.op = c.op /\ e.item = c.item /\ e.by = c.by
              /\ server' = server \/ (Accepted(c) /\ server' = Effect(c))
              /\ e.phase = "ok" => Accepted(c) /\ server' = Effect(c)
              /\ e.phase = "bad" /\ Accepted(c) => faults' # faults
         /\ UNCHANGED <<editor, data, selection, confirming, open, saves, sent, foreign, doubled>>
<1>1. c \in Requests(editor) /\ faults \in Nat
  BY DEF IInv, TypeOK
<1>2. PICK p \in {"ok", "bad"} :
        /\ To(c, p)
        /\ server' = server \/ (Accepted(c) /\ server' = Effect(c))
        /\ p = "ok" => Accepted(c) /\ server' = Effect(c)
        /\ p = "bad" /\ Accepted(c) => faults' # faults
  <2>1. CASE Serve(c) /\ Accepted(c)
    BY <2>1 DEF Serve
  <2>2. CASE Serve(c) /\ ~Accepted(c)
    BY <2>2 DEF Serve
  <2>3. CASE Fault(c)
    BY <1>1, <2>3 DEF Fault
  <2>4. QED  BY <2>1, <2>2, <2>3
<1> DEFINE e == [c EXCEPT !.phase = p]
<1>3. e \in Requests(editor) /\ e.op = c.op /\ e.item = c.item /\ e.by = c.by /\ e.phase = p
  BY <1>1 DEF Requests
<1>4. calls' = (calls \ {c}) \cup {e}
  BY <1>2 DEF To
<1> HIDE DEF e
<1>5. UNCHANGED <<editor, data, selection, confirming, open, saves, sent, foreign, doubled>>
      /\ c.phase = "sent"
  BY DEF Serve, Fault, env
<1>6. QED  BY <1>1, <1>2, <1>3, <1>4, <1>5

\* What the steps of an answer leave alone.
LEMMA AnswersLeave ==
  ASSUME IInv, NEW c \in calls, Answer(c)
  PROVE  /\ UNCHANGED <<editor, server, fetch, sent, env, doubled>>
         /\ editor \notin Copies => UNCHANGED listed
         /\ CallFits(c) /\ c \in Requests(editor) /\ c.phase \in {"ok", "bad"}
<1>1. c \in Requests(editor) /\ CallFits(c)
  BY CallsEachFit DEF IInv, TypeOK
<1>2. UNCHANGED <<editor, server, fetch, sent, env, doubled>> /\ c.phase # "sent"
  BY DEF Answer, HeadAnswered, BatchAnswered, RemovalAnswered, GroupRoleAnswered,
     CopyAnswered, PermissionAnswered, data
<1>3. editor \notin Copies => UNCHANGED listed
  BY DEF Answer, HeadAnswered, BatchAnswered, RemovalAnswered, GroupRoleAnswered,
     CopyAnswered, PermissionAnswered, data
<1>4. QED  BY <1>1, <1>2, <1>3 DEF Requests

\* Of the answers, only that of a dialog's head invalidates nothing, and no mutation is lost by
\* it.
LEMMA ListAnswered ==
  ASSUME IInv, ListAgrees, NEW c \in calls, Answer(c) PROVE ListAgrees'
<1> SUFFICES ASSUME editor \in Queried, foreign = 0, ~stale', Mutations' = {}
             PROVE  /\ fetch.stage = "idle" /\ Loaded => listed = server
                    /\ fetch.stage = "read" => fetch.got = server
  <2>1. UNCHANGED <<editor, server, fetch, foreign>> /\ (editor \in Queried => UNCHANGED listed)
    BY AnswersLeave DEF env, Queried
  <2>2. QED  BY <2>1 DEF ListAgrees, Loaded
<1>1. CASE HeadAnswered(c)
  <2>1. stale' = stale /\ c.op = "head"
    BY <1>1 DEF HeadAnswered, data
  <2>2. calls \ {c} \subseteq Requests(editor)
    BY DEF IInv, TypeOK
  <2>3. \A d \in calls \ {c} : \E e \in calls' : Alike(d, e)
    <3>1. calls \ {c} \subseteq calls' \/ calls' = Mounted(calls \ {c})
      BY <1>1 DEF HeadAnswered, Closed
    <3>2. SameCalls(calls \ {c}, Mounted(calls \ {c}))
      BY <2>2, MountedSame
    <3>3. QED  BY <3>1, <3>2 DEF SameCalls, Alike
  <2>4. Mutations = {}
    BY <2>1, <2>3 DEF Mutations, Alike
  <2>5. QED  BY <2>1, <2>4 DEF ListAgrees
<1>2. CASE ~HeadAnswered(c)
  <2>1. c.op # "head" /\ editor \notin Copies
    BY <1>2, AnswersLeave DEF Answer, BatchAnswered, RemovalAnswered, GroupRoleAnswered,
       CopyAnswered, PermissionAnswered, CallFits, Dialogs, Batches, Copies, Queried
  <2>2. Invalidate(c)
    BY <1>2, <2>1 DEF Answer, BatchAnswered, RemovalAnswered, GroupRoleAnswered,
       CopyAnswered, PermissionAnswered
  <2>3. QED  BY <2>1, <2>2 DEF Invalidate
<1>3. QED  BY <1>1, <1>2

\* What is listed or read stays the server's through every step.
LEMMA ListContinues == IInv /\ ListAgrees /\ [Next]_vars => ListAgrees'
<1> SUFFICES ASSUME IInv, ListAgrees, [Next]_vars PROVE ListAgrees'
  OBVIOUS
<1> USE DEF data, env
<1>1. CASE Selects
  BY <1>1 DEF Selects, ListAgrees, Mutations, Loaded
<1>2. ASSUME NEW op \in {"add", "remove"}, NEW x \in Item, Asks(op, x) PROVE ListAgrees'
  <2>1. Call(op, x, sent', TRUE) \in calls'
    BY <1>2 DEF Asks, Send
  <2>2. Mutations' # {}
    BY <2>1 DEF Mutations, Call
  <2>3. QED  BY <2>2 DEF ListAgrees
<1>3. CASE Begun
  <2>0. PICK op \in {"head", "add"}, stage \in {"head", "all"}, base \in SUBSET Item :
          \E new : Begins(op, stage, base, new)
    BY <1>3, Zenon DEF Begun
  <2>1. PICK new : Begins(op, stage, base, new)
    BY <2>0, Zenon
  <2>2. UNCHANGED <<editor, server, listed, fetch, stale, foreign>>
        /\ Unwatched(calls, {op}) \subseteq calls'
    BY <2>1 DEF Begins
  <2>3. SameCalls(calls, Unwatched(calls, {op}))
    BY UnwatchedSame DEF IInv, TypeOK
  <2>4. Mutations' = {} => Mutations = {}
    BY <2>2, <2>3 DEF SameCalls, Alike, Mutations
  <2>5. QED  BY <2>2, <2>4 DEF ListAgrees, Loaded
<1>4. ASSUME NEW x \in Item, ForeignChange(x) PROVE ListAgrees'
  BY <1>4 DEF ForeignChange, ListAgrees, IInv, TypeOK
<1>5. ASSUME NEW c \in calls, Serve(c) \/ Fault(c) PROVE ListAgrees'
  <2>1. PICK e \in Requests(editor) :
          /\ calls' = (calls \ {c}) \cup {e} /\ e.op = c.op
          /\ server' = server \/ (Accepted(c) /\ server' = Effect(c))
    BY <1>5, Serving
  <2>2. UNCHANGED <<editor, listed, fetch, stale, foreign>>
    BY <1>5, Serving
  <2>3. Mutations' = {} => Mutations = {} /\ c.op = "head"
    BY <2>1 DEF Mutations
  <2>4. c.op = "head" /\ editor \in Queried => server' = server
    BY <2>1 DEF Effect, Queried
  <2>5. QED  BY <2>2, <2>3, <2>4 DEF ListAgrees, Loaded
<1>6. ASSUME NEW c \in calls, Answer(c) PROVE ListAgrees'
  BY <1>6, ListAnswered
<1>7. CASE Refetch \/ ReadFetch \/ FetchFails \/ DropUnused
  BY <1>7 DEF Refetch, ReadFetch, FetchFails, DropUnused, NoFetch, Fetching, ListAgrees,
     Mutations, Loaded
<1>8. CASE StoreFetch
  BY <1>8 DEF StoreFetch, NoFetch, ListAgrees, Mutations
<1>9. CASE CloseDialog
  <2>1. UNCHANGED <<editor, server, listed, fetch, stale, foreign>> /\ calls' = Mounted(calls)
    BY <1>9 DEF CloseDialog, Closed
  <2>2. SameCalls(calls, Mounted(calls))
    BY MountedSame DEF IInv, TypeOK
  <2>3. Mutations' = {} => Mutations = {}
    BY <2>1, <2>2 DEF SameCalls, Alike, Mutations
  <2>4. QED  BY <2>1, <2>3 DEF ListAgrees, Loaded
<1>10. CASE OpenDialog
  BY <1>10 DEF OpenDialog, NoFetch, ListAgrees, Mutations, Loaded
<1>11. QED
  BY StepKinds, <1>1, <1>2, <1>3, <1>4, <1>5, <1>6, <1>7, <1>8, <1>9, <1>10

-----------------------------------------------------------------------------
(* The copies of EditUserDialog *)

\* A copy is a set, and so is what it copies.
LEMMA CopyTyped ==
  ASSUME IInv, editor \in Copies
  PROVE  /\ listed \in SUBSET Item /\ server \in SUBSET Item
         /\ editor \notin Queried \cup Dialogs \cup Batches \cup {"groupRoles", "rolePerms"}
         /\ \A c \in calls : c.op \in {"add", "remove"} /\ c.item \in Item
<1>1. editor \notin Queried \cup Dialogs \cup Batches \cup {"groupRoles", "rolePerms"}
  BY DEF Queried, Copies, Dialogs, Batches
<1>2. listed \in SUBSET Item /\ server \in SUBSET Item
  BY <1>1 DEF IInv, TypeOK, FetchFits, ServerFits, Dialogs
<1>3. \A c \in calls : c.op \in {"add", "remove"} /\ c.item \in Item
  BY <1>1 DEF IInv, TypeOK, CallsFit, Requests
<1>4. QED  BY <1>1, <1>2, <1>3

\* A request for an item that none is under way for.
LEMMA CopyAsks ==
  ASSUME IInv, CopiesAgree, editor \in Copies, open, NEW op \in {"add", "remove"},
         NEW x \in Item, Asks(op, x)
  PROVE  CopiesAgree'
<1> USE DEF data, selection, env
<1>1. /\ UNCHANGED <<editor, server, listed, picked, open, foreign, faults>>
      /\ calls' = Unwatched(calls, {op}) \cup {Call(op, x, sent', TRUE)}
      /\ doubled' = (doubled \/ \E c \in calls : c.op = op /\ c.item = x)
      /\ op = "remove" <=> x \in listed
  BY DEF Asks, Send, CopiesAgree
<1> SUFFICES ASSUME foreign = 0, faults = 0, ~doubled' PROVE CopyIsKept'
  BY <1>1 DEF CopiesAgree
<1>2. CopyIsKept /\ \A c \in calls : ~(c.op = op /\ c.item = x)
  BY <1>1 DEF CopiesAgree
<1>3. \A c \in calls : c.item # x
  BY <1>1, <1>2, CopyTyped DEF CopyIsKept
<1> DEFINE old == Unwatched(calls, {op})
           new == Call(op, x, sent', TRUE)
<1>4. /\ SameCalls(calls, old)
      /\ \A c, d \in old : c.item = d.item => c = d
  BY <1>2, UnwatchedSame DEF CopyIsKept, IInv, TypeOK
<1>5. new.op = op /\ new.item = x /\ new.phase = "sent"
  BY DEF Call
<1>6. calls' = old \cup {new}
  BY <1>1
<1> HIDE DEF old, new
<1>7. \A d \in old : d.item # x
  BY <1>3, <1>4 DEF SameCalls, Alike
<1>8. x \in server <=> x \in listed
  BY <1>2, <1>3 DEF CopyIsKept
<1>9. \A c \in calls' : /\ c.phase # "bad" /\ (c.op = "remove" <=> c.item \in listed)
                        /\ (c.item \in server <=> c.item \in listed) <=> c.phase = "sent"
  <2>1. ASSUME NEW d \in old
        PROVE  /\ d.phase # "bad" /\ (d.op = "remove" <=> d.item \in listed)
               /\ (d.item \in server <=> d.item \in listed) <=> d.phase = "sent"
    <3>1. PICK c \in calls : Alike(c, d)
      BY <1>4 DEF SameCalls
    <3>2. QED  BY <1>2, <3>1 DEF CopyIsKept, Alike
  <2>2. QED  BY <1>1, <1>5, <1>6, <1>8, <2>1
<1>10. \A c, d \in calls' : c.item = d.item => c = d
  BY <1>4, <1>5, <1>6, <1>7
<1>11. \A y \in Item : (\A c \in calls' : c.item # y) => (y \in server <=> y \in listed)
  <2> SUFFICES ASSUME NEW y \in Item, \A c \in calls' : c.item # y
               PROVE  y \in server <=> y \in listed
    OBVIOUS
  <2>1. \A c \in calls : c.item # y
    BY <1>4, <1>6 DEF SameCalls, Alike
  <2>2. QED  BY <1>2, <2>1 DEF CopyIsKept
<1>12. QED  BY <1>1, <1>9, <1>10, <1>11 DEF CopyIsKept

\* The server accepts what the copy allows to be asked for.
LEMMA CopyServed ==
  ASSUME IInv, CopiesAgree, editor \in Copies, open, NEW c \in calls, Serve(c) \/ Fault(c)
  PROVE  CopiesAgree'
<1>1. PICK e \in Requests(editor) :
        /\ calls' = (calls \ {c}) \cup {e} /\ e.phase \in {"ok", "bad"}
        /\ e.op = c.op /\ e.item = c.item
        /\ e.phase = "ok" => Accepted(c) /\ server' = Effect(c)
        /\ e.phase = "bad" /\ Accepted(c) => faults' # faults
  BY Serving
<1>2. UNCHANGED <<editor, listed, picked, open, foreign, doubled>> /\ c.phase = "sent"
  BY Serving DEF data, selection
<1> SUFFICES ASSUME foreign = 0, faults' = 0, ~doubled PROVE CopyIsKept'
  BY <1>2 DEF CopiesAgree
<1>3. faults = 0 /\ faults' = faults
  <2>1. faults \in Nat
    BY DEF IInv, TypeOK
  <2>2. faults' = faults \/ faults' = faults + 1
    BY DEF Serve, Fault, env
  <2>3. QED  BY <2>1, <2>2
<1>4. CopyIsKept
  BY <1>3 DEF CopiesAgree
<1>5. /\ c.op \in {"add", "remove"} /\ (c.op = "remove" <=> c.item \in listed)
      /\ c.item \in server <=> c.item \in listed
  BY <1>2, <1>4, CopyTyped DEF CopyIsKept
<1>6. Accepted(c)
  BY <1>5 DEF Accepted
<1>7. e.phase = "ok" /\ server' = Effect(c)
  BY <1>1, <1>3, <1>6
<1>8. /\ \A y : y # c.item => (y \in server' <=> y \in server)
      /\ c.item \in server' <=> c.item \notin server
  <2>1. CASE c.op = "add"
    BY <1>5, <1>7, <2>1 DEF Effect
  <2>2. CASE c.op = "remove"
    BY <1>5, <1>7, <2>2 DEF Effect
  <2>3. QED  BY <1>5, <2>1, <2>2
<1>9. \A d \in calls \ {c} : d.item # c.item
  BY <1>4 DEF CopyIsKept
<1>10. \A d \in calls' : /\ d.phase # "bad" /\ (d.op = "remove" <=> d.item \in listed)
                         /\ (d.item \in server' <=> d.item \in listed) <=> d.phase = "sent"
  <2>1. ASSUME NEW d \in calls \ {c}
        PROVE  /\ d.phase # "bad" /\ (d.op = "remove" <=> d.item \in listed)
               /\ (d.item \in server' <=> d.item \in listed) <=> d.phase = "sent"
    BY <1>4, <1>8, <1>9 DEF CopyIsKept
  <2>2. QED  BY <1>1, <1>5, <1>7, <1>8, <2>1
<1>11. \A d, f \in calls' : d.item = f.item => d = f
  BY <1>1, <1>4, <1>9 DEF CopyIsKept
<1>12. \A y \in Item : (\A d \in calls' : d.item # y) => (y \in server' <=> y \in listed)
  <2> SUFFICES ASSUME NEW y \in Item, \A d \in calls' : d.item # y
               PROVE  y \in server' <=> y \in listed
    OBVIOUS
  <2>1. y # c.item /\ \A d \in calls : d.item # y
    BY <1>1
  <2>2. QED  BY <1>4, <1>8, <2>1 DEF CopyIsKept
<1>13. QED  BY <1>2, <1>10, <1>11, <1>12 DEF CopyIsKept

\* An answer brings the copy to where the server already is.
LEMMA CopyIsAnswered ==
  ASSUME IInv, CopiesAgree, editor \in Copies, open, NEW c \in calls, Answer(c)
  PROVE  CopiesAgree'
<1>1. CopyAnswered(c)
  BY CopyTyped DEF Answer, HeadAnswered, BatchAnswered, RemovalAnswered, GroupRoleAnswered,
     PermissionAnswered
<1>2. UNCHANGED <<editor, server, open, foreign, faults, doubled>> /\ calls' = calls \ {c}
  BY <1>1 DEF CopyAnswered, env
<1>3. picked' \cap listed' = {}
  BY <1>1, CopyTyped DEF CopyAnswered, CopiesAgree
<1> SUFFICES ASSUME foreign = 0, faults = 0, ~doubled PROVE CopyIsKept'
  BY <1>2, <1>3 DEF CopiesAgree
<1>4. CopyIsKept
  BY DEF CopiesAgree
<1>5. /\ c.op \in {"add", "remove"} /\ c.phase = "ok" /\ (c.op = "remove" <=> c.item \in listed)
      /\ c.item \in server <=> c.item \notin listed
  BY <1>1, <1>4, AnswersLeave, CopyTyped DEF CopyIsKept
<1>6. /\ \A y : y # c.item => (y \in listed' <=> y \in listed)
      /\ c.item \in listed' <=> c.item \in server
  BY <1>1, <1>5 DEF CopyAnswered
<1>7. \A d \in calls' : d.item # c.item
  BY <1>2, <1>4 DEF CopyIsKept
<1>8. \A d \in calls' : /\ d.phase # "bad" /\ (d.op = "remove" <=> d.item \in listed')
                        /\ (d.item \in server <=> d.item \in listed') <=> d.phase = "sent"
  BY <1>2, <1>4, <1>6, <1>7 DEF CopyIsKept
<1>9. \A d, f \in calls' : d.item = f.item => d = f
  BY <1>2, <1>4 DEF CopyIsKept
<1>10. \A y \in Item : (\A d \in calls' : d.item # y) => (y \in server <=> y \in listed')
  <2> SUFFICES ASSUME NEW y \in Item, \A d \in calls' : d.item # y
               PROVE  y \in server <=> y \in listed'
    OBVIOUS
  <2>1. CASE y = c.item
    BY <1>6, <2>1
  <2>2. CASE y # c.item
    BY <1>2, <1>4, <1>6, <2>2 DEF CopyIsKept
  <2>3. QED  BY <2>1, <2>2
<1>11. QED  BY <1>2, <1>8, <1>9, <1>10 DEF CopyIsKept

\* No step takes a copy further from the server than its requests.
LEMMA CopiesContinue == IInv /\ CopiesAgree /\ [Next]_vars => CopiesAgree'
<1> SUFFICES ASSUME IInv, CopiesAgree, [Next]_vars, editor' \in Copies, open'
             PROVE  CopiesAgree'
  BY DEF CopiesAgree
<1> USE DEF data, env
<1>1. editor' = editor
  BY DEF vars, Next, Answer, Select, Toggle, ToggleRolePermission, ToggleNewPermission,
     ToggleRoleUser, ToggleGroupUser, ChooseOption, ClearPicked, Confirming, AskRoleUser,
     AskMember, AskGroupRole, DismissRemoval, Send, ConfirmRemoval, AddGroupRole, AddUserRole,
     RemoveUserRole, AddUserGroup, RemoveUserGroup, TogglePermission, SubmitWith, SubmitRole,
     SubmitNewRole, AddPicked, AddRoleUsers, AddMembers, Serve, Fault, ForeignChange,
     HeadAnswered, BatchAnswered, RemovalAnswered, GroupRoleAnswered, CopyAnswered,
     PermissionAnswered, Refetch, ReadFetch, StoreFetch, FetchFails, DropUnused, CloseDialog,
     OpenDialog
<1>2. editor \in Copies /\ editor \notin Dialogs \cup Batches /\ editor # "editRole"
  BY <1>1 DEF Copies, Dialogs, Batches
<1>3. CASE Selects
  BY <1>2, <1>3 DEF Selects, CopiesAgree, CopyIsKept
<1>4. ASSUME NEW op \in {"add", "remove"}, NEW x \in Item, Asks(op, x) PROVE CopiesAgree'
  BY <1>2, <1>4, CopyAsks DEF Asks, Send
<1>5. CASE Begun
  BY <1>2, <1>5 DEF Begun, Begins
<1>6. ASSUME NEW x \in Item, ForeignChange(x) PROVE CopiesAgree'
  <2>1. foreign \in Nat /\ foreign' = foreign + 1
    BY <1>6 DEF ForeignChange, IInv, TypeOK
  <2>2. UNCHANGED <<open, picked, listed>>
    BY <1>6 DEF ForeignChange, selection
  <2>3. QED  BY <1>2, <2>1, <2>2 DEF CopiesAgree
<1>7. ASSUME NEW c \in calls, Serve(c) \/ Fault(c) PROVE CopiesAgree'
  <2>1. open
    BY <1>7, Serving
  <2>2. QED  BY <1>2, <1>7, <2>1, CopyServed
<1>8. ASSUME NEW c \in calls, Answer(c) PROVE CopiesAgree'
  <2>1. CopyAnswered(c)
    BY <1>2, <1>8, CopyTyped DEF Answer, HeadAnswered, BatchAnswered, RemovalAnswered,
       GroupRoleAnswered, PermissionAnswered
  <2>2. open
    BY <2>1 DEF CopyAnswered
  <2>3. QED  BY <1>2, <1>8, <2>2, CopyIsAnswered
<1>9. CASE Refetch \/ ReadFetch \/ FetchFails \/ DropUnused \/ StoreFetch \/ OpenDialog
  BY <1>2, <1>9, CopyTyped DEF Refetch, ReadFetch, FetchFails, DropUnused, StoreFetch,
     OpenDialog, IInv, FetchFits
<1>10. CASE CloseDialog
  BY <1>10 DEF CloseDialog, Closed
<1>11. QED
  BY StepKinds, <1>3, <1>4, <1>5, <1>6, <1>7, <1>8, <1>9, <1>10

-----------------------------------------------------------------------------
(* What a save achieves *)

\* Before the first request, and without other clients, the server is as it was when the screen
\* was opened, and so is what is listed or read.
Untouched ==
  (foreign = 0 /\ sent = 0 /\ Len(saves) = 0) =>
    /\ calls = {} /\ ~emptied
    /\ editor \in Queried => /\ listed \in {None, server}
                             /\ fetch.stage = "read" => fetch.got = server

\* The server holds of an item what the first save chose.
Agrees(x) == x \in server <=> x \in saves[1].chosen

\* The requests C of the only save, which is at the stage given: each is for an item the user
\* toggled and moves the server towards what was chosen; until the save has failed, every item
\* toggled is as chosen or has a request, and all are as chosen when it is done.
FirstFits(C, stage) ==
  /\ editor \in Dialogs \cup Batches
  /\ editor \in Batches => saves[1].chosen = saves[1].asked
  /\ Changed(saves[1].chosen, saves[1].base) = saves[1].asked
  /\ \A c \in C :
       /\ c.by = 1
       /\ c.op # "head" => /\ c.item \in saves[1].asked
                           /\ c.op = "add" <=> c.item \in saves[1].chosen
                           /\ c.phase = "ok" => Agrees(c.item)
  /\ stage \in {"all", "done"} => server # None
  /\ stage = "all" =>
       \A x \in saves[1].asked : Agrees(x) \/ \E c \in C : c.op # "head" /\ c.item = x
  /\ stage = "done" => \A x \in saves[1].asked : Agrees(x)

Alone == foreign = 0 /\ sent = 0 /\ Len(saves) = 1
FirstSave == Alone => FirstFits(calls, saves[1].stage)

\* The first save does not depend on who waits for its requests.
LEMMA FirstSame ==
  ASSUME NEW C, NEW D, SameCalls(C, D), NEW stage, FirstFits(C, stage)
  PROVE  FirstFits(D, stage)
<1>1. \A d \in D : /\ d.by = 1
                   /\ d.op # "head" => /\ d.item \in saves[1].asked
                                       /\ d.op = "add" <=> d.item \in saves[1].chosen
                                       /\ d.phase = "ok" => Agrees(d.item)
  BY DEF SameCalls, Alike, FirstFits
<1>2. \A x : (\E c \in C : c.op # "head" /\ c.item = x) => \E d \in D : d.op # "head" /\ d.item = x
  BY DEF SameCalls, Alike
<1>3. QED  BY <1>1, <1>2 DEF FirstFits

\* A step that keeps the server and moves at most the stage of the save.
LEMMA FirstMoves ==
  ASSUME IInv, Alone, UNCHANGED <<editor, server>>,
         saves' = saves \/ \E s \in {"head", "all", "done", "failed"} : Stage(1, s),
         FirstFits(calls', saves'[1].stage)
  PROVE  FirstSave'
<1>1. saves \in Seq(Saves) /\ 1 \in DOMAIN saves
  BY DEF IInv, TypeOK, Alone
<1>2. /\ saves'[1].chosen = saves[1].chosen /\ saves'[1].base = saves[1].base
      /\ saves'[1].asked = saves[1].asked
  BY <1>1, StagedSaves
<1>3. QED  BY <1>2 DEF FirstSave, FirstFits, Agrees

\* The stage a save is moved to.
LEMMA StageOfFirst ==
  ASSUME IInv, Alone, NEW s \in {"head", "all", "done", "failed"}, Stage(1, s)
  PROVE  saves'[1].stage = s
<1>1. saves \in Seq(Saves) /\ 1 \in DOMAIN saves
  BY DEF IInv, TypeOK, Alone
<1>2. saves[1] \in Saves
  BY <1>1
<1>3. QED  BY <1>1, <1>2 DEF Stage, Saves

\* The first save begins on what the server holds.
LEMMA FirstBegins ==
  ASSUME IInv, Untouched, NEW op \in {"head", "add"}, NEW stage \in {"head", "all"},
         NEW base \in SUBSET Item, NEW new, Begins(op, stage, base, new)
  PROVE  FirstSave'
<1> DEFINE s == NewSave(stage, base)
<1>1. /\ s.stage = stage /\ s.chosen = picked /\ s.base = base /\ s.asked = edits
      /\ s \in Saves /\ saves' = Append(saves, s) /\ saves \in Seq(Saves)
  BY NewSaveTyped DEF NewSave, Begins, IInv, TypeOK
<1> HIDE DEF s
<1>2. Len(saves) \in Nat /\ Len(saves') = Len(saves) + 1
  BY <1>1
<1> SUFFICES ASSUME foreign = 0, sent = 0, Len(saves) = 0
             PROVE  FirstFits(calls, saves[1].stage)'
  BY <1>2 DEF FirstSave, Alone, Begins, env
<1>3. saves'[1] = s
  BY <1>1
<1>4. calls = {} /\ ~emptied
  BY DEF Untouched
<1>5. calls' = new /\ UNCHANGED <<editor, server>>
  BY <1>4 DEF Begins, Unwatched
<1>6. /\ Changed(picked, base) = edits
      /\ \A d \in new : /\ d.op = op /\ d.by = 1 /\ d.phase = "sent"
                        /\ op = "add" => d.item \in picked
  BY <1>4 DEF Begins
<1>7. CASE op = "head"
  <2>1. editor \in Dialogs /\ editor \notin Batches /\ stage = "head"
    BY <1>7 DEF Begins, Dialogs, Batches
  <2>2. \A d \in calls' : d.by = 1 /\ d.op = "head"
    BY <1>5, <1>6, <1>7
  <2>3. QED  BY <1>1, <1>3, <1>5, <1>6, <2>1, <2>2 DEF FirstFits
<1>8. CASE op = "add"
  <2>1. editor \in Batches /\ stage = "all" /\ \A x \in picked : \E d \in new : d.item = x
    BY <1>8 DEF Begins
  <2>2. picked = edits /\ server # None
    BY <2>1 DEF IInv, SelectionFits, ServerFits, Batches
  <2>3. \A d \in calls' : d.by = 1 /\ d.op = "add" /\ d.item \in picked /\ d.phase = "sent"
    BY <1>5, <1>6, <1>8
  <2>4. \A x \in edits : \E d \in calls' : d.op # "head" /\ d.item = x
    BY <1>5, <1>6, <1>8, <2>1, <2>2
  <2>5. QED  BY <1>1, <1>3, <1>5, <1>6, <2>1, <2>2, <2>3, <2>4 DEF FirstFits
<1>9. QED  BY <1>7, <1>8

\* Its requests move the server towards what was chosen, whether their answers arrive or not.
LEMMA FirstServed ==
  ASSUME IInv, IInv', Alone, FirstSave, NEW c \in calls, Serve(c) \/ Fault(c)
  PROVE  FirstSave'
<1>1. PICK e \in Requests(editor) :
        /\ calls' = (calls \ {c}) \cup {e} /\ e.op = c.op /\ e.item = c.item /\ e.by = c.by
        /\ server' = server \/ (Accepted(c) /\ server' = Effect(c))
        /\ e.phase = "ok" => Accepted(c) /\ server' = Effect(c)
  BY Serving
<1>2. c \in Requests(editor) /\ UNCHANGED <<editor, saves>>
  BY Serving
<1>3. FirstFits(calls, saves[1].stage)
  BY DEF FirstSave
<1>4. CASE c.op = "head"
  <2>1. CASE server' = server
    <3>1. \A x : Agrees(x)' <=> Agrees(x)
      BY <1>2, <2>1 DEF Agrees
    <3>2. \A d \in calls' : d \in calls \/ (d.op = "head" /\ d.by = 1)
      BY <1>1, <1>3, <1>4 DEF FirstFits
    <3>3. \A d \in calls : d.op # "head" => d \in calls'
      BY <1>1, <1>4
    <3>4. QED  BY <1>2, <1>3, <2>1, <3>1, <3>2, <3>3 DEF FirstSave, FirstFits
  <2>2. CASE server' # server
    <3>1. editor = "createRole" /\ server = None
      BY <1>1, <1>4, <2>2 DEF Effect, Accepted
    <3>2. \A d \in calls : d.op = "head"
      BY <3>1 DEF IInv, ServerFits
    <3>3. \A d \in calls' : d.op = "head" /\ d.by = 1
      BY <1>1, <1>3, <1>4, <3>2 DEF FirstFits
    <3>4. saves[1].stage \notin {"all", "done"}
      BY <1>3, <3>1 DEF FirstFits
    <3>5. QED  BY <1>2, <1>3, <3>3, <3>4 DEF FirstSave, FirstFits
  <2>3. QED  BY <2>1, <2>2
<1>5. CASE c.op # "head"
  <2>1. /\ c.by = 1 /\ c.item \in saves[1].asked
        /\ c.op = "add" <=> c.item \in saves[1].chosen
        /\ c.op \in {"add", "remove"} /\ server # None
    BY <1>2, <1>3, <1>5 DEF FirstFits, Requests, IInv, ServerFits
  <2>2. e \in calls' /\ server' # None
    BY <1>1, <1>5 DEF IInv, ServerFits
  <2>3. /\ \A x : Agrees(x) => Agrees(x)'
        /\ server' = Effect(c) => Agrees(c.item)'
    <3>1. CASE c.op = "add"
      <4>1. Effect(c) = server \cup {c.item}
        BY <3>1 DEF Effect
      <4>2. QED  BY <1>1, <1>2, <2>1, <3>1, <4>1 DEF Agrees
    <3>2. CASE c.op = "remove"
      <4>1. Effect(c) = server \ {c.item}
        BY <3>2 DEF Effect
      <4>2. QED  BY <1>1, <1>2, <2>1, <3>2, <4>1 DEF Agrees
    <3>3. QED  BY <2>1, <3>1, <3>2
  <2>4. \A d \in calls' : /\ d.by = 1
                          /\ d.op # "head" => /\ d.item \in saves[1].asked
                                              /\ d.op = "add" <=> d.item \in saves[1].chosen
                                              /\ d.phase = "ok" => Agrees(d.item)'
    BY <1>1, <1>3, <2>1, <2>3 DEF FirstFits
  <2>5. \A x : (\E d \in calls : d.op # "head" /\ d.item = x) =>
                 \E d \in calls' : d.op # "head" /\ d.item = x
    BY <1>1, <2>2
  <2>6. QED  BY <1>2, <1>3, <2>2, <2>3, <2>4, <2>5 DEF FirstSave, FirstFits
<1>6. QED  BY <1>4, <1>5

\* The head's answer lets the requests of the save begin.
LEMMA FirstHeadAnswered ==
  ASSUME IInv, Alone, FirstSave, NEW c \in calls, HeadAnswered(c)
  PROVE  FirstSave'
<1> DEFINE s == saves[1]
           toAssign == s.chosen \ s.base
           toRemove == s.base \ s.chosen
           rest == calls \ {c}
<1>1. FirstFits(calls, s.stage) /\ c.by = 1 /\ c.op = "head" /\ UNCHANGED <<editor, server>>
  BY DEF FirstSave, FirstFits, HeadAnswered
<1>2. toAssign \cup toRemove = s.asked
  BY <1>1 DEF FirstFits, Changed
<1>3. CASE c.phase = "bad" /\ Stage(1, "failed") /\ calls' = rest
  <2>1. saves'[1].stage = "failed" /\ FirstFits(rest, "failed")
    BY <1>1, <1>3, StageOfFirst DEF FirstFits
  <2>2. QED  BY <1>1, <1>3, <2>1, FirstMoves
<1>4. CASE /\ c.phase = "ok" /\ Stage(1, "all")
           /\ calls' = rest \cup {Call("add", x, 1, FALSE) : x \in toAssign}
                            \cup {Call("remove", x, 1, FALSE) : x \in toRemove}
  <2> DEFINE adds == {Call("add", x, 1, FALSE) : x \in toAssign}
             removes == {Call("remove", x, 1, FALSE) : x \in toRemove}
  <2>1. server # None
    BY <1>4 DEF IInv, ServerFits
  <2>2. \A d \in adds : /\ d.by = 1 /\ d.op = "add" /\ d.phase = "sent"
                        /\ d.item \in s.asked /\ d.item \in s.chosen
    <3> SUFFICES ASSUME NEW x \in toAssign, NEW d, d = Call("add", x, 1, FALSE)
                 PROVE  /\ d.by = 1 /\ d.op = "add" /\ d.phase = "sent"
                        /\ d.item \in s.asked /\ d.item \in s.chosen
      OBVIOUS
    <3>1. d.op = "add" /\ d.item = x /\ d.by = 1 /\ d.phase = "sent"
      BY DEF Call
    <3>2. QED  BY <1>2, <3>1
  <2>3. \A d \in removes : /\ d.by = 1 /\ d.op = "remove" /\ d.phase = "sent"
                           /\ d.item \in s.asked /\ d.item \notin s.chosen
    <3> SUFFICES ASSUME NEW x \in toRemove, NEW d, d = Call("remove", x, 1, FALSE)
                 PROVE  /\ d.by = 1 /\ d.op = "remove" /\ d.phase = "sent"
                        /\ d.item \in s.asked /\ d.item \notin s.chosen
      OBVIOUS
    <3>1. d.op = "remove" /\ d.item = x /\ d.by = 1 /\ d.phase = "sent"
      BY DEF Call
    <3>2. QED  BY <1>2, <3>1
  <2>4. \A x \in s.asked : \E d \in adds \cup removes : d.op # "head" /\ d.item = x
    <3>1. ASSUME NEW x \in toAssign PROVE \E d \in adds : d.op # "head" /\ d.item = x
      <4>1. Call("add", x, 1, FALSE) \in adds
        OBVIOUS
      <4>2. QED  BY <4>1 DEF Call
    <3>2. ASSUME NEW x \in toRemove PROVE \E d \in removes : d.op # "head" /\ d.item = x
      <4>1. Call("remove", x, 1, FALSE) \in removes
        OBVIOUS
      <4>2. QED  BY <4>1 DEF Call
    <3>3. QED  BY <1>2, <3>1, <3>2
  <2>5. calls' = rest \cup adds \cup removes
    BY <1>4
  <2> HIDE DEF adds, removes
  <2>6. FirstFits(calls', "all")
    BY <1>1, <2>1, <2>2, <2>3, <2>4, <2>5 DEF FirstFits
  <2>7. saves'[1].stage = "all"
    BY <1>4, StageOfFirst
  <2>8. QED  BY <1>1, <1>4, <2>6, <2>7, FirstMoves
<1>5. CASE c.phase = "ok" /\ toAssign \cup toRemove = {} /\ Stage(1, "done") /\ Closed(rest)
  <2>1. server # None /\ rest \subseteq Requests(editor)
    BY <1>5 DEF IInv, ServerFits, TypeOK
  <2>2. FirstFits(rest, "done")
    BY <1>1, <1>2, <1>5, <2>1 DEF FirstFits
  <2>3. FirstFits(calls', "done")
    BY <1>5, <2>1, <2>2, FirstSame, MountedSame DEF Closed
  <2>4. saves'[1].stage = "done"
    BY <1>5, StageOfFirst
  <2>5. QED  BY <1>1, <1>5, <2>3, <2>4, FirstMoves
<1>6. QED  BY <1>1, <1>3, <1>4, <1>5 DEF HeadAnswered

\* The save is done when its last request has succeeded, and only then.
LEMMA FirstBatchAnswered ==
  ASSUME IInv, Alone, FirstSave, NEW c \in calls, BatchAnswered(c)
  PROVE  FirstSave'
<1> DEFINE s == saves[1]
           rest == calls \ {c}
           mates == {d \in rest : d.by = 1 /\ (editor \in Batches => d.op = "add")}
<1>1. /\ FirstFits(calls, s.stage) /\ c.by = 1 /\ c.op # "head"
      /\ UNCHANGED <<editor, server>> /\ rest \subseteq Requests(editor)
  BY DEF FirstSave, FirstFits, BatchAnswered, IInv, TypeOK
<1>2. c.phase = "ok" => Agrees(c.item)
  BY <1>1 DEF FirstFits
<1>3. CASE Stage(1, "failed") /\ calls' = rest
  <2>1. saves'[1].stage = "failed" /\ FirstFits(rest, "failed")
    BY <1>1, <1>3, StageOfFirst DEF FirstFits
  <2>2. QED  BY <1>1, <1>3, <2>1, FirstMoves
<1>4. CASE /\ s.stage = "all" /\ c.phase = "ok" /\ mates = {} /\ Stage(1, "done")
           /\ calls' = rest \/ Closed(rest)
  <2>1. \A d \in rest : d.op = "head"
    BY <1>1, <1>4 DEF FirstFits
  <2>2. \A x \in s.asked : Agrees(x)
    BY <1>1, <1>2, <1>4, <2>1 DEF FirstFits
  <2>3. FirstFits(rest, "done")
    BY <1>1, <1>4, <2>2 DEF FirstFits
  <2>4. FirstFits(calls', "done")
    BY <1>1, <1>4, <2>3, FirstSame, MountedSame DEF Closed
  <2>5. saves'[1].stage = "done"
    BY <1>4, StageOfFirst
  <2>6. QED  BY <1>1, <1>4, <2>4, <2>5, FirstMoves
<1>5. CASE /\ s.stage # "all" \/ c.phase = "ok"
           /\ calls' = rest /\ saves' = saves
  <2>1. FirstFits(rest, s.stage)
    BY <1>1, <1>2, <1>5 DEF FirstFits
  <2>2. QED  BY <1>1, <1>5, <2>1, FirstMoves
<1>6. QED  BY <1>1, <1>3, <1>4, <1>5 DEF BatchAnswered

\* Every step of the first save leads to what it chose, or fails it.
LEMMA FirstContinues ==
  IInv /\ Untouched /\ FirstSave /\ [Next]_vars => FirstSave'
<1> SUFFICES ASSUME IInv, IInv', Untouched, FirstSave, [Next]_vars PROVE FirstSave'
  BY EditorContinues
<1> USE DEF env
<1>0. saves \in Seq(Saves) /\ Len(saves) \in Nat /\ sent \in Nat /\ foreign \in Nat
  BY DEF IInv, TypeOK
<1>1. ASSUME UNCHANGED <<editor, server, saves, sent, foreign>>, SameCalls(calls, calls')
      PROVE  FirstSave'
  <2>1. Alone' = Alone
    BY <1>1 DEF Alone
  <2>2. Alone => FirstFits(calls', saves'[1].stage)
    BY <1>1, FirstSame DEF FirstSave
  <2>3. QED  BY <1>1, <2>1, <2>2, FirstMoves DEF FirstSave
<1>2. SameCalls(calls, calls) /\ SameCalls(calls, Mounted(calls))
  BY MountedSame DEF SameCalls, Alike, IInv, TypeOK
<1>3. CASE Selects
  BY <1>1, <1>2, <1>3 DEF Selects
<1>4. ASSUME NEW op \in {"add", "remove"}, NEW x \in Item, Asks(op, x) PROVE FirstSave'
  BY <1>0, <1>4 DEF Asks, Send, FirstSave, Alone
<1>5. CASE Begun
  BY <1>5, FirstBegins DEF Begun
<1>6. ASSUME NEW x \in Item, ForeignChange(x) PROVE FirstSave'
  BY <1>0, <1>6 DEF ForeignChange, FirstSave, Alone
<1>7. ASSUME NEW c \in calls, Serve(c) \/ Fault(c) PROVE FirstSave'
  <2>1. Alone' => Alone
    BY <1>7, Serving DEF Alone
  <2>2. QED  BY <1>7, <2>1, FirstServed DEF FirstSave
<1>8. ASSUME NEW c \in calls, Answer(c) PROVE FirstSave'
  <2>1. CASE ~Alone
    <3>1. UNCHANGED <<sent, foreign>> /\ Len(saves') = Len(saves)
      <4>1. saves' = saves \/ \E i, st : st \in {"all", "done", "failed"} /\ Stage(i, st)
        BY <1>8 DEF Answer, HeadAnswered, BatchAnswered, RemovalAnswered, GroupRoleAnswered,
           CopyAnswered, PermissionAnswered
      <4>2. QED  BY <1>0, <1>8, <4>1, AnswersLeave, StagedSaves
    <3>2. QED  BY <2>1, <3>1 DEF FirstSave, Alone
  <2>2. CASE Alone
    <3>1. FirstFits(calls, saves[1].stage)
      BY <2>2 DEF FirstSave
    <3>2. HeadAnswered(c) \/ BatchAnswered(c)
      BY <1>8, <3>1 DEF Answer, RemovalAnswered, GroupRoleAnswered, CopyAnswered,
         PermissionAnswered, FirstFits, Dialogs, Batches, Copies
    <3>3. QED  BY <2>2, <3>2, FirstHeadAnswered, FirstBatchAnswered
  <2>3. QED  BY <2>1, <2>2
<1>9. CASE Refetch \/ ReadFetch \/ FetchFails \/ DropUnused \/ StoreFetch \/ OpenDialog
  BY <1>1, <1>2, <1>9 DEF Refetch, ReadFetch, FetchFails, DropUnused, StoreFetch, OpenDialog
<1>10. CASE CloseDialog
  BY <1>1, <1>2, <1>10 DEF CloseDialog, Closed
<1>11. QED
  BY StepKinds, <1>3, <1>4, <1>5, <1>6, <1>7, <1>8, <1>9, <1>10

\* Until something is sent, fetches read the same set again.
LEMMA UntouchedContinues == IInv /\ Untouched /\ [Next]_vars => Untouched'
<1> SUFFICES ASSUME IInv, Untouched, [Next]_vars,
                    foreign' = 0, sent' = 0, Len(saves') = 0
             PROVE  Untouched'
  BY DEF Untouched
<1> USE DEF data, env
<1>0. saves \in Seq(Saves) /\ Len(saves) \in Nat /\ sent \in Nat /\ foreign \in Nat
  BY DEF IInv, TypeOK
<1>1. CASE Selects
  BY <1>1 DEF Selects, Untouched
<1>2. ASSUME NEW op \in {"add", "remove"}, NEW x \in Item, Asks(op, x) PROVE FALSE
  BY <1>0, <1>2 DEF Asks, Send
<1>3. ASSUME Begun PROVE FALSE
  <2>1. PICK s : saves' = Append(saves, s)
    BY <1>3 DEF Begun, Begins
  <2>2. QED  BY <1>0, <2>1
<1>4. ASSUME NEW x \in Item, ForeignChange(x) PROVE FALSE
  BY <1>0, <1>4 DEF ForeignChange
<1>5. ASSUME NEW c \in calls, Serve(c) \/ Fault(c) PROVE FALSE
  BY <1>5, Serving DEF Untouched
<1>6. ASSUME NEW c \in calls, Answer(c) PROVE FALSE
  <2>1. UNCHANGED <<sent, foreign>> /\ Len(saves') = Len(saves)
    <3>1. saves' = saves \/ \E i, st : st \in {"all", "done", "failed"} /\ Stage(i, st)
      BY <1>6 DEF Answer, HeadAnswered, BatchAnswered, RemovalAnswered, GroupRoleAnswered,
         CopyAnswered, PermissionAnswered
    <3>2. QED  BY <1>0, <1>6, <3>1, AnswersLeave, StagedSaves
  <2>2. QED  BY <2>1 DEF Untouched
<1>7. CASE Refetch \/ ReadFetch \/ FetchFails \/ DropUnused
  BY <1>7 DEF Refetch, ReadFetch, FetchFails, DropUnused, NoFetch, selection, Untouched
<1>8. CASE StoreFetch
  <2>1. /\ UNCHANGED <<editor, server, calls, saves, sent, foreign>> /\ listed' = fetch.got
        /\ fetch'.stage # "read" /\ editor \in Queried /\ fetch.stage = "read"
    BY <1>8 DEF StoreFetch, NoFetch, IInv, FetchFits
  <2>2. fetch.got = server /\ calls = {} /\ ~emptied /\ listed \in {None, server}
    BY <2>1 DEF Untouched
  <2>3. ~emptied'
    BY <1>8, <2>2 DEF StoreFetch, LoadSelection, selection, Loaded
  <2>4. QED  BY <2>1, <2>2, <2>3 DEF Untouched
<1>9. CASE CloseDialog
  <2>1. UNCHANGED <<editor, server, listed, fetch, saves, sent, foreign>>
        /\ calls' = Mounted(calls) /\ emptied' = FALSE
    BY <1>9 DEF CloseDialog, Closed
  <2>2. calls = {}
    BY <2>1 DEF Untouched
  <2>3. Mounted({}) = {}
    BY DEF Mounted, Unwatched
  <2>4. QED  BY <2>1, <2>2, <2>3 DEF Untouched
<1>10. CASE OpenDialog
  BY <1>10 DEF OpenDialog, NoFetch, Untouched
<1>11. QED
  BY StepKinds, <1>1, <1>2, <1>3, <1>4, <1>5, <1>6, <1>7, <1>8, <1>9, <1>10

-----------------------------------------------------------------------------
(* The theorems that follow a request to its answer and its fetch *)

\* A screen opens on what the server holds, or has still to fetch it.
LEMMA ScreenStarts == Init => ListAgrees /\ CopiesAgree /\ Untouched /\ FirstSave
<1> SUFFICES ASSUME Init PROVE ListAgrees /\ CopiesAgree /\ Untouched /\ FirstSave
  OBVIOUS
<1> USE DEF Init
<1>1. editor \in Queried => listed \in {None, server}
  BY DEF Queried, Copies
<1>2. fetch.stage # "read" /\ Len(saves) = 0
  BY DEF NoFetch
<1>3. ListAgrees /\ Untouched
  BY <1>1, <1>2 DEF ListAgrees, Untouched, Loaded
<1>4. CopiesAgree
  BY DEF CopiesAgree, CopyIsKept, Copies
<1>5. FirstSave
  BY <1>2 DEF FirstSave, Alone
<1>6. QED  BY <1>3, <1>4, <1>5

\* When nothing is pending and nobody else acts, a screen shows what the server holds: a query
\* fetched while requests were under way or lost is fetched again, a copy misses no success.
\* A query whose last fetch failed is left out: its list stays behind.
THEOREM ScreensShowTheServer == Spec => []ScreensAgree
<1>1. Spec => [](ListAgrees /\ CopiesAgree)
  BY ScreenStarts, EditorInvariant, ListContinues, CopiesContinue, PTL DEF Spec
<1>2. IInv /\ ListAgrees /\ CopiesAgree => ScreensAgree
  <2> SUFFICES ASSUME IInv, ListAgrees, CopiesAgree, calls = {}, foreign = 0,
                      \/ editor \in Queried /\ Loaded /\ ~stale /\ fetch.stage = "idle"
                      \/ editor \in Copies /\ open /\ faults = 0 /\ ~doubled
               PROVE  listed = server
    BY DEF ScreensAgree
  <2>1. CASE editor \in Queried /\ Loaded /\ ~stale /\ fetch.stage = "idle"
    BY <2>1 DEF ListAgrees, Mutations
  <2>2. CASE editor \in Copies /\ open /\ faults = 0 /\ ~doubled
    <3>1. \A x \in Item : x \in server <=> x \in listed
      BY <2>2 DEF CopiesAgree, CopyIsKept
    <3>2. QED  BY <2>2, <3>1, CopyTyped
  <2>3. QED  BY <2>1, <2>2
<1>3. QED  BY <1>1, <1>2, EditorInvariant, PTL

\* "Role updated successfully" is said only when the server holds what the save chose, however
\* its requests were ordered, lost and answered.
THEOREM SuccessIsSaved == Spec => []SuccessMeansSaved
<1>1. Spec => [](Untouched /\ FirstSave)
  BY ScreenStarts, EditorInvariant, UntouchedContinues, FirstContinues, PTL DEF Spec
<1>2. FirstSave => SuccessMeansSaved
  BY DEF FirstSave, Alone, FirstFits, Agrees, SuccessMeansSaved
<1>3. QED  BY <1>1, <1>2, PTL
=============================================================================
