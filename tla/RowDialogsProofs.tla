-------------------------- MODULE RowDialogsProofs --------------------------
(* The safety properties of RowDialogs, for any records, names, protected names, permissions
   and bounds.

   All three properties are about requests answered long after they were sent. For
   OffersAreAccepted the invariant carries along with every open dialog and every request what
   was offered (DialogsOffered, CallsOffered) and what a request that is not in doubt will find
   (CallIsTrue); that rests on when the list is the server's (ListIsServer). For
   FormShowsTheRecord it says that a form not in doubt is alone with its own request
   (FormIsAlone). For ClosesItsOwn it says which requests nobody waits for, though the user
   did not leave their dialog, and that they delete what another has deleted
   (ClosedByAnother, DeletedOnce). *)
EXTENDS RowDialogs, TLAPS

\* Only one dialog is open at a time.
OneDialog ==
  /\ create => edit = None /\ delete = None
  /\ edit # None => delete = None

\* What the Redux store holds is out of date only when the permissions were changed.
RightsAgree == ~regranted => held = granted

\* Protected names are never given away, except on the users page, where another client may
\* change the address of the protected user.
ReservedHeld == screen # "users" => \A n \in Reserved[screen] : \E r \in Row : server[r] = n

\* No page has ever read a protected record as an unprotected one.
Reveals(snapshot) ==
  \A r \in Row : server[r] \in Reserved["roles"] => snapshot.rows[r] \in Reserved["roles"]
ReservedSeen ==
  screen = "roles" =>
    /\ list # None => Reveals(list)
    /\ fetch.stage = "served" => Reveals(fetch.got)

\* What is open, or was sent, was offered to somebody with the permissions held.
Offered(op, row) ==
  /\ op \in {"create", "edit"} => CanManage /\ screen # "roles"
  /\ op = "delete" =>
       CanDelete /\ (screen = "roles" => server[row] \notin Reserved["roles"])

DialogsOffered ==
  /\ create => Offered("create", None)
  /\ edit # None => Offered("edit", edit.row)
  /\ delete # None => Offered("delete", delete.row)

CallsOffered ==
  \A k \in Slot : calls[k] # None =>
    /\ Offered(calls[k].op, calls[k].row)
    /\ calls[k].op = "create" <=> calls[k].row = None
    /\ calls[k].op = "delete" <=> calls[k].value = None

\* What was read of the server is what the server has, unless a doubt is recorded.
Current == [rows |-> server, full |-> members]
Changing == stale \/ \E k \in Slot : calls[k] # None
AnswerIsServer == (fetch.stage = "served" /\ ~fetch.aged /\ ~Changing) => fetch.got = Current
ListIsServer == (list # None /\ ~Doubtful) => list = Current

\* No request but one of the open form itself is under way while the form is not in doubt, and
\* the record changes when it is done.
FormIsAlone ==
  (edit # None /\ ~edit.doubt) =>
    /\ \A k \in Slot : calls[k] # None =>
         /\ calls[k].op = "edit" /\ calls[k].own /\ calls[k].row = edit.row
         /\ \A j \in Slot : calls[j] # None => j = k
    /\ \/ server[edit.row] = edit.base
       \/ \E k \in Slot : /\ calls[k] # None /\ calls[k].stage = "done"
                          /\ server[edit.row] = calls[k].value

\* The same of the delete dialog, which may have sent several requests.
Deletable(row, full) ==
  server[row] \in Value /\ (screen = "groups" => (full <=> row \in members))
QuestionIsTrue ==
  (delete # None /\ ~delete.doubt) =>
    /\ \A k \in Slot : calls[k] # None => calls[k].op = "delete"
    /\ \/ Deletable(delete.row, delete.full)
       \/ \E k \in Slot : calls[k] # None /\ calls[k].stage = "done"

\* A request that is not in doubt is the only one, and finds its record until it is served.
CallIsTrue ==
  \A k \in Slot : (calls[k] # None /\ ~calls[k].doubt) =>
    /\ \A j \in Slot : calls[j] # None => j = k
    /\ calls[k].stage = "sent" /\ calls[k].op # "create" => server[calls[k].row] \in Value
    /\ calls[k].stage = "sent" /\ calls[k].op = "delete" /\ screen = "groups" =>
         calls[k].row \notin members

\* A request that is waited for is about the record of the open dialog, and a form waits for
\* one request at most.
OwnIsOpen ==
  \A k \in Slot : calls[k] # None /\ calls[k].own =>
    /\ calls[k].op = "edit" =>
         /\ edit # None /\ edit.row = calls[k].row
         /\ \A j \in Slot : calls[j] # None /\ calls[j].own /\ calls[j].op = "edit" => j = k
    /\ calls[k].op = "delete" => delete # None /\ delete.row = calls[k].row

\* Of the requests nobody waits for, those whose dialog was closed by the success of another
\* request, and not by the user, can themselves no longer succeed: they delete a record that
\* is gone.
ClosedByAnother ==
  \A k \in Slot : (calls[k] # None /\ ~calls[k].left /\ ~calls[k].own) =>
    /\ calls[k].op # "edit"
    /\ calls[k].op = "delete" => calls[k].stage # "done" /\ server[calls[k].row] = None

\* A record is deleted once.
DeletedOnce ==
  \A k \in Slot : (calls[k] # None /\ calls[k].op = "delete" /\ calls[k].stage = "done") =>
    /\ server[calls[k].row] = None
    /\ \A j \in Slot : (/\ calls[j] # None /\ calls[j].op = "delete" /\ calls[j].stage = "done"
                        /\ calls[j].row = calls[k].row) => j = k

IInv ==
  /\ TypeOK /\ OneDialog /\ RightsAgree /\ ReservedHeld /\ ReservedSeen
  /\ DialogsOffered /\ CallsOffered /\ AnswerIsServer /\ ListIsServer
  /\ FormIsAlone /\ QuestionIsTrue /\ CallIsTrue
  /\ OwnIsOpen /\ ClosedByAnother /\ DeletedOnce /\ OffersAreAccepted

-----------------------------------------------------------------------------
(* What the steps do to the requests *)

\* The same request as before.
Same(c, d) == d \in Call /\ d.op = c.op /\ d.row = c.row /\ d.value = c.value

\* None is no form and no question, and what is offered is filled from the list.
LEMMA NoneIsNoDialog ==
  ASSUME TypeOK, NEW r \in Row, Shows(r)
  PROVE  LET form == [row |-> r, base |-> list.rows[r], doubt |-> Doubtful]
             question == [row |-> r, full |-> r \in list.full, doubt |-> Doubtful]
         IN form \in Form /\ form # None /\ question \in Question /\ question # None
<1>1. Doubtful \in BOOLEAN
  BY DEF Doubtful
<1>2. [row |-> r, base |-> list.rows[r], doubt |-> Doubtful] \in Form
  BY <1>1 DEF Shows, Form
<1>3. [row |-> r, full |-> r \in list.full, doubt |-> Doubtful] \in Question
  BY <1>1 DEF Question
<1>4. QED  BY <1>2, <1>3, DialogConstants

\* Putting a dialog in doubt changes nothing else of it.
LEMMA DoubtedDialogs ==
  ASSUME TypeOK
  PROVE  /\ InDoubt(edit) \in Form \cup {None} /\ InDoubt(delete) \in Question \cup {None}
         /\ InDoubt(edit) = None <=> edit = None
         /\ InDoubt(delete) = None <=> delete = None
         /\ edit # None => InDoubt(edit).row = edit.row /\ InDoubt(edit).doubt
         /\ delete # None => InDoubt(delete).row = delete.row /\ InDoubt(delete).doubt
BY DialogConstants DEF TypeOK, InDoubt, Form, Question

\* Putting the requests in doubt changes nothing else of them.
LEMMA DoubtedCalls ==
  ASSUME TypeOK
  PROVE  /\ AllInDoubt \in [Slot -> Call \cup {None}]
         /\ \A j \in Slot : /\ AllInDoubt[j] = None <=> calls[j] = None
                            /\ calls[j] # None =>
                                 /\ Same(calls[j], AllInDoubt[j]) /\ AllInDoubt[j].doubt
                                 /\ AllInDoubt[j].own = calls[j].own
                                 /\ AllInDoubt[j].left = calls[j].left
                                 /\ AllInDoubt[j].stage = calls[j].stage
<1>1. ASSUME NEW j \in Slot, calls[j] # None
      PROVE  /\ AllInDoubt[j] # None
             /\ Same(calls[j], AllInDoubt[j]) /\ AllInDoubt[j].doubt
             /\ AllInDoubt[j].own = calls[j].own
             /\ AllInDoubt[j].left = calls[j].left
             /\ AllInDoubt[j].stage = calls[j].stage
  <2>1. calls[j] \in Call
    BY <1>1 DEF TypeOK
  <2>2. AllInDoubt[j] = [calls[j] EXCEPT !.doubt = TRUE]
    BY <1>1 DEF AllInDoubt, InDoubt
  <2>3. AllInDoubt[j] \in Call
    BY <2>1, <2>2 DEF Call
  <2>4. QED  BY <2>1, <2>2, <2>3, DialogConstants DEF Call, Same
<1>2. ASSUME NEW j \in Slot, calls[j] = None PROVE AllInDoubt[j] = None
  BY <1>2 DEF AllInDoubt, InDoubt
<1>3. \A j \in Slot : AllInDoubt[j] \in Call \cup {None}
  BY <1>1, <1>2 DEF Same
<1>4. AllInDoubt \in [Slot -> Call \cup {None}]
  BY <1>3 DEF AllInDoubt
<1>5. QED  BY <1>1, <1>2, <1>4

\* A new request is waited for, and puts the others in doubt.
LEMMA SentCalls ==
  ASSUME TypeOK, NEW op \in Ops, NEW row \in Row \cup {None}, NEW value \in Value \cup {None},
         NEW doubt \in BOOLEAN, Send(op, row, value, doubt)
  PROVE  /\ calls' \in [Slot -> Call \cup {None}]
         /\ presses' \in 0..MaxPresses /\ UNCHANGED <<rights, data, query, upsets>>
         /\ \E k \in Slot :
              /\ calls[k] = None /\ calls'[k] \in Call /\ calls'[k] # None
              /\ calls'[k].op = op /\ calls'[k].row = row /\ calls'[k].value = value
              /\ calls'[k].own /\ ~calls'[k].left /\ calls'[k].stage = "sent"
              /\ calls'[k].doubt <=> (doubt \/ \E j \in Slot : calls[j] # None)
              /\ \A j \in Slot \ {k} :
                   /\ calls'[j] = None <=> calls[j] = None
                   /\ calls[j] # None =>
                        /\ Same(calls[j], calls'[j]) /\ calls'[j].doubt
                        /\ calls'[j].own = calls[j].own /\ calls'[j].left = calls[j].left
                        /\ calls'[j].stage = calls[j].stage
<1>1. PICK k \in Slot :
        /\ calls[k] = None
        /\ calls' = [AllInDoubt EXCEPT ![k] =
             [op |-> op, row |-> row, value |-> value, own |-> TRUE, left |-> FALSE,
              doubt |-> doubt \/ \E j \in Slot : calls[j] # None, stage |-> "sent"]]
        /\ presses < MaxPresses /\ presses' = presses + 1
        /\ UNCHANGED <<rights, data, query, upsets>>
  BY DEF Send
<1> DEFINE new == [op |-> op, row |-> row, value |-> value, own |-> TRUE, left |-> FALSE,
                   doubt |-> doubt \/ \E j \in Slot : calls[j] # None, stage |-> "sent"]
<1>2. new \in Call /\ new # None
  <2>1. (doubt \/ \E j \in Slot : calls[j] # None) \in BOOLEAN
    OBVIOUS
  <2>2. new \in Call
    BY <2>1 DEF Call
  <2>3. QED  BY <2>2, DialogConstants
<1>3. calls'[k] = new /\ \A j \in Slot \ {k} : calls'[j] = AllInDoubt[j]
  BY <1>1, DoubtedCalls
<1>4. calls' \in [Slot -> Call \cup {None}]
  BY <1>1, <1>2, DoubtedCalls
<1>5. presses' \in 0..MaxPresses
  BY <1>1, DialogConstants DEF TypeOK
<1>6. QED  BY <1>1, <1>2, <1>3, <1>4, <1>5, DoubtedCalls

\* A request that is served or lost stays what it was.
LEMMA MarkedCalls ==
  ASSUME TypeOK, NEW k \in Slot, calls[k] # None, NEW s \in {"done"} \cup Reasons, At(k, s)
  PROVE  /\ calls' \in [Slot -> Call \cup {None}]
         /\ calls'[k] # None /\ Same(calls[k], calls'[k]) /\ calls'[k].stage = s
         /\ calls'[k].own = calls[k].own /\ calls'[k].left = calls[k].left
         /\ calls'[k].doubt = calls[k].doubt
         /\ \A j \in Slot \ {k} : calls'[j] = calls[j]
<1>1. calls[k] \in Call
  BY DEF TypeOK
<1>2. [calls[k] EXCEPT !.stage = s] \in Call
  BY <1>1 DEF Call
<1>3. calls' = [calls EXCEPT ![k] = [calls[k] EXCEPT !.stage = s]]
  BY DEF At
<1>4. calls' \in [Slot -> Call \cup {None}]
  BY <1>2, <1>3 DEF TypeOK
<1>5. calls'[k] = [calls[k] EXCEPT !.stage = s] /\ calls'[k] \in Call
  BY <1>2, <1>3 DEF TypeOK
<1>6. \A j \in Slot : j # k => calls'[j] = calls[j]
  BY <1>3 DEF TypeOK
<1>7. QED
  BY <1>1, <1>4, <1>5, <1>6, DialogConstants DEF Call, Same

\* Leaving a dialog changes only what waits for its requests.
LEMMA LeftCalls ==
  ASSUME TypeOK, NEW op \in Ops, Leave(op)
  PROVE  /\ calls' \in [Slot -> Call \cup {None}]
         /\ \A j \in Slot :
              /\ calls'[j] = None <=> calls[j] = None
              /\ calls[j] # None =>
                   /\ Same(calls[j], calls'[j]) /\ calls'[j].doubt = calls[j].doubt
                   /\ calls'[j].stage = calls[j].stage
                   /\ IF calls[j].op = op
                      THEN (calls'[j].own <=> op = "create") /\ calls'[j].left
                      ELSE calls'[j].own = calls[j].own /\ calls'[j].left = calls[j].left
<1>1. ASSUME NEW j \in Slot, calls[j] # None
      PROVE  /\ calls'[j] # None /\ Same(calls[j], calls'[j])
             /\ calls'[j].doubt = calls[j].doubt /\ calls'[j].stage = calls[j].stage
             /\ IF calls[j].op = op
                THEN (calls'[j].own <=> op = "create") /\ calls'[j].left
                ELSE calls'[j].own = calls[j].own /\ calls'[j].left = calls[j].left
  <2>1. calls[j] \in Call
    BY <1>1 DEF TypeOK
  <2>2. CASE calls[j].op = op
    <3>1. calls'[j] = [calls[j] EXCEPT !.own = (op = "create"), !.left = TRUE]
      BY <1>1, <2>2 DEF Leave, Pending
    <3>2. calls'[j] \in Call
      BY <2>1, <3>1 DEF Call
    <3>3. QED  BY <2>1, <2>2, <3>1, <3>2, DialogConstants DEF Call, Same
  <2>3. CASE calls[j].op # op
    <3>1. calls'[j] = calls[j]
      BY <2>3 DEF Leave, Pending
    <3>2. QED  BY <1>1, <2>1, <2>3, <3>1 DEF Same
  <2>4. QED  BY <2>2, <2>3
<1>2. ASSUME NEW j \in Slot, calls[j] = None PROVE calls'[j] = None
  BY <1>2 DEF Leave, Pending
<1>3. \A j \in Slot : calls'[j] \in Call \cup {None}
  BY <1>1, <1>2 DEF Same
<1>4. calls' = [j \in Slot |-> calls'[j]]
  BY DEF Leave
<1>5. QED  BY <1>1, <1>2, <1>3, <1>4

\* A success takes its request away, and with it what waits for the others of its dialog.
LEMMA SucceededCalls ==
  ASSUME TypeOK, NEW k \in Slot, Succeeds(k)
  PROVE  /\ calls' \in [Slot -> Call \cup {None}] /\ calls'[k] = None
         /\ calls[k] \in Call
         /\ \A j \in Slot \ {k} :
              /\ calls'[j] = None <=> calls[j] = None
              /\ calls[j] # None =>
                   /\ Same(calls[j], calls'[j]) /\ calls'[j].doubt = calls[j].doubt
                   /\ calls'[j].stage = calls[j].stage
                   /\ IF calls[j].op = calls[k].op /\ calls[k].op # "create"
                      THEN ~calls'[j].own /\ (calls'[j].left <=> calls[j].left \/ calls[k].left)
                      ELSE calls'[j].own = calls[j].own /\ calls'[j].left = calls[j].left
<1> DEFINE op == calls[k].op
<1>0. calls[k] \in Call
  BY DEF Succeeds, TypeOK
<1>1. ASSUME NEW j \in Slot \ {k}, calls[j] # None
      PROVE  /\ calls'[j] # None /\ Same(calls[j], calls'[j])
             /\ calls'[j].doubt = calls[j].doubt /\ calls'[j].stage = calls[j].stage
             /\ IF calls[j].op = calls[k].op /\ calls[k].op # "create"
                THEN ~calls'[j].own /\ (calls'[j].left <=> calls[j].left \/ calls[k].left)
                ELSE calls'[j].own = calls[j].own /\ calls'[j].left = calls[j].left
  <2>1. calls[j] \in Call
    BY <1>1 DEF TypeOK
  <2>2. CASE calls[j].op = op /\ op # "create"
    <3>1. calls'[j] = [calls[j] EXCEPT !.own = FALSE, !.left = (calls[j].left \/ calls[k].left)]
      BY <1>1, <2>2 DEF Succeeds, Pending
    <3>2. calls'[j] \in Call
      BY <1>0, <2>1, <3>1 DEF Call
    <3>3. QED  BY <1>0, <2>1, <2>2, <3>1, <3>2, DialogConstants DEF Call, Same
  <2>3. CASE ~(calls[j].op = op /\ op # "create")
    <3>1. calls'[j] = calls[j]
      BY <2>3 DEF Succeeds, Pending
    <3>2. QED  BY <1>1, <2>1, <2>3, <3>1 DEF Same
  <2>4. QED  BY <2>2, <2>3
<1>2. ASSUME NEW j \in Slot, calls[j] = None PROVE calls'[j] = None
  BY <1>2 DEF Succeeds, Pending
<1>3. calls'[k] = None
  BY DEF Succeeds
<1>4. \A j \in Slot : calls'[j] \in Call \cup {None}
  BY <1>1, <1>2, <1>3 DEF Same
<1>5. calls' = [j \in Slot |-> calls'[j]]
  BY DEF Succeeds
<1>6. QED  BY <1>0, <1>1, <1>2, <1>3, <1>4, <1>5

-----------------------------------------------------------------------------
(* Each part of the invariant is kept by every step *)

\* The types.
LEMMA TypesKept ==
  ASSUME TypeOK, [Next]_vars
  PROVE  TypeOK'
<1> USE DialogConstants DEF vars, rights, data, query, dialogs
<1>1. CASE OpenCreate
  BY <1>1 DEF OpenCreate, ByUser, TypeOK
<1>2. CASE CloseCreate \/ CloseEdit \/ CloseDelete
  <2>1. calls' \in [Slot -> Call \cup {None}]
    BY <1>2, LeftCalls DEF CloseCreate, CloseEdit, CloseDelete, Ops
  <2>2. QED  BY <1>2, <2>1 DEF CloseCreate, CloseEdit, CloseDelete, ByUser, TypeOK
<1>3. CASE ConfirmDelete
  <2>1. delete.row \in Row /\ delete.doubt \in BOOLEAN
    BY <1>3 DEF ConfirmDelete, TypeOK, Question
  <2>2. QED  BY <1>3, <2>1, SentCalls DEF ConfirmDelete, Ops, TypeOK
<1>4. ASSUME NEW v \in Value, SubmitCreate(v) PROVE TypeOK'
  <2>1. Send("create", None, v, FALSE) /\ UNCHANGED dialogs
    BY <1>4 DEF SubmitCreate
  <2>2. /\ calls' \in [Slot -> Call \cup {None}] /\ presses' \in 0..MaxPresses
        /\ UNCHANGED <<rights, data, query, upsets>>
    BY <2>1, SentCalls DEF Ops
  <2>3. QED  BY <2>1, <2>2 DEF TypeOK
<1>5. ASSUME NEW v \in Value, SubmitEdit(v) PROVE TypeOK'
  <2>1. edit.row \in Row /\ edit.doubt \in BOOLEAN
    BY <1>5 DEF SubmitEdit, TypeOK, Form
  <2>2. QED  BY <1>5, <2>1, SentCalls DEF SubmitEdit, Ops, TypeOK
<1>6. ASSUME NEW r \in Row, OpenEdit(r) PROVE TypeOK'
  BY <1>6, NoneIsNoDialog DEF OpenEdit, ByUser, TypeOK
<1>7. ASSUME NEW r \in Row, OpenDelete(r) PROVE TypeOK'
  BY <1>7, NoneIsNoDialog DEF OpenDelete, ByUser, TypeOK
<1>8. ASSUME NEW k \in Slot, Serve(k) PROVE TypeOK'
  <2>1. PICK s \in {"done"} \cup Reasons : At(k, s)
    BY <1>8 DEF Serve, Refuse, Perform
  <2>2. calls' \in [Slot -> Call \cup {None}]
    BY <1>8, <2>1, MarkedCalls DEF Serve
  <2>3. server' \in [Row -> Record]
    <3>1. calls[k].value \in Record
      BY <1>8 DEF Serve, TypeOK, Call, Record
    <3>2. server' = server \/ \E r \in Row : server' = [server EXCEPT ![r] = calls[k].value]
      BY <1>8 DEF Serve, Refuse, Perform
    <3>3. QED  BY <3>1, <3>2 DEF TypeOK
  <2>4. QED  BY <1>8, <2>2, <2>3 DEF Serve, TypeOK
<1>9. ASSUME NEW k \in Slot, Lose(k) PROVE TypeOK'
  <2>1. calls' \in [Slot -> Call \cup {None}]
    BY <1>9, MarkedCalls DEF Lose, Reasons
  <2>2. upsets' \in 0..MaxUpsets
    BY <1>9 DEF Lose, TypeOK
  <2>3. QED  BY <1>9, <2>1, <2>2, DoubtedDialogs DEF Lose, TypeOK
<1>10. ASSUME NEW k \in Slot, Succeeds(k) PROVE TypeOK'
  BY <1>10, SucceededCalls DEF Succeeds, TypeOK
<1>11. ASSUME NEW k \in Slot, Fails(k) PROVE TypeOK'
  BY <1>11 DEF Fails, TypeOK
<1>12. CASE Refetch \/ ListFails
  <2>1. fetch' \in [stage : {"none", "sent", "served"}, got : Snapshot \cup {None},
                   aged : BOOLEAN]
    <3>1. fetch' = Fetch("sent", None, FALSE) \/ fetch' = Fetch("none", None, FALSE)
      BY <1>12 DEF Refetch, ListFails
    <3>2. \A s \in {"sent", "none"} :
            Fetch(s, None, FALSE) \in [stage : {"none", "sent", "served"},
                                      got : Snapshot \cup {None}, aged : BOOLEAN]
      BY DEF Fetch
    <3>3. QED  BY <3>1, <3>2
  <2>2. aged' \in BOOLEAN /\ stale' \in BOOLEAN
    BY <1>12 DEF Refetch, ListFails, TypeOK
  <2>3. UNCHANGED <<rights, data, list, dialogs, calls, presses, upsets>>
    BY <1>12 DEF Refetch, ListFails
  <2>4. QED  BY <2>1, <2>2, <2>3 DEF TypeOK
<1>13. CASE ServeList
  <2>1. [rows |-> server, full |-> members] \in Snapshot
    BY DEF TypeOK, Snapshot
  <2>2. QED  BY <1>13, <2>1 DEF ServeList, Fetch, TypeOK
<1>14. CASE ListAnswered
  BY <1>14 DEF ListAnswered, Fetch, TypeOK
<1>15. ASSUME Other, server' \in [Row -> Record], members' \in SUBSET Row PROVE TypeOK'
  <2>1. fetch' \in [stage : {"none", "sent", "served"}, got : Snapshot \cup {None},
                   aged : BOOLEAN]
    BY <1>15 DEF Other, TypeOK
  <2>2. upsets' \in 0..MaxUpsets
    BY <1>15 DEF Other, TypeOK
  <2>3. QED  BY <1>15, <2>1, <2>2, DoubtedDialogs, DoubtedCalls DEF Other, TypeOK
<1>16. ASSUME NEW r \in Row, NEW v \in Value \cup {None}, OtherChanges(r, v) PROVE TypeOK'
  BY <1>15, <1>16 DEF OtherChanges, Record, TypeOK
<1>17. ASSUME NEW r \in Row, OtherMembers(r) PROVE TypeOK'
  BY <1>15, <1>17 DEF OtherMembers, TypeOK
<1>18. ASSUME NEW p \in {"read", "write", "delete"}, Regrant(p) PROVE TypeOK'
  <2>1. granted' \in SUBSET Actions
    BY <1>18 DEF Regrant, Actions, TypeOK
  <2>2. upsets' \in 0..MaxUpsets
    BY <1>18 DEF Regrant, TypeOK
  <2>3. QED  BY <1>18, <2>1, <2>2 DEF Regrant, TypeOK
<1>19. CASE UNCHANGED vars
  BY <1>19 DEF TypeOK
<1>20. QED  BY <1>1, <1>2, <1>3, <1>4, <1>5, <1>6, <1>7, <1>8, <1>9, <1>10, <1>11, <1>12,
     <1>13, <1>14, <1>16, <1>17, <1>18, <1>19 DEF Next, Press

\* One dialog at a time.
LEMMA OneDialogKept ==
  ASSUME TypeOK, OneDialog, [Next]_vars
  PROVE  OneDialog'
<1> USE DEF vars, rights, data, query, dialogs, OneDialog
<1>1. CASE Press
  <2>1. CASE \/ OpenCreate \/ CloseCreate \/ CloseEdit \/ CloseDelete
             \/ \E r \in Row : OpenEdit(r) \/ OpenDelete(r)
    BY <2>1 DEF OpenCreate, CloseCreate, CloseEdit, CloseDelete, OpenEdit, OpenDelete, NoDialog
  <2>2. CASE ConfirmDelete \/ \E v \in Value : SubmitCreate(v) \/ SubmitEdit(v)
    <3>1. UNCHANGED dialogs
      BY <2>2 DEF ConfirmDelete, SubmitCreate, SubmitEdit
    <3>2. QED  BY <3>1
  <2>3. QED  BY <1>1, <2>1, <2>2 DEF Press
<1>2. CASE \E k \in Slot : Serve(k) \/ Fails(k)
  BY <1>2 DEF Serve, Fails
<1>3. ASSUME NEW k \in Slot, Succeeds(k) PROVE OneDialog'
  BY <1>3 DEF Succeeds
<1>4. CASE \/ \E k \in Slot : Lose(k)
           \/ \E r \in Row, v \in Value \cup {None} : OtherChanges(r, v)
           \/ \E r \in Row : OtherMembers(r)
  BY <1>4, DoubtedDialogs DEF Lose, OtherChanges, OtherMembers, Other
<1>5. CASE \/ Refetch \/ ServeList \/ ListAnswered \/ ListFails \/ UNCHANGED vars
           \/ \E p \in {"read", "write", "delete"} : Regrant(p)
  <2>1. UNCHANGED dialogs
    BY <1>5 DEF Refetch, ServeList, ListAnswered, ListFails, Regrant
  <2>2. QED  BY <2>1
<1>6. QED  BY <1>1, <1>2, <1>3, <1>4, <1>5 DEF Next

\* The page and its user stay, and only Regrant changes what is granted.
LEMMA RightsKept ==
  ASSUME TypeOK, RightsAgree, [Next]_vars
  PROVE  /\ screen' = screen /\ self' = self /\ held' = held /\ RightsAgree'
         /\ regranted => regranted'
<1> USE DEF vars, rights, RightsAgree
<1>1. CASE Press
  BY <1>1 DEF Press, OpenCreate, CloseCreate, CloseEdit, CloseDelete, OpenEdit, OpenDelete,
       ByUser, ConfirmDelete, SubmitCreate, SubmitEdit, Send
<1>2. CASE \E k \in Slot : Serve(k) \/ Lose(k) \/ Succeeds(k) \/ Fails(k)
  <2>1. UNCHANGED rights
    BY <1>2 DEF Serve, Lose, Succeeds, Fails
  <2>2. QED  BY <2>1
<1>3. CASE Refetch \/ ServeList \/ ListAnswered \/ ListFails \/ UNCHANGED vars
  <2>1. UNCHANGED rights
    BY <1>3 DEF Refetch, ServeList, ListAnswered, ListFails
  <2>2. QED  BY <2>1
<1>4. CASE \/ \E r \in Row, v \in Value \cup {None} : OtherChanges(r, v)
           \/ \E r \in Row : OtherMembers(r)
           \/ \E p \in {"read", "write", "delete"} : Regrant(p)
  BY <1>4 DEF OtherChanges, OtherMembers, Other, Regrant
<1>5. QED  BY <1>1, <1>2, <1>3, <1>4 DEF Next

\* The records change when a request is performed, or by another client.
LEMMA ServerSteps ==
  ASSUME TypeOK, CallsOffered, [Next]_vars
  PROVE  \/ UNCHANGED server
         \/ \E k \in Slot : Perform(k) /\ calls[k] # None /\ calls[k].stage = "sent"
         \/ \E r \in Row, v \in Value \cup {None} : OtherChanges(r, v)
<1> USE DEF vars, data
<1>1. CASE Press
  BY <1>1 DEF Press, OpenCreate, CloseCreate, CloseEdit, CloseDelete, OpenEdit, OpenDelete,
       ByUser, ConfirmDelete, SubmitCreate, SubmitEdit, Send
<1>2. CASE \E k \in Slot : Serve(k)
  BY <1>2 DEF Serve, Refuse
<1>3. CASE \E k \in Slot : Lose(k) \/ Succeeds(k) \/ Fails(k)
  BY <1>3 DEF Lose, Succeeds, Fails
<1>4. CASE Refetch \/ ServeList \/ ListAnswered \/ ListFails \/ UNCHANGED vars
  BY <1>4 DEF Refetch, ServeList, ListAnswered, ListFails
<1>5. CASE \/ \E r \in Row : OtherMembers(r)
           \/ \E p \in {"read", "write", "delete"} : Regrant(p)
  BY <1>5 DEF OtherMembers, Regrant
<1>6. QED  BY <1>1, <1>2, <1>3, <1>4, <1>5 DEF Next

\* Outside the users page a protected name stays where it is.
LEMMA ReservedKept ==
  ASSUME TypeOK, RightsAgree, CallsOffered, ReservedHeld, [Next]_vars
  PROVE  /\ ReservedHeld'
         /\ screen # "users" => \A r \in Row : IsReserved(r)' <=> IsReserved(r)
<1>0. /\ screen' = screen /\ Reserved \in [Screens -> SUBSET Value] /\ screen \in Screens
      /\ Reserved[screen] \subseteq Value /\ None \notin Value
  BY RightsKept, DialogConstants DEF TypeOK
<1>1. ASSUME screen # "users", NEW r \in Row, NEW v \in Value \cup {None},
             server' = [server EXCEPT ![r] = v], ~IsReserved(r), v \in Value => Free(v, r)
      PROVE  /\ ReservedHeld'
             /\ \A q \in Row : IsReserved(q)' <=> IsReserved(q)
  <2>1. v \notin Reserved[screen]
    BY <1>0, <1>1 DEF Free, ReservedHeld, IsReserved
  <2>2. \A q \in Row : server'[q] = IF q = r THEN v ELSE server[q]
    BY <1>1 DEF TypeOK
  <2>3. \A q \in Row : IsReserved(q)' <=> IsReserved(q)
    BY <1>0, <1>1, <2>1, <2>2 DEF IsReserved
  <2>4. QED  BY <1>0, <1>1, <2>2, <2>3 DEF ReservedHeld, IsReserved
<1>2. CASE UNCHANGED server
  BY <1>0, <1>2 DEF ReservedHeld, IsReserved
<1>3. ASSUME NEW k \in Slot, Perform(k), calls[k] # None, screen # "users"
      PROVE  /\ ReservedHeld'
             /\ \A q \in Row : IsReserved(q)' <=> IsReserved(q)
  <2>1. calls[k] \in Call /\ Refusals(calls[k]) = {}
    BY <1>3 DEF TypeOK, Perform
  <2>2. PICK r \in Row : /\ IF calls[k].op = "create" THEN server[r] = Unborn ELSE r = calls[k].row
                         /\ server' = [server EXCEPT ![r] = calls[k].value]
    BY <1>3 DEF Perform
  <2>3. ~IsReserved(r)
    <3>1. CASE calls[k].op = "create"
      BY <1>0, <2>2, <3>1, DialogConstants DEF IsReserved
    <3>2. CASE calls[k].op # "create"
      BY <1>3, <2>1, <2>2, <3>2 DEF Refusals, Reasons
    <3>3. QED  BY <3>1, <3>2
  <2>4. calls[k].value \in Value => Free(calls[k].value, r)
    <3>1. CASE calls[k].op = "delete"
      BY <1>0, <1>3, <3>1 DEF CallsOffered
    <3>2. CASE calls[k].op # "delete"
      <4>1. Free(calls[k].value, calls[k].row)
        BY <2>1, <3>2 DEF Refusals, Reasons
      <4>2. QED  BY <1>3, <2>1, <2>2, <4>1, DialogConstants DEF Free, CallsOffered
    <3>3. QED  BY <3>1, <3>2
  <2>5. QED  BY <1>1, <1>3, <2>1, <2>2, <2>3, <2>4 DEF Call
<1>4. ASSUME NEW r \in Row, NEW v \in Value \cup {None}, OtherChanges(r, v), screen # "users"
      PROVE  /\ ReservedHeld'
             /\ \A q \in Row : IsReserved(q)' <=> IsReserved(q)
  BY <1>1, <1>4 DEF OtherChanges
<1>5. screen = "users" => ReservedHeld'
  BY <1>0 DEF ReservedHeld
<1>6. QED  BY <1>2, <1>3, <1>4, <1>5, ServerSteps

\* No page has read a protected role as another.
LEMMA ReservedSeenKept ==
  ASSUME TypeOK, RightsAgree, CallsOffered, ReservedHeld, ReservedSeen, [Next]_vars
  PROVE  ReservedSeen'
<1> SUFFICES ASSUME screen = "roles"
    PROVE  /\ list' # None => Reveals(list)'
           /\ fetch'.stage = "served" => Reveals(fetch.got)'
  BY RightsKept DEF ReservedSeen
<1>1. \A r \in Row : server'[r] \in Reserved["roles"] <=> server[r] \in Reserved["roles"]
  BY ReservedKept, RightsKept DEF IsReserved
<1>2. CASE list' = list /\ (fetch'.stage = "served" => fetch.stage = "served" /\ fetch'.got = fetch.got)
  BY <1>1, <1>2 DEF ReservedSeen, Reveals
<1>3. CASE ServeList
  BY <1>1, <1>3 DEF ServeList, Fetch, ReservedSeen, Reveals
<1>4. CASE ListAnswered
  BY <1>1, <1>4 DEF ListAnswered, Fetch, ReservedSeen, Reveals
<1>5. CASE Press \/ UNCHANGED vars
  <2>1. UNCHANGED query
    BY <1>5 DEF Press, OpenCreate, CloseCreate, CloseEdit, CloseDelete, OpenEdit, OpenDelete,
         ByUser, ConfirmDelete, SubmitCreate, SubmitEdit, Send, vars
  <2>2. QED  BY <1>2, <2>1 DEF query
<1>6. CASE \E k \in Slot : Serve(k) \/ Lose(k) \/ Succeeds(k) \/ Fails(k)
  <2>1. UNCHANGED <<list, fetch>>
    BY <1>6 DEF Serve, Lose, Succeeds, Fails, query
  <2>2. QED  BY <1>2, <2>1
<1>7. CASE Refetch \/ ListFails
  <2>1. list' = list /\ fetch'.stage # "served"
    BY <1>7 DEF Refetch, ListFails, Fetch
  <2>2. QED  BY <1>2, <2>1
<1>8. CASE \/ \E r \in Row, v \in Value \cup {None} : OtherChanges(r, v)
           \/ \E r \in Row : OtherMembers(r)
  <2>1. list' = list /\ fetch' = [fetch EXCEPT !.aged = (fetch.stage = "served")]
    BY <1>8 DEF OtherChanges, OtherMembers, Other
  <2>2. fetch'.stage = fetch.stage /\ fetch'.got = fetch.got
    BY <2>1 DEF TypeOK
  <2>3. QED  BY <1>2, <2>1, <2>2
<1>9. CASE \E p \in {"read", "write", "delete"} : Regrant(p)
  <2>1. UNCHANGED query
    BY <1>9 DEF Regrant
  <2>2. QED  BY <1>2, <2>1 DEF query
<1>10. QED  BY <1>3, <1>4, <1>5, <1>6, <1>7, <1>8, <1>9 DEF Next

\* What is offered on a page is offered to somebody with the permission for it; of the roles
\* the list shows, none that is protected.
LEMMA OfferedByThePage ==
  ASSUME TypeOK, ReservedSeen, NEW r \in Row, NEW op \in Offer(r)
  PROVE  /\ op # "delete" => Offered(op, r) /\ Offered(op, None)
         /\ Shows(r) => Offered(op, r)
<1>1. CASE screen = "roles"
  BY <1>1 DEF Screens, Offered, Offer, RolesOffer, Managed, Deleted, Shows, ReservedSeen, Reveals
<1>2. CASE screen # "roles"
  BY <1>2 DEF TypeOK, Screens, Offered, Offer, UsersOffer, GroupsOffer, PermissionsOffer,
       ResourcesOffer, Managed, Deleted
<1>3. QED  BY <1>1, <1>2

\* What was offered stays so: no role becomes protected.
LEMMA StaysOffered ==
  ASSUME TypeOK, RightsAgree, CallsOffered, ReservedHeld, [Next]_vars, NEW op,
         NEW row \in Row \cup {None}, op = "delete" => row \in Row, Offered(op, row)
  PROVE  Offered(op, row)'
<1>1. screen' = screen /\ held' = held
  BY RightsKept
<1>2. screen = "roles" /\ row \in Row => (server'[row] \in Reserved["roles"] <=> server[row] \in Reserved["roles"])
  BY <1>1, ReservedKept DEF IsReserved
<1>3. QED  BY <1>1, <1>2 DEF Offered, CanManage, CanDelete, HasPermission

\* The open dialogs were offered.
LEMMA DialogsOfferedKept ==
  ASSUME TypeOK, OneDialog, RightsAgree, CallsOffered, ReservedHeld, ReservedSeen, DialogsOffered,
         [Next]_vars
  PROVE  DialogsOffered'
<1>1. /\ create => Offered("create", None)'
      /\ \A row \in Row :
           /\ edit # None /\ edit.row = row => Offered("edit", row)'
           /\ delete # None /\ delete.row = row => Offered("delete", row)'
  BY StaysOffered DEF DialogsOffered
<1>2. CASE /\ create' => create
           /\ edit' # None => edit # None /\ edit'.row = edit.row
           /\ delete' # None => delete # None /\ delete'.row = delete.row
  <2>1. (edit # None => edit.row \in Row) /\ (delete # None => delete.row \in Row)
    BY DEF TypeOK, Form, Question
  <2>2. QED  BY <1>1, <1>2, <2>1 DEF DialogsOffered
<1>3. CASE OpenCreate
  <2>1. Offered("create", None)
    BY <1>3, OfferedByThePage DEF OpenCreate
  <2>2. Offered("create", None)'
    BY <2>1, StaysOffered
  <2>3. QED  BY <1>3, <2>2 DEF OpenCreate, NoDialog, DialogsOffered
<1>4. ASSUME NEW r \in Row, OpenEdit(r) PROVE DialogsOffered'
  <2>1. Offered("edit", r)
    BY <1>4, OfferedByThePage DEF OpenEdit
  <2>2. Offered("edit", r)'
    BY <2>1, StaysOffered
  <2>3. QED  BY <1>4, <2>2 DEF OpenEdit, NoDialog, DialogsOffered
<1>5. ASSUME NEW r \in Row, OpenDelete(r) PROVE DialogsOffered'
  <2>1. Offered("delete", r)
    BY <1>5, OfferedByThePage DEF OpenDelete
  <2>2. Offered("delete", r)'
    BY <2>1, StaysOffered
  <2>3. QED  BY <1>5, <2>2 DEF OpenDelete, NoDialog, DialogsOffered
<1>6. CASE CloseCreate \/ CloseEdit \/ CloseDelete
  BY <1>2, <1>6 DEF CloseCreate, CloseEdit, CloseDelete
<1>7. CASE ConfirmDelete \/ \E v \in Value : SubmitCreate(v) \/ SubmitEdit(v)
  <2>1. UNCHANGED dialogs
    BY <1>7 DEF ConfirmDelete, SubmitCreate, SubmitEdit
  <2>2. QED  BY <1>2, <2>1 DEF dialogs
<1>8. CASE \E k \in Slot : Serve(k) \/ Fails(k)
  <2>1. UNCHANGED dialogs
    BY <1>8 DEF Serve, Fails
  <2>2. QED  BY <1>2, <2>1 DEF dialogs
<1>9. ASSUME NEW k \in Slot, Succeeds(k) PROVE DialogsOffered'
  BY <1>2, <1>9 DEF Succeeds
<1>10. CASE \/ \E k \in Slot : Lose(k)
            \/ \E r \in Row, v \in Value \cup {None} : OtherChanges(r, v)
            \/ \E r \in Row : OtherMembers(r)
  BY <1>2, <1>10, DoubtedDialogs DEF Lose, OtherChanges, OtherMembers, Other
<1>11. CASE \/ Refetch \/ ServeList \/ ListAnswered \/ ListFails \/ UNCHANGED vars
            \/ \E p \in {"read", "write", "delete"} : Regrant(p)
  <2>1. UNCHANGED dialogs
    BY <1>11 DEF Refetch, ServeList, ListAnswered, ListFails, Regrant, vars
  <2>2. QED  BY <1>2, <2>1 DEF dialogs
<1>12. QED  BY <1>3, <1>4, <1>5, <1>6, <1>7, <1>8, <1>9, <1>10, <1>11 DEF Next, Press

\* A request is sent from the open dialog of its kind.
Kept(j) ==
  /\ calls'[j] = None <=> calls[j] = None
  /\ calls[j] # None =>
       /\ Same(calls[j], calls'[j])
       /\ calls[j].doubt => calls'[j].doubt
       /\ calls'[j].own = calls[j].own /\ calls'[j].left = calls[j].left
       /\ calls'[j].stage = calls[j].stage

Began(k) ==
  /\ calls[k] = None /\ calls'[k] # None /\ calls'[k] \in Call
  /\ calls'[k].own /\ ~calls'[k].left /\ calls'[k].stage = "sent"
  /\ ~calls'[k].doubt => \A j \in Slot : calls[j] = None
  /\ \/ calls'[k].op = "create" /\ create /\ calls'[k].row = None /\ calls'[k].value \in Value
     \/ /\ calls'[k].op = "edit" /\ edit # None /\ ~Busy("edit")
        /\ calls'[k].row = edit.row /\ calls'[k].value \in Value
        /\ ~calls'[k].doubt => ~edit.doubt
     \/ /\ calls'[k].op = "delete" /\ delete # None
        /\ calls'[k].row = delete.row /\ calls'[k].value = None
        /\ screen = "groups" => ~delete.full
        /\ ~calls'[k].doubt => ~delete.doubt
  /\ \A j \in Slot \ {k} : Kept(j) /\ (calls[j] # None => calls'[j].doubt)

Sends == ConfirmDelete \/ \E v \in Value : SubmitCreate(v) \/ SubmitEdit(v)

LEMMA SendingSteps ==
  ASSUME TypeOK, Sends
  PROVE  UNCHANGED <<rights, data, query, dialogs>> /\ \E k \in Slot : Began(k)
<1> USE DEF Kept
<1>1. CASE ConfirmDelete
  <2>1. delete \in Question /\ delete.row \in Row /\ delete.doubt \in BOOLEAN
    BY <1>1 DEF ConfirmDelete, TypeOK, Question
  <2>2. Send("delete", delete.row, None, delete.doubt) /\ UNCHANGED dialogs
    BY <1>1 DEF ConfirmDelete
  <2>3. delete # None /\ (screen = "groups" => ~delete.full)
    BY <1>1 DEF ConfirmDelete, DeleteEnabled
  <2>4. \E k \in Slot : Began(k)
    BY <2>1, <2>2, <2>3, SentCalls DEF Ops, Began
  <2>5. QED  BY <2>1, <2>2, <2>4, SentCalls DEF Ops
<1>2. ASSUME NEW v \in Value, SubmitCreate(v)
      PROVE  UNCHANGED <<rights, data, query, dialogs>> /\ \E k \in Slot : Began(k)
  <2>1. create /\ Send("create", None, v, FALSE) /\ UNCHANGED dialogs
    BY <1>2 DEF SubmitCreate
  <2>2. PICK k \in Slot :
          /\ calls[k] = None /\ calls'[k] \in Call /\ calls'[k] # None
          /\ calls'[k].op = "create" /\ calls'[k].row = None /\ calls'[k].value = v
          /\ calls'[k].own /\ ~calls'[k].left /\ calls'[k].stage = "sent"
          /\ calls'[k].doubt <=> (FALSE \/ \E j \in Slot : calls[j] # None)
          /\ \A j \in Slot \ {k} :
               /\ calls'[j] = None <=> calls[j] = None
               /\ calls[j] # None =>
                    /\ Same(calls[j], calls'[j]) /\ calls'[j].doubt
                    /\ calls'[j].own = calls[j].own /\ calls'[j].left = calls[j].left
                    /\ calls'[j].stage = calls[j].stage
    <3>1. "create" \in Ops /\ FALSE \in BOOLEAN /\ v \in Value \cup {None}
      BY DEF Ops
    <3>2. None \in Row \cup {None}
      OBVIOUS
    <3>3. PICK d \in BOOLEAN : d = FALSE /\ Send("create", None, v, d)
      BY <2>1
    <3>4. QED  BY <3>1, <3>2, <3>3, SentCalls
  <2>3. Began(k)
    BY <2>1, <2>2 DEF Began
  <2>4. QED  BY <2>1, <2>3, SentCalls DEF Ops
<1>3. ASSUME NEW v \in Value, SubmitEdit(v)
      PROVE  UNCHANGED <<rights, data, query, dialogs>> /\ \E k \in Slot : Began(k)
  <2>1. edit # None /\ edit.row \in Row /\ edit.doubt \in BOOLEAN
    BY <1>3 DEF SubmitEdit, TypeOK, Form
  <2>2. Send("edit", edit.row, v, edit.doubt) /\ ~Busy("edit") /\ UNCHANGED dialogs
    BY <1>3 DEF SubmitEdit
  <2>3. \E k \in Slot : Began(k)
    BY <2>1, <2>2, SentCalls DEF Ops, Began
  <2>4. QED  BY <2>1, <2>2, <2>3, SentCalls DEF Ops
<1>4. QED  BY <1>1, <1>2, <1>3 DEF Sends

\* The steps that touch neither the requests nor the records.
Quiet ==
  \/ OpenCreate \/ \E r \in Row : OpenEdit(r) \/ OpenDelete(r)
  \/ Refetch \/ ServeList \/ ListAnswered \/ ListFails \/ UNCHANGED vars
  \/ \E p \in {"read", "write", "delete"} : Regrant(p)

Others ==
  \/ \E r \in Row, v \in Value \cup {None} : OtherChanges(r, v)
  \/ \E r \in Row : OtherMembers(r)

Closes == CloseCreate \/ CloseEdit \/ CloseDelete

LEMMA KindsOfSteps ==
  ASSUME [Next]_vars
  PROVE  \/ Quiet \/ Sends \/ Closes \/ Others
         \/ \E k \in Slot : Serve(k) \/ Lose(k) \/ Succeeds(k) \/ Fails(k)
BY DEF Next, Press, Quiet, Sends, Closes, Others

LEMMA QuietSteps ==
  ASSUME Quiet
  PROVE  UNCHANGED <<calls, server, members>>
BY DEF Quiet, OpenCreate, OpenEdit, OpenDelete, ByUser, Refetch, ServeList, ListAnswered, ListFails,
     Regrant, vars, data

LEMMA ClosingSteps ==
  ASSUME TypeOK, Closes
  PROVE  /\ UNCHANGED <<data, query>>
         /\ \E op \in Ops :
              /\ Leave(op)
              /\ op = "create" => create' = FALSE /\ edit' = edit /\ delete' = delete
              /\ op = "edit" => edit' = None /\ create' = create /\ delete' = delete
              /\ op = "delete" => delete' = None /\ create' = create /\ edit' = edit
<1>1. UNCHANGED <<data, query>>
  BY DEF Closes, CloseCreate, CloseEdit, CloseDelete, ByUser
<1>2. CASE CloseCreate
  BY <1>1, <1>2 DEF CloseCreate, Ops
<1>3. CASE CloseEdit
  BY <1>1, <1>3 DEF CloseEdit, Ops
<1>4. CASE CloseDelete
  BY <1>1, <1>4 DEF CloseDelete, Ops
<1>5. QED  BY <1>2, <1>3, <1>4 DEF Closes

LEMMA OtherSteps ==
  ASSUME TypeOK, Others
  PROVE  /\ UNCHANGED <<rights, list, stale, create>> /\ aged' /\ calls' = AllInDoubt
         /\ edit' = InDoubt(edit) /\ delete' = InDoubt(delete)
         /\ fetch'.stage = fetch.stage /\ fetch'.got = fetch.got
         /\ fetch'.aged <=> fetch.stage = "served"
         /\ \A r \in Row : server[r] = None => server'[r] = None
<1>1. Other
  BY DEF Others, OtherChanges, OtherMembers
<1>2. fetch'.stage = fetch.stage /\ fetch'.got = fetch.got /\ (fetch'.aged <=> fetch.stage = "served")
  BY <1>1 DEF Other, TypeOK
<1>3. \A r \in Row : server[r] = None => server'[r] = None
  BY DEF Others, OtherChanges, OtherMembers, TypeOK
<1>4. UNCHANGED rights
  BY DEF Others, OtherChanges, OtherMembers, Other
<1>5. QED  BY <1>1, <1>2, <1>3, <1>4 DEF Other

\* A request is served.
LEMMA ServingSteps ==
  ASSUME TypeOK, NEW k \in Slot, Serve(k)
  PROVE  /\ UNCHANGED <<rights, members, query, dialogs>>
         /\ calls[k] \in Call /\ calls[k].stage = "sent"
         /\ calls'[k] # None /\ Same(calls[k], calls'[k])
         /\ calls'[k].own = calls[k].own /\ calls'[k].left = calls[k].left
         /\ calls'[k].doubt = calls[k].doubt
         /\ \A j \in Slot \ {k} : calls'[j] = calls[j]
         /\ \/ Perform(k) /\ calls'[k].stage = "done"
            \/ Refuse(k) /\ server' = server /\ calls'[k].stage \in Reasons
<1>1. /\ calls[k] # None /\ calls[k].stage = "sent"
      /\ UNCHANGED <<rights, members, query, dialogs>>
  BY DEF Serve
<1>2. CASE Perform(k)
  <2>1. At(k, "done")
    BY <1>2 DEF Perform
  <2>2. QED  BY <1>1, <1>2, <2>1, MarkedCalls DEF TypeOK
<1>3. CASE Refuse(k)
  <2>1. PICK s \in Reasons : At(k, s)
    BY <1>3 DEF Refuse
  <2>2. server' = server
    BY <1>3 DEF Refuse
  <2>3. QED  BY <1>1, <1>3, <2>1, <2>2, MarkedCalls DEF TypeOK
<1>4. QED  BY <1>2, <1>3 DEF Serve

\* A request or its answer is lost.
LEMMA LosingSteps ==
  ASSUME TypeOK, NEW k \in Slot, Lose(k)
  PROVE  /\ UNCHANGED <<rights, server, members, query, create>>
         /\ edit' = InDoubt(edit) /\ delete' = InDoubt(delete)
         /\ calls[k] \in Call
         /\ calls'[k] # None /\ Same(calls[k], calls'[k]) /\ calls'[k].stage = "lost"
         /\ calls'[k].own = calls[k].own /\ calls'[k].left = calls[k].left
         /\ calls'[k].doubt = calls[k].doubt
         /\ \A j \in Slot \ {k} : calls'[j] = calls[j]
<1>1. At(k, "lost") /\ "lost" \in Reasons /\ calls[k] # None
  BY DEF Lose, Reasons
<1>2. /\ UNCHANGED <<rights, server, members, query, create>>
      /\ edit' = InDoubt(edit) /\ delete' = InDoubt(delete)
  BY DEF Lose, data
<1>3. QED  BY <1>1, <1>2, MarkedCalls DEF TypeOK

\* Every request was sent from an open dialog, and stays what it was.
LEMMA WhereCallsComeFrom ==
  ASSUME TypeOK, [Next]_vars, NEW k \in Slot, calls'[k] # None
  PROVE  \/ Sends /\ Began(k)
         \/ /\ calls[k] # None /\ Same(calls[k], calls'[k])
            /\ calls[k].doubt => calls'[k].doubt
<1> USE DEF Same
<1>1. CASE Quiet
  BY <1>1, QuietSteps DEF TypeOK
<1>2. CASE Sends
  BY <1>2, SendingSteps DEF Began, Kept
<1>3. CASE Closes
  BY <1>3, ClosingSteps, LeftCalls
<1>4. CASE Others
  BY <1>4, OtherSteps, DoubtedCalls
<1>5. CASE \E j \in Slot : Serve(j) \/ Lose(j)
  <2>1. PICK j \in Slot : /\ calls'[j] # None => calls[j] # None /\ Same(calls[j], calls'[j])
                                               /\ calls'[j].doubt = calls[j].doubt
                         /\ \A i \in Slot \ {j} : calls'[i] = calls[i]
    BY <1>5, ServingSteps, LosingSteps, DialogConstants
  <2>2. QED  BY <2>1 DEF TypeOK
<1>6. CASE \E j \in Slot : Succeeds(j)
  BY <1>6, SucceededCalls
<1>7. CASE \E j \in Slot : Fails(j)
  BY <1>7 DEF Fails, TypeOK
<1>8. QED  BY <1>1, <1>2, <1>3, <1>4, <1>5, <1>6, <1>7, KindsOfSteps

\* What was sent was offered.
LEMMA CallsOfferedKept ==
  ASSUME TypeOK, RightsAgree, ReservedHeld, DialogsOffered, CallsOffered, [Next]_vars
  PROVE  CallsOffered'
<1> SUFFICES ASSUME NEW k \in Slot, calls'[k] # None
    PROVE  /\ Offered(calls[k].op, calls[k].row)'
           /\ calls'[k].op = "create" <=> calls'[k].row = None
           /\ calls'[k].op = "delete" <=> calls'[k].value = None
  BY DEF CallsOffered
<1> DEFINE op == calls'[k].op
           row == calls'[k].row
<1>1. /\ Offered(op, row) /\ op \in Ops /\ row \in Row \cup {None}
      /\ op = "create" <=> row = None
      /\ op = "delete" <=> calls'[k].value = None
  <2>1. CASE Began(k)
    <3>1. edit # None => edit.row \in Row
      BY DEF TypeOK, Form
    <3>2. delete # None => delete.row \in Row
      BY DEF TypeOK, Question
    <3>3. QED  BY <2>1, <3>1, <3>2, DialogConstants DEF Began, DialogsOffered, Ops
  <2>2. CASE calls[k] # None /\ Same(calls[k], calls'[k])
    BY <2>2 DEF CallsOffered, Same, Call
  <2>3. QED  BY <2>1, <2>2, WhereCallsComeFrom
<1>2. ASSUME NEW o, NEW r \in Row \cup {None}, o = "delete" => r \in Row, Offered(o, r)
      PROVE  Offered(o, r)'
  BY <1>2, StaysOffered
<1>3. PICK o \in Ops, r \in Row \cup {None} : o = op /\ r = row
  BY <1>1
<1>4. Offered(o, r)'
  BY <1>1, <1>2, <1>3
<1>5. QED  BY <1>1, <1>3, <1>4

\* The answer of the query is what the server has when it was read since the last change.
LEMMA AnswerIsServerKept ==
  ASSUME TypeOK, CallsOffered, AnswerIsServer, [Next]_vars
  PROVE  AnswerIsServer'
<1> USE DEF AnswerIsServer, Changing, Current
<1>1. CASE Quiet
  <2>1. UNCHANGED <<calls, server, members>>
    BY <1>1, QuietSteps
  <2>2. CASE ServeList
    BY <2>1, <2>2 DEF ServeList, Fetch
  <2>3. CASE Refetch \/ ListFails \/ ListAnswered
    BY <2>3 DEF Refetch, ListFails, ListAnswered, Fetch
  <2>4. CASE \/ OpenCreate \/ (\E r \in Row : OpenEdit(r) \/ OpenDelete(r)) \/ UNCHANGED vars
             \/ \E p \in {"read", "write", "delete"} : Regrant(p)
    <3>1. UNCHANGED query
      BY <2>4 DEF OpenCreate, OpenEdit, OpenDelete, ByUser, Regrant, vars
    <3>2. QED  BY <2>1, <3>1 DEF query
  <2>5. QED  BY <1>1, <2>2, <2>3, <2>4 DEF Quiet
<1>2. CASE Sends
  BY <1>2, SendingSteps DEF Began, query, data
<1>3. CASE Closes
  <2>1. UNCHANGED <<data, query>> /\ \A j \in Slot : calls'[j] = None <=> calls[j] = None
    BY <1>3, ClosingSteps, LeftCalls
  <2>2. QED  BY <2>1 DEF data, query
<1>4. CASE Others
  BY <1>4, OtherSteps
<1>5. CASE \E k \in Slot : Serve(k) \/ Lose(k)
  BY <1>5, ServingSteps, LosingSteps
<1>6. CASE \E k \in Slot : Succeeds(k) \/ Fails(k)
  BY <1>6 DEF Succeeds, Fails
<1>7. QED  BY <1>1, <1>2, <1>3, <1>4, <1>5, <1>6, KindsOfSteps

\* The list is what the server has unless something is under way or it is known to be behind.
LEMMA ListIsServerKept ==
  ASSUME TypeOK, CallsOffered, AnswerIsServer, ListIsServer, [Next]_vars
  PROVE  ListIsServer'
<1> USE DEF ListIsServer, Doubtful, Fetching, Current
<1>1. CASE Quiet
  <2>1. UNCHANGED <<calls, server, members>>
    BY <1>1, QuietSteps
  <2>2. CASE ListAnswered
    BY <2>1, <2>2 DEF ListAnswered, Fetch, AnswerIsServer, Changing
  <2>3. CASE Refetch \/ ListFails \/ ServeList
    BY <2>3 DEF Refetch, ListFails, ServeList, Fetch
  <2>4. CASE \/ OpenCreate \/ (\E r \in Row : OpenEdit(r) \/ OpenDelete(r)) \/ UNCHANGED vars
             \/ \E p \in {"read", "write", "delete"} : Regrant(p)
    <3>1. UNCHANGED query
      BY <2>4 DEF OpenCreate, OpenEdit, OpenDelete, ByUser, Regrant, vars
    <3>2. QED  BY <2>1, <3>1 DEF query
  <2>5. QED  BY <1>1, <2>2, <2>3, <2>4 DEF Quiet
<1>2. CASE Sends
  BY <1>2, SendingSteps DEF Began, query, data
<1>3. CASE Closes
  <2>1. UNCHANGED <<data, query>> /\ \A j \in Slot : calls'[j] = None <=> calls[j] = None
    BY <1>3, ClosingSteps, LeftCalls
  <2>2. QED  BY <2>1 DEF data, query
<1>4. CASE Others
  BY <1>4, OtherSteps
<1>5. CASE \E k \in Slot : Serve(k) \/ Lose(k)
  BY <1>5, ServingSteps, LosingSteps
<1>6. CASE \E k \in Slot : Succeeds(k) \/ Fails(k)
  BY <1>6 DEF Succeeds, Fails
<1>7. QED  BY <1>1, <1>2, <1>3, <1>4, <1>5, <1>6, KindsOfSteps

\* A form that is not in doubt shows what the server has, or what it has itself sent.
LEMMA FormIsAloneKept ==
  ASSUME TypeOK, OneDialog, CallsOffered, ListIsServer, FormIsAlone, [Next]_vars
  PROVE  FormIsAlone'
<1> SUFFICES ASSUME edit' # None, ~edit'.doubt
    PROVE  FormIsAlone'
  BY DEF FormIsAlone
<1>1. CASE Quiet
  <2>1. UNCHANGED <<calls, server, members>>
    BY <1>1, QuietSteps
  <2>2. CASE edit' = edit
    BY <2>1, <2>2 DEF FormIsAlone
  <2>3. CASE \E r \in Row : OpenEdit(r)
    <3>1. PICK r \in Row : OpenEdit(r)
      BY <2>3
    <3>2. /\ list # None /\ edit' = [row |-> r, base |-> list.rows[r], doubt |-> Doubtful]
      BY <3>1 DEF OpenEdit, Shows
    <3>3. ~Doubtful
      BY <3>2
    <3>4. list.rows = server /\ \A k \in Slot : calls[k] = None
      BY <3>2, <3>3 DEF ListIsServer, Current, Doubtful
    <3>5. QED  BY <2>1, <3>2, <3>4 DEF FormIsAlone
  <2>4. CASE OpenCreate \/ \E r \in Row : OpenDelete(r)
    BY <2>2, <2>4 DEF OpenCreate, OpenDelete
  <2>5. CASE \/ Refetch \/ ServeList \/ ListAnswered \/ ListFails \/ UNCHANGED vars
             \/ \E p \in {"read", "write", "delete"} : Regrant(p)
    <3>1. UNCHANGED dialogs
      BY <2>5 DEF Refetch, ServeList, ListAnswered, ListFails, Regrant, vars
    <3>2. QED  BY <2>2, <3>1 DEF dialogs
  <2>6. QED  BY <1>1, <2>3, <2>4, <2>5 DEF Quiet
<1>2. CASE Sends
  <2>1. edit' = edit /\ server' = server
    BY <1>2, SendingSteps DEF dialogs, data
  <2>2. PICK k \in Slot : Began(k)
    BY <1>2, SendingSteps
  <2>3. \A j \in Slot : calls[j] # None => calls[j].op = "edit" /\ calls[j].own
    BY <2>1 DEF FormIsAlone
  <2>4. calls'[k].op = "edit" /\ ~Busy("edit") /\ calls'[k].row = edit.row /\ calls'[k].own
    BY <2>1, <2>2 DEF Began, OneDialog
  <2>5. \A j \in Slot : calls[j] = None
    BY <2>3, <2>4 DEF Busy, Pending
  <2>6. \A j \in Slot \ {k} : calls'[j] = None
    BY <2>2, <2>5 DEF Began, Kept
  <2>7. server[edit.row] = edit.base
    BY <2>1, <2>5 DEF FormIsAlone
  <2>8. QED  BY <2>1, <2>4, <2>6, <2>7 DEF FormIsAlone
<1>3. CASE Closes
  <2>1. PICK op \in Ops : /\ Leave(op)
                          /\ op = "edit" => edit' = None
                          /\ op # "edit" => edit' = edit
    BY <1>3, ClosingSteps DEF Ops
  <2>2. op # "edit" /\ edit' = edit /\ server' = server
    BY <1>3, <2>1, ClosingSteps DEF data
  <2>3. \A j \in Slot : /\ calls'[j] = None <=> calls[j] = None
                        /\ calls[j] # None =>
                             /\ calls'[j].op = calls[j].op /\ calls'[j].row = calls[j].row
                             /\ calls'[j].value = calls[j].value
                             /\ calls'[j].stage = calls[j].stage
                             /\ calls[j].op # op => calls'[j].own = calls[j].own
    BY <2>1, LeftCalls DEF Same
  <2>4. QED  BY <2>2, <2>3 DEF FormIsAlone
<1>4. CASE Others \/ \E k \in Slot : Lose(k)
  BY <1>4, OtherSteps, LosingSteps, DoubtedDialogs
<1>5. ASSUME NEW k \in Slot, Serve(k) PROVE FormIsAlone'
  <2>1. edit' = edit /\ edit # None /\ ~edit.doubt
    BY <1>5, ServingSteps DEF dialogs
  <2>2. calls[k] # None /\ calls[k].op = "edit" /\ calls[k].own /\ calls[k].row = edit.row
    BY <1>5, <2>1, ServingSteps, DialogConstants DEF FormIsAlone
  <2>3. \A j \in Slot \ {k} : calls[j] = None /\ calls'[j] = None
    BY <1>5, <2>1, <2>2, ServingSteps DEF FormIsAlone
  <2>4. calls[k].stage = "sent" /\ server[edit.row] = edit.base
    BY <1>5, <2>1, <2>3, ServingSteps DEF FormIsAlone
  <2>5. /\ calls'[k] # None /\ calls'[k].op = "edit" /\ calls'[k].own
        /\ calls'[k].row = edit.row /\ calls'[k].value = calls[k].value
    BY <1>5, <2>2, ServingSteps DEF Same
  <2>6. CASE Perform(k) /\ calls'[k].stage = "done"
    <3>1. server' = [server EXCEPT ![edit.row] = calls[k].value]
      BY <2>2, <2>6 DEF Perform
    <3>2. edit.row \in Row
      BY <2>1 DEF TypeOK, Form
    <3>3. server'[edit.row] = calls'[k].value
      BY <2>5, <3>1, <3>2 DEF TypeOK
    <3>4. QED  BY <2>1, <2>3, <2>5, <2>6, <3>3 DEF FormIsAlone
  <2>7. CASE server' = server
    BY <2>1, <2>3, <2>4, <2>5, <2>7 DEF FormIsAlone
  <2>8. QED  BY <1>5, <2>6, <2>7, ServingSteps
<1>6. ASSUME NEW k \in Slot, Succeeds(k) PROVE FALSE
  <2>1. calls[k] # None /\ (calls[k].op = "edit" => edit' = None)
    BY <1>6 DEF Succeeds
  <2>2. edit # None /\ edit' = edit
    BY <1>6, <2>1 DEF Succeeds
  <2>3. QED  BY <2>1, <2>2 DEF FormIsAlone
<1>7. ASSUME NEW k \in Slot, Fails(k) PROVE FormIsAlone'
  <2>1. edit' = edit /\ server' = server
    BY <1>7 DEF Fails, dialogs, data
  <2>2. calls'[k] = None /\ (\A j \in Slot \ {k} : calls'[j] = calls[j]) /\ calls[k].stage # "done"
    BY <1>7 DEF Fails, Failed, Reasons, TypeOK
  <2>3. QED  BY <2>1, <2>2 DEF FormIsAlone
<1>8. QED  BY <1>1, <1>2, <1>3, <1>4, <1>5, <1>6, <1>7, KindsOfSteps DEF FormIsAlone

\* A question that is not in doubt is about a record that is there, unless it is done.
LEMMA QuestionIsTrueKept ==
  ASSUME TypeOK, OneDialog, CallsOffered, ListIsServer, QuestionIsTrue, screen' = screen,
         [Next]_vars
  PROVE  QuestionIsTrue'
<1> SUFFICES ASSUME delete' # None, ~delete'.doubt
    PROVE  QuestionIsTrue'
  BY DEF QuestionIsTrue
<1>1. ASSUME delete # None, ~delete.doubt, delete' = delete, UNCHANGED <<server, members>>,
             \A k \in Slot : calls'[k] # None => calls'[k].op = "delete",
             \A k \in Slot : (calls[k] # None /\ calls[k].stage = "done") =>
               calls'[k] # None /\ calls'[k].stage = "done"
      PROVE  QuestionIsTrue'
  BY <1>1 DEF QuestionIsTrue, Deletable
<1>2. CASE Quiet
  <2>1. UNCHANGED <<calls, server, members>>
    BY <1>2, QuietSteps
  <2>2. CASE delete' = delete
    BY <1>1, <2>1, <2>2 DEF QuestionIsTrue
  <2>3. CASE \E r \in Row : OpenDelete(r)
    <3>1. PICK r \in Row : OpenDelete(r)
      BY <2>3
    <3>2. /\ list # None /\ list.rows[r] \in Value
          /\ delete' = [row |-> r, full |-> r \in list.full, doubt |-> Doubtful]
      BY <3>1 DEF OpenDelete, Shows
    <3>3. ~Doubtful
      BY <3>2
    <3>4. list.rows = server /\ list.full = members /\ \A k \in Slot : calls[k] = None
      BY <3>2, <3>3 DEF ListIsServer, Current, Doubtful
    <3>5. server[r] \in Value /\ (delete'.full <=> r \in members) /\ delete'.row = r
      BY <3>2, <3>4
    <3>6. QED  BY <2>1, <3>4, <3>5 DEF QuestionIsTrue, Deletable
  <2>4. CASE OpenCreate \/ \E r \in Row : OpenEdit(r)
    BY <2>2, <2>4 DEF OpenCreate, OpenEdit
  <2>5. CASE \/ Refetch \/ ServeList \/ ListAnswered \/ ListFails \/ UNCHANGED vars
             \/ \E p \in {"read", "write", "delete"} : Regrant(p)
    <3>1. UNCHANGED dialogs
      BY <2>5 DEF Refetch, ServeList, ListAnswered, ListFails, Regrant, vars
    <3>2. QED  BY <2>2, <3>1 DEF dialogs
  <2>6. QED  BY <1>2, <2>3, <2>4, <2>5 DEF Quiet
<1>3. CASE Sends
  <2>1. delete' = delete /\ UNCHANGED <<server, members>>
    BY <1>3, SendingSteps DEF dialogs, data
  <2>2. PICK k \in Slot : Began(k)
    BY <1>3, SendingSteps
  <2>3. calls'[k].op = "delete" /\ calls[k] = None
    BY <2>1, <2>2 DEF Began, OneDialog
  <2>4. \A j \in Slot \ {k} : /\ calls'[j] = None <=> calls[j] = None
                              /\ calls[j] # None => /\ calls'[j].op = calls[j].op
                                                    /\ calls'[j].stage = calls[j].stage
    BY <2>2 DEF Began, Kept, Same
  <2>5. QED  BY <1>1, <2>1, <2>3, <2>4 DEF QuestionIsTrue
<1>4. CASE Closes
  <2>1. PICK op \in Ops : /\ Leave(op)
                          /\ op = "delete" => delete' = None
                          /\ op # "delete" => delete' = delete
    BY <1>4, ClosingSteps DEF Ops
  <2>2. delete' = delete /\ UNCHANGED <<server, members>>
    BY <1>4, <2>1, ClosingSteps DEF data
  <2>3. \A j \in Slot : /\ calls'[j] = None <=> calls[j] = None
                        /\ calls[j] # None => /\ calls'[j].op = calls[j].op
                                              /\ calls'[j].stage = calls[j].stage
    BY <2>1, LeftCalls DEF Same
  <2>4. QED  BY <1>1, <2>2, <2>3 DEF QuestionIsTrue
<1>5. CASE Others \/ \E k \in Slot : Lose(k)
  BY <1>5, OtherSteps, LosingSteps, DoubtedDialogs
<1>6. ASSUME NEW k \in Slot, Serve(k) PROVE QuestionIsTrue'
  <2>1. delete' = delete /\ members' = members
    BY <1>6, ServingSteps DEF dialogs
  <2>2. /\ calls'[k] # None /\ calls'[k].op = calls[k].op /\ calls[k].stage = "sent"
        /\ calls[k] # None /\ \A j \in Slot \ {k} : calls'[j] = calls[j]
    BY <1>6, ServingSteps, DialogConstants DEF Same
  <2>3. \A j \in Slot : calls'[j] # None => calls'[j].op = "delete"
    BY <2>1, <2>2 DEF QuestionIsTrue
  <2>4. CASE calls'[k].stage = "done"
    BY <2>1, <2>2, <2>3, <2>4 DEF QuestionIsTrue
  <2>5. CASE server' = server
    BY <1>1, <2>1, <2>2, <2>3, <2>5
  <2>6. QED  BY <1>6, <2>4, <2>5, ServingSteps
<1>7. ASSUME NEW k \in Slot, Succeeds(k) PROVE FALSE
  <2>1. calls[k] # None /\ (calls[k].op = "delete" => delete' = None)
    BY <1>7 DEF Succeeds
  <2>2. delete # None /\ delete' = delete
    BY <1>7, <2>1 DEF Succeeds
  <2>3. QED  BY <2>1, <2>2 DEF QuestionIsTrue
<1>8. ASSUME NEW k \in Slot, Fails(k) PROVE QuestionIsTrue'
  <2>1. delete' = delete /\ UNCHANGED <<server, members>>
    BY <1>8 DEF Fails, dialogs, data
  <2>2. calls'[k] = None /\ (\A j \in Slot \ {k} : calls'[j] = calls[j]) /\ calls[k].stage # "done"
    BY <1>8 DEF Fails, Failed, Reasons, TypeOK
  <2>3. QED  BY <1>1, <2>1, <2>2 DEF QuestionIsTrue
<1>9. QED  BY <1>2, <1>3, <1>4, <1>5, <1>6, <1>7, <1>8, KindsOfSteps

\* A request that is not in doubt finds its record.
LEMMA CallIsTrueKept ==
  ASSUME TypeOK, CallsOffered, FormIsAlone, QuestionIsTrue, CallIsTrue, screen' = screen, [Next]_vars
  PROVE  CallIsTrue'
<1> SUFFICES ASSUME NEW k \in Slot, calls'[k] # None, ~calls'[k].doubt
    PROVE  /\ \A j \in Slot : calls'[j] # None => j = k
           /\ calls'[k].stage = "sent" /\ calls'[k].op # "create" => server'[calls'[k].row] \in Value
           /\ calls'[k].stage = "sent" /\ calls'[k].op = "delete" /\ screen = "groups" =>
                calls'[k].row \notin members'
  BY DEF CallIsTrue
<1>1. CASE Sends /\ Began(k)
  <2>1. UNCHANGED <<server, members>>
    BY <1>1, SendingSteps DEF data
  <2>2. (\A j \in Slot : calls[j] = None) /\ \A j \in Slot \ {k} : calls'[j] = None
    BY <1>1 DEF Began, Kept
  <2>3. CASE calls'[k].op = "edit"
    <3>1. edit # None /\ ~edit.doubt /\ calls'[k].row = edit.row
      BY <1>1, <2>3 DEF Began
    <3>2. server[edit.row] = edit.base /\ edit.base \in Value
      BY <2>2, <3>1 DEF FormIsAlone, TypeOK, Form
    <3>3. QED  BY <2>1, <2>2, <2>3, <3>1, <3>2
  <2>4. CASE calls'[k].op = "delete"
    <3>1. delete # None /\ ~delete.doubt /\ calls'[k].row = delete.row
          /\ (screen = "groups" => ~delete.full)
      BY <1>1, <2>4 DEF Began
    <3>2. Deletable(delete.row, delete.full)
      BY <2>2, <3>1 DEF QuestionIsTrue
    <3>3. QED  BY <2>1, <2>2, <2>4, <3>1, <3>2 DEF Deletable
  <2>5. QED  BY <1>1, <2>2, <2>3, <2>4 DEF Began
<1>2. CASE calls[k] # None /\ Same(calls[k], calls'[k]) /\ ~calls[k].doubt
  <2>1. \A j \in Slot : calls[j] # None => j = k
    BY <1>2 DEF CallIsTrue
  <2>2. CASE /\ UNCHANGED <<server, members>> /\ calls'[k].stage = calls[k].stage
             /\ \A j \in Slot \ {k} : calls'[j] = None
    BY <1>2, <2>2 DEF CallIsTrue, Same
  <2>3. CASE Quiet
    BY <2>1, <2>2, <2>3, QuietSteps
  <2>4. CASE Sends
    <3>1. PICK i \in Slot : Began(i)
      BY <2>4, SendingSteps
    <3>2. i # k /\ calls'[k].doubt
      BY <1>2, <3>1 DEF Began
    <3>3. QED  BY <3>2
  <2>5. CASE Closes
    <3>1. PICK op \in Ops : Leave(op)
      BY <2>5, ClosingSteps
    <3>2. UNCHANGED <<server, members>>
      BY <2>5, ClosingSteps DEF data
    <3>3. QED  BY <1>2, <2>1, <2>2, <3>1, <3>2, LeftCalls
  <2>6. CASE Others
    BY <1>2, <2>6, OtherSteps, DoubtedCalls
  <2>7. ASSUME NEW j \in Slot, Serve(j) \/ Lose(j)
        PROVE  calls'[k].stage # "sent" /\ \A i \in Slot \ {k} : calls'[i] = None
    <3>1. calls[j] # None
      BY <2>7, ServingSteps, LosingSteps, DialogConstants
    <3>2. j = k
      BY <2>1, <3>1
    <3>3. QED  BY <2>1, <2>7, <3>2, ServingSteps, LosingSteps DEF Reasons
  <2>8. ASSUME NEW j \in Slot, Succeeds(j) \/ Fails(j) PROVE FALSE
    <3>1. calls[j] # None /\ calls'[j] = None
      BY <2>8 DEF Succeeds, Fails, TypeOK
    <3>2. QED  BY <2>1, <3>1
  <2>9. QED  BY <2>3, <2>4, <2>5, <2>6, <2>7, <2>8, KindsOfSteps
<1>3. QED  BY <1>1, <1>2, WhereCallsComeFrom

\* A deleted record does not come back.
LEMMA GoneStaysGone ==
  ASSUME TypeOK, CallsOffered, [Next]_vars, NEW r \in Row, server[r] = None
  PROVE  server'[r] = None
<1>1. CASE UNCHANGED server
  BY <1>1
<1>2. ASSUME NEW k \in Slot, Perform(k), calls[k] # None PROVE server'[r] = None
  <2>1. PICK q \in Row : /\ IF calls[k].op = "create" THEN server[q] = Unborn ELSE q = calls[k].row
                         /\ server' = [server EXCEPT ![q] = calls[k].value]
    BY <1>2 DEF Perform
  <2>2. calls[k].op # "create" => server[calls[k].row] \in Value
    BY <1>2 DEF Perform, Refusals, Reasons
  <2>3. q # r
    BY <2>1, <2>2, DialogConstants
  <2>4. QED  BY <2>1, <2>3 DEF TypeOK
<1>3. ASSUME NEW q \in Row, NEW v \in Value \cup {None}, OtherChanges(q, v) PROVE server'[r] = None
  BY <1>3 DEF OtherChanges, TypeOK
<1>4. QED  BY <1>1, <1>2, <1>3, ServerSteps

\* What is waited for is what is open.
LEMMA OwnIsOpenKept ==
  ASSUME TypeOK, OwnIsOpen, [Next]_vars
  PROVE  OwnIsOpen'
<1>1. ASSUME \A k \in Slot : (calls'[k] # None /\ calls'[k].own) =>
               /\ calls[k] # None /\ Same(calls[k], calls'[k]) /\ calls[k].own
               /\ calls[k].op = "edit" => edit' # None /\ edit'.row = edit.row
               /\ calls[k].op = "delete" => delete' # None /\ delete'.row = delete.row
      PROVE  OwnIsOpen'
  BY <1>1 DEF OwnIsOpen, Same
<1>2. CASE Quiet
  <2>1. UNCHANGED calls
    BY <1>2, QuietSteps
  <2>2. NoDialog \/ UNCHANGED dialogs
    BY <1>2 DEF Quiet, OpenCreate, OpenEdit, OpenDelete, Refetch, ServeList, ListAnswered,
         ListFails, Regrant, vars
  <2>3. CASE NoDialog
    BY <2>1, <2>3 DEF NoDialog, OwnIsOpen
  <2>4. CASE UNCHANGED dialogs
    BY <2>1, <2>4 DEF dialogs, OwnIsOpen
  <2>5. QED  BY <2>2, <2>3, <2>4
<1>3. CASE Sends
  <2>1. edit' = edit /\ delete' = delete
    BY <1>3, SendingSteps DEF dialogs
  <2>2. PICK i \in Slot : Began(i)
    BY <1>3, SendingSteps
  <2>3. \A j \in Slot \ {i} : (calls'[j] # None /\ calls'[j].own) =>
          /\ calls[j] # None /\ calls[j].own
          /\ calls[j].op = calls'[j].op /\ calls[j].row = calls'[j].row
    BY <2>2 DEF Began, Kept, Same
  <2>4. calls'[i].op = "edit" =>
          \A j \in Slot : calls[j] # None /\ calls[j].own => calls[j].op # "edit"
    BY <2>2 DEF Began, Busy, Pending
  <2>5. /\ calls'[i].op = "edit" => edit # None /\ edit.row = calls'[i].row
        /\ calls'[i].op = "delete" => delete # None /\ delete.row = calls'[i].row
    BY <2>2 DEF Began
  <2>6. QED  BY <2>1, <2>3, <2>4, <2>5 DEF OwnIsOpen
<1>4. CASE Closes
  <2>1. PICK op \in Ops : /\ Leave(op)
                          /\ op # "edit" => edit' = edit
                          /\ op # "delete" => delete' = delete
    BY <1>4, ClosingSteps DEF Ops
  <2>2. ASSUME NEW k \in Slot, calls'[k] # None, calls'[k].own
        PROVE  /\ calls[k] # None /\ Same(calls[k], calls'[k])
               /\ calls[k].op = op => op = "create"
               /\ calls[k].op # op => calls[k].own
    BY <2>1, <2>2, LeftCalls
  <2>3. QED  BY <2>1, <2>2 DEF OwnIsOpen, Same
<1>5. CASE Others
  BY <1>1, <1>5, OtherSteps, DoubtedCalls, DoubtedDialogs DEF OwnIsOpen
<1>6. ASSUME NEW i \in Slot, Serve(i) PROVE OwnIsOpen'
  <2>1. edit' = edit /\ delete' = delete
    BY <1>6, ServingSteps DEF dialogs
  <2>2. \A k \in Slot : (calls'[k] # None /\ calls'[k].own) =>
          calls[k] # None /\ calls[k].op = calls'[k].op /\ calls[k].row = calls'[k].row /\ calls[k].own
    BY <1>6, ServingSteps, DialogConstants DEF Same
  <2>3. QED  BY <2>1, <2>2 DEF OwnIsOpen
<1>7. ASSUME NEW i \in Slot, Lose(i) PROVE OwnIsOpen'
  <2>1. /\ edit # None => edit' # None /\ edit'.row = edit.row
        /\ delete # None => delete' # None /\ delete'.row = delete.row
    BY <1>7, LosingSteps, DoubtedDialogs
  <2>2. \A k \in Slot : (calls'[k] # None /\ calls'[k].own) =>
          calls[k] # None /\ calls[k].op = calls'[k].op /\ calls[k].row = calls'[k].row /\ calls[k].own
    BY <1>7, LosingSteps, DialogConstants DEF Same
  <2>3. QED  BY <2>1, <2>2 DEF OwnIsOpen
<1>8. ASSUME NEW i \in Slot, Succeeds(i) PROVE OwnIsOpen'
  <2>1. /\ calls[i].op # "edit" => edit' = edit
        /\ calls[i].op # "delete" => delete' = delete
    BY <1>8 DEF Succeeds
  <2>2. ASSUME NEW k \in Slot, calls'[k] # None, calls'[k].own
        PROVE  /\ calls[k] # None /\ Same(calls[k], calls'[k]) /\ calls[k].own
               /\ calls[k].op # calls[i].op \/ calls[k].op = "create"
    BY <1>8, <2>2, SucceededCalls
  <2>3. QED  BY <1>1, <2>1, <2>2 DEF OwnIsOpen
<1>9. ASSUME NEW i \in Slot, Fails(i) PROVE OwnIsOpen'
  <2>1. edit' = edit /\ delete' = delete /\ calls'[i] = None /\ \A k \in Slot \ {i} : calls'[k] = calls[k]
    BY <1>9 DEF Fails, dialogs, TypeOK
  <2>2. QED  BY <2>1 DEF OwnIsOpen
<1>10. QED  BY <1>2, <1>3, <1>4, <1>5, <1>6, <1>7, <1>8, <1>9, KindsOfSteps

\* Requests that are done were done before, or are performed in this step.
LEMMA WhoIsDone ==
  ASSUME TypeOK, [Next]_vars, NEW k \in Slot, calls'[k] # None, calls'[k].stage = "done"
  PROVE  /\ calls[k] # None /\ Same(calls[k], calls'[k])
         /\ \/ calls[k].stage = "done"
            \/ Perform(k) /\ \A j \in Slot \ {k} : calls'[j] = calls[j]
<1> USE DEF Same
<1>1. CASE Quiet
  BY <1>1, QuietSteps DEF TypeOK
<1>2. CASE Sends
  BY <1>2, SendingSteps DEF Began, Kept
<1>3. CASE Closes
  BY <1>3, ClosingSteps, LeftCalls
<1>4. CASE Others
  BY <1>4, OtherSteps, DoubtedCalls
<1>5. CASE \E i \in Slot : Serve(i)
  <2>1. PICK i \in Slot : Serve(i)
    BY <1>5
  <2>2. /\ calls[i] # None /\ Same(calls[i], calls'[i])
        /\ \A j \in Slot \ {i} : calls'[j] = calls[j]
        /\ calls'[i].stage = "done" => Perform(i)
    BY <2>1, ServingSteps, DialogConstants DEF Reasons
  <2>3. QED  BY <2>2 DEF TypeOK
<1>6. CASE \E i \in Slot : Lose(i)
  <2>1. PICK i \in Slot : calls'[i].stage = "lost" /\ \A j \in Slot \ {i} : calls'[j] = calls[j]
    BY <1>6, LosingSteps
  <2>2. QED  BY <2>1 DEF TypeOK
<1>7. CASE \E i \in Slot : Succeeds(i)
  BY <1>7, SucceededCalls
<1>8. CASE \E i \in Slot : Fails(i)
  BY <1>8 DEF Fails, TypeOK
<1>9. QED  BY <1>1, <1>2, <1>3, <1>4, <1>5, <1>6, <1>7, <1>8, KindsOfSteps

\* A record is deleted once: the second request finds it gone.
LEMMA DeletedOnceKept ==
  ASSUME TypeOK, CallsOffered, DeletedOnce, [Next]_vars
  PROVE  DeletedOnce'
<1> DEFINE Done(k) == calls[k] # None /\ calls[k].op = "delete" /\ calls[k].stage = "done"
           Does(k) == /\ calls[k] # None /\ calls[k].op = "delete" /\ Perform(k)
                      /\ \A j \in Slot \ {k} : calls'[j] = calls[j]
<1>1. ASSUME NEW k \in Slot, calls'[k] # None, calls'[k].op = "delete", calls'[k].stage = "done"
      PROVE  calls'[k].row = calls[k].row /\ calls[k].row \in Row /\ (Done(k) \/ Does(k))
  BY <1>1, WhoIsDone DEF Same, TypeOK, Call, CallsOffered
<1>2. ASSUME NEW k \in Slot, Does(k)
      PROVE  server[calls[k].row] \in Value /\ server'[calls[k].row] = None
  <2>1. calls[k].value = None /\ calls[k].row \in Row
    BY <1>2 DEF CallsOffered, TypeOK, Call
  <2>2. server' = [server EXCEPT ![calls[k].row] = None] /\ Refusals(calls[k]) = {}
    BY <1>2, <2>1 DEF Perform
  <2>3. QED  BY <1>2, <2>1, <2>2 DEF Refusals, Reasons, TypeOK
<1>3. ASSUME NEW k \in Slot, Done(k), calls[k].row \in Row
      PROVE  server[calls[k].row] = None /\ server'[calls[k].row] = None
  BY <1>3, GoneStaysGone DEF DeletedOnce
<1>4. ASSUME NEW k \in Slot, NEW j \in Slot, Done(k) \/ Does(k), Done(j) \/ Does(j),
             calls[k].row \in Row, calls[j].row = calls[k].row
      PROVE  j = k
  <2>1. CASE Done(k) /\ Done(j)
    BY <1>4, <2>1 DEF DeletedOnce
  <2>2. CASE (Does(k) /\ Done(j)) \/ (Done(k) /\ Does(j))
    BY <1>2, <1>3, <1>4, <2>2, DialogConstants
  <2>3. CASE Does(k) /\ Does(j) /\ j # k
    <3>1. calls'[j] = calls[j]
      BY <2>3
    <3>2. At(j, "done") /\ calls[j] # None
      BY <2>3 DEF Perform
    <3>3. calls'[j].stage = "done"
      BY <3>2, MarkedCalls
    <3>4. Done(j)
      BY <2>3, <3>1, <3>3
    <3>5. QED  BY <2>2, <2>3, <3>4
  <2>4. QED  BY <1>4, <2>1, <2>2, <2>3
<1>5. QED  BY <1>1, <1>2, <1>3, <1>4 DEF DeletedOnce

\* Nobody waits for a request though the user did not leave its dialog only when it can no
\* longer succeed.
LEMMA ClosedByAnotherKept ==
  ASSUME TypeOK, CallsOffered, OwnIsOpen, ClosedByAnother, DeletedOnce, [Next]_vars
  PROVE  ClosedByAnother'
<1> SUFFICES ASSUME NEW k \in Slot, calls'[k] # None, ~calls'[k].left, ~calls'[k].own
    PROVE  /\ calls'[k].op # "edit"
           /\ calls'[k].op = "delete" => calls'[k].stage # "done" /\ server'[calls'[k].row] = None
  BY DEF ClosedByAnother
<1>1. ASSUME calls[k] # None, Same(calls[k], calls'[k]), calls'[k].stage # "done" \/ calls[k].stage = "done",
             calls[k].op # "edit",
             calls[k].op = "delete" => calls[k].stage # "done" /\ server[calls[k].row] = None
      PROVE  /\ calls'[k].op # "edit"
             /\ calls'[k].op = "delete" => calls'[k].stage # "done" /\ server'[calls'[k].row] = None
  <2>1. calls[k].op = "delete" => calls[k].row \in Row
    BY <1>1 DEF CallsOffered, TypeOK, Call
  <2>2. QED  BY <1>1, <2>1, GoneStaysGone DEF Same
<1>2. ASSUME calls[k] # None, Same(calls[k], calls'[k]), calls'[k].stage # "done" \/ calls[k].stage = "done",
             ~calls[k].own, ~calls[k].left
      PROVE  /\ calls'[k].op # "edit"
             /\ calls'[k].op = "delete" => calls'[k].stage # "done" /\ server'[calls'[k].row] = None
  BY <1>1, <1>2 DEF ClosedByAnother
<1>3. CASE Quiet
  <2>1. calls' = calls
    BY <1>3, QuietSteps
  <2>2. QED  BY <1>2, <2>1 DEF Same, TypeOK
<1>4. CASE Sends
  <2>1. PICK i \in Slot : Began(i)
    BY <1>4, SendingSteps
  <2>2. i # k
    BY <2>1 DEF Began
  <2>3. QED  BY <1>2, <2>1, <2>2 DEF Began, Kept
<1>5. CASE Closes
  BY <1>2, <1>5, ClosingSteps, LeftCalls
<1>6. CASE Others
  BY <1>2, <1>6, OtherSteps, DoubtedCalls
<1>7. ASSUME NEW i \in Slot, Serve(i)
      PROVE  /\ calls'[k].op # "edit"
             /\ calls'[k].op = "delete" => calls'[k].stage # "done" /\ server'[calls'[k].row] = None
  <2>1. CASE i # k
    <3>1. calls'[k] = calls[k]
      BY <1>7, <2>1, ServingSteps
    <3>2. QED  BY <1>2, <3>1 DEF Same, TypeOK
  <2>2. CASE i = k
    <3>1. /\ calls[k] # None /\ Same(calls[k], calls'[k]) /\ ~calls[k].own /\ ~calls[k].left
      BY <1>7, <2>2, ServingSteps, DialogConstants
    <3>2. calls[k].op # "edit" /\ (calls[k].op = "delete" => server[calls[k].row] = None)
      BY <3>1 DEF ClosedByAnother
    <3>3. calls[k].op = "delete" => ~Perform(k)
      BY <3>2, DialogConstants DEF Perform, Refusals, Reasons
    <3>4. calls[k].op = "delete" => calls'[k].stage # "done"
      BY <1>7, <2>2, <3>3, ServingSteps DEF Reasons
    <3>5. calls[k].op = "delete" => calls[k].row \in Row
      BY <3>1 DEF CallsOffered, TypeOK, Call
    <3>6. QED  BY <3>1, <3>2, <3>4, <3>5, GoneStaysGone DEF Same
  <2>3. QED  BY <2>1, <2>2
<1>8. ASSUME NEW i \in Slot, Lose(i)
      PROVE  /\ calls'[k].op # "edit"
             /\ calls'[k].op = "delete" => calls'[k].stage # "done" /\ server'[calls'[k].row] = None
  <2>1. CASE i # k
    <3>1. calls'[k] = calls[k]
      BY <1>8, <2>1, LosingSteps
    <3>2. QED  BY <1>2, <3>1 DEF Same, TypeOK
  <2>2. CASE i = k
    BY <1>2, <1>8, <2>2, LosingSteps, DialogConstants
  <2>3. QED  BY <2>1, <2>2
<1>9. ASSUME NEW i \in Slot, Succeeds(i)
      PROVE  /\ calls'[k].op # "edit"
             /\ calls'[k].op = "delete" => calls'[k].stage # "done" /\ server'[calls'[k].row] = None
  <2>1. /\ i # k /\ calls[k] # None /\ Same(calls[k], calls'[k])
        /\ calls'[k].stage = calls[k].stage /\ ~calls[k].left
    BY <1>9, SucceededCalls
  <2>2. calls[i] # None /\ calls[i].stage = "done"
    BY <1>9 DEF Succeeds
  <2>3. CASE ~calls[k].own
    BY <1>2, <2>1, <2>3
  <2>4. CASE calls[k].own
    <3>1. calls[i].op = calls[k].op /\ ~calls[i].left
      BY <1>9, <2>1, <2>4, SucceededCalls
    <3>2. CASE calls[k].op = "edit"
      <4>1. calls[i].own
        BY <2>2, <3>1, <3>2 DEF ClosedByAnother
      <4>2. QED  BY <2>1, <2>2, <2>4, <3>1, <3>2, <4>1 DEF OwnIsOpen
    <3>3. CASE calls[k].op = "delete"
      <4>1. calls[i].own
        BY <2>2, <3>1, <3>3 DEF ClosedByAnother
      <4>2. calls[i].row = calls[k].row
        BY <2>1, <2>2, <2>4, <3>1, <3>3, <4>1 DEF OwnIsOpen
      <4>3. server[calls[k].row] = None /\ calls[k].stage # "done"
        BY <2>1, <2>2, <3>1, <3>3, <4>2 DEF DeletedOnce
      <4>4. QED  BY <1>1, <2>1, <3>3, <4>3
    <3>4. CASE calls[k].op \notin {"edit", "delete"}
      BY <2>1, <3>4 DEF Same
    <3>5. QED  BY <3>2, <3>3, <3>4
  <2>5. QED  BY <2>3, <2>4
<1>10. ASSUME NEW i \in Slot, Fails(i)
      PROVE  /\ calls'[k].op # "edit"
             /\ calls'[k].op = "delete" => calls'[k].stage # "done" /\ server'[calls'[k].row] = None
  <2>1. calls'[k] = calls[k]
    BY <1>10 DEF Fails, TypeOK
  <2>2. QED  BY <1>2, <2>1 DEF Same, TypeOK
<1>11. QED  BY <1>3, <1>4, <1>5, <1>6, <1>7, <1>8, <1>9, <1>10, KindsOfSteps

\* What was offered is accepted, as far as the page can know.
LEMMA OffersAreAcceptedKept ==
  ASSUME TypeOK, RightsAgree, CallsOffered, CallIsTrue, OffersAreAccepted, [Next]_vars
  PROVE  OffersAreAccepted'
<1>0. screen' = screen /\ (regranted => regranted')
  BY RightsKept
<1> SUFFICES ASSUME NEW k \in Slot, calls'[k] # None
    PROVE  /\ calls'[k].stage = "forbidden" => regranted'
           /\ calls'[k].stage = "protected" => screen # "roles"
           /\ calls'[k].stage \in {"gone", "members"} => calls'[k].doubt
  BY <1>0 DEF OffersAreAccepted
<1>1. ASSUME calls[k] # None, calls'[k].stage = calls[k].stage, calls[k].doubt => calls'[k].doubt
      PROVE  /\ calls'[k].stage = "forbidden" => regranted'
             /\ calls'[k].stage = "protected" => screen # "roles"
             /\ calls'[k].stage \in {"gone", "members"} => calls'[k].doubt
  BY <1>0, <1>1 DEF OffersAreAccepted
<1>2. CASE Quiet
  BY <1>1, <1>2, QuietSteps
<1>3. CASE Sends
  BY <1>1, <1>3, SendingSteps DEF Began, Kept
<1>4. CASE Closes
  BY <1>1, <1>4, ClosingSteps, LeftCalls
<1>5. CASE Others
  BY <1>1, <1>5, OtherSteps, DoubtedCalls
<1>6. CASE Serve(k)
  <2>1. /\ calls[k] \in Call /\ calls[k] # None /\ calls[k].stage = "sent"
        /\ calls'[k].doubt = calls[k].doubt /\ UNCHANGED rights
    BY <1>6, ServingSteps DEF Serve
  <2>2. CASE calls'[k].stage = "done"
    BY <2>2
  <2>3. CASE Refuse(k)
    <3>1. PICK why \in Reasons :
            /\ \/ why \in Refusals(calls[k])
               \/ why = "protected" /\ calls[k].op = "edit" /\ screen = "users" /\ IsReserved(calls[k].row)
            /\ At(k, why)
      BY <2>3 DEF Refuse
    <3>2. calls'[k].stage = why
      BY <2>1, <3>1, MarkedCalls
    <3>3. ASSUME why = "forbidden" PROVE regranted
      <4>1. Forbidden(calls[k])
        BY <3>1, <3>3 DEF Refusals
      <4>2. Offered(calls[k].op, calls[k].row) /\ calls[k].op \in Ops
        BY <2>1 DEF CallsOffered, Call
      <4>3. held # granted
        BY <4>1, <4>2 DEF Forbidden, Accepts, Offered, CanManage, CanDelete, HasPermission, Ops
      <4>4. QED  BY <4>3 DEF RightsAgree
    <3>4. ASSUME why = "protected" PROVE screen # "roles"
      <4>1. CASE calls[k].op # "create" /\ IsReserved(calls[k].row)
        <5>1. Offered(calls[k].op, calls[k].row) /\ calls[k].op \in Ops
          BY <2>1 DEF CallsOffered, Call
        <5>2. QED  BY <4>1, <5>1 DEF Offered, IsReserved, Ops
      <4>2. CASE screen = "users"
        BY <4>2
      <4>3. QED  BY <3>1, <3>4, <4>1, <4>2 DEF Refusals
    <3>5. ASSUME why \in {"gone", "members"} PROVE calls[k].doubt
      BY <2>1, <3>1, <3>5 DEF Refusals, CallIsTrue
    <3>6. QED  BY <1>0, <2>1, <3>2, <3>3, <3>4, <3>5
  <2>4. QED  BY <1>6, <2>2, <2>3, ServingSteps
<1>7. CASE Lose(k)
  BY <1>7, LosingSteps
<1>8. CASE \E i \in Slot \ {k} : Serve(i) \/ Lose(i)
  BY <1>1, <1>8, ServingSteps, LosingSteps
<1>9. CASE \E i \in Slot : Succeeds(i)
  BY <1>1, <1>9, SucceededCalls
<1>10. CASE \E i \in Slot : Fails(i)
  BY <1>1, <1>10 DEF Fails, TypeOK
<1>11. QED  BY <1>2, <1>3, <1>4, <1>5, <1>6, <1>7, <1>8, <1>9, <1>10, KindsOfSteps

-----------------------------------------------------------------------------
(* The theorems *)

\* The page is opened with nothing read and nothing under way.
THEOREM DialogsStart == Init => IInv
<1> SUFFICES ASSUME Init PROVE IInv
  OBVIOUS
<1> USE DialogConstants DEF Init, Fetch
<1>1. TypeOK
  <2>1. server \in [Row -> Record]
    BY DEF Record
  <2>2. held \in SUBSET Actions /\ granted \in SUBSET Actions /\ regranted \in BOOLEAN
    OBVIOUS
  <2>3. calls \in [Slot -> Call \cup {None}]
    OBVIOUS
  <2>4. fetch \in [stage : {"none", "sent", "served"}, got : Snapshot \cup {None},
                  aged : BOOLEAN]
    OBVIOUS
  <2>5. presses \in 0..MaxPresses /\ upsets \in 0..MaxUpsets
    OBVIOUS
  <2>6. screen \in Screens /\ self \in Row \cup {None} /\ members \in SUBSET Row
    OBVIOUS
  <2>7. aged \in BOOLEAN /\ stale \in BOOLEAN /\ create \in BOOLEAN
    OBVIOUS
  <2>8. list \in Snapshot \cup {None} /\ delete \in Question \cup {None} /\ edit \in Form \cup {None}
    OBVIOUS
  <2>9. QED  BY <2>1, <2>2, <2>3, <2>4, <2>5, <2>6, <2>7, <2>8, Zenon DEF TypeOK
<1>2. OneDialog /\ RightsAgree /\ DialogsOffered
  BY DEF OneDialog, RightsAgree, DialogsOffered
<1>3. ReservedHeld /\ ReservedSeen
  BY DEF ReservedHeld, ReservedSeen
<1>4. CallsOffered /\ OwnIsOpen /\ CallIsTrue /\ ClosedByAnother /\ DeletedOnce
  BY DEF CallsOffered, OwnIsOpen, CallIsTrue, ClosedByAnother, DeletedOnce
<1>5. AnswerIsServer /\ ListIsServer
  BY DEF AnswerIsServer, ListIsServer
<1>6. FormIsAlone /\ QuestionIsTrue /\ OffersAreAccepted
  BY DEF FormIsAlone, QuestionIsTrue, OffersAreAccepted
<1>7. QED  BY <1>1, <1>2, <1>3, <1>4, <1>5, <1>6 DEF IInv

\* Every step of the page, of its requests and of the others keeps the invariant.
THEOREM DialogsContinue == IInv /\ [Next]_vars => IInv'
<1> SUFFICES ASSUME IInv, [Next]_vars PROVE IInv'
  OBVIOUS
<1>1. TypeOK' /\ OneDialog' /\ RightsAgree' /\ screen' = screen
  BY TypesKept, OneDialogKept, RightsKept DEF IInv
<1>2. ReservedHeld' /\ ReservedSeen'
  BY ReservedKept, ReservedSeenKept DEF IInv
<1>3. DialogsOffered' /\ CallsOffered'
  BY DialogsOfferedKept, CallsOfferedKept DEF IInv
<1>4. AnswerIsServer' /\ ListIsServer'
  BY AnswerIsServerKept, ListIsServerKept DEF IInv
<1>5. FormIsAlone' /\ QuestionIsTrue' /\ CallIsTrue'
  BY <1>1, FormIsAloneKept, QuestionIsTrueKept, CallIsTrueKept DEF IInv
<1>6. OwnIsOpen' /\ ClosedByAnother' /\ DeletedOnce'
  BY OwnIsOpenKept, ClosedByAnotherKept, DeletedOnceKept DEF IInv
<1>7. OffersAreAccepted'
  BY OffersAreAcceptedKept DEF IInv
<1>8. QED  BY <1>1, <1>2, <1>3, <1>4, <1>5, <1>6, <1>7 DEF IInv

\* The inductive invariant holds in every behaviour.
THEOREM DialogsInvariant == Spec => []IInv
BY DialogsStart, DialogsContinue, PTL DEF Spec

\* The variables keep their types.
THEOREM DialogsTyped == Spec => []TypeOK
<1>1. IInv => TypeOK
  BY DEF IInv
<1>2. QED  BY <1>1, DialogsInvariant, PTL

\* What a page offers is refused for want of a permission only after a change of the user's
\* permissions, as protected never on RolesPage, and as gone or not empty only when the dialog
\* or another request under way made it doubtful.
THEOREM OfferedIsAccepted == Spec => []OffersAreAccepted
<1>1. IInv => OffersAreAccepted
  BY DEF IInv
<1>2. QED  BY <1>1, DialogsInvariant, PTL

\* A form that is not in doubt shows what the server has.
THEOREM FormIsCurrent == Spec => []FormShowsTheRecord
<1>1. IInv => FormShowsTheRecord
  BY DEF IInv, FormIsAlone, FormShowsTheRecord, Pending
<1>2. QED  BY <1>1, DialogsInvariant, PTL

\* A request ends by its answer.
LEMMA OnlyAnswersEnd ==
  ASSUME TypeOK, [Next]_vars, NEW k \in Slot, calls[k] # None, calls'[k] = None
  PROVE  Succeeds(k) \/ Fails(k)
<1>1. CASE Quiet
  BY <1>1, QuietSteps
<1>2. CASE Sends
  BY <1>2, SendingSteps DEF Began, Kept
<1>3. CASE Closes
  BY <1>3, ClosingSteps, LeftCalls
<1>4. CASE Others
  BY <1>4, OtherSteps, DoubtedCalls
<1>5. CASE \E i \in Slot : Serve(i) \/ Lose(i)
  <2>1. PICK i \in Slot : calls'[i] # None /\ \A j \in Slot \ {i} : calls'[j] = calls[j]
    BY <1>5, ServingSteps, LosingSteps
  <2>2. QED  BY <2>1
<1>6. CASE \E i \in Slot : Succeeds(i)
  BY <1>6, SucceededCalls
<1>7. ASSUME NEW i \in Slot, Fails(i) PROVE Fails(k)
  BY <1>7 DEF Fails, TypeOK
<1>8. QED  BY <1>1, <1>2, <1>3, <1>4, <1>5, <1>6, <1>7, KindsOfSteps

\* An answer closes the dialog its request was sent from, or one about the same record, unless
\* the user had left the dialog before.
THEOREM AnswersCloseTheirOwn == Spec => ClosesItsOwn
<1>1. ASSUME IInv, [Next]_vars, NEW k \in Slot, calls[k] # None, calls'[k] = None, dialogs' # dialogs
      PROVE  calls[k].stage = "done" /\ (calls[k].left \/ ShowsOwn(calls[k]))
  <2>1. Succeeds(k)
    <3>1. Fails(k) => dialogs' = dialogs
      BY DEF Fails
    <3>2. QED  BY <1>1, <3>1, OnlyAnswersEnd DEF IInv
  <2>2. calls[k].stage = "done" /\ calls[k] \in Call
    BY <2>1, SucceededCalls, <1>1 DEF Succeeds, IInv
  <2>3. CASE calls[k].op = "create"
    <3>1. edit' = edit /\ delete' = delete /\ create' = FALSE /\ create \in BOOLEAN
      BY <1>1, <2>1, <2>3 DEF Succeeds, IInv, TypeOK
    <3>2. create
      BY <1>1, <3>1 DEF dialogs
    <3>3. QED  BY <2>2, <2>3, <3>2 DEF ShowsOwn
  <2>4. CASE calls[k].op # "create" /\ ~calls[k].left
    <3>1. calls[k].op \in {"edit", "delete"}
      BY <2>2, <2>4 DEF Call, Ops
    <3>2. calls[k].own
      BY <1>1, <2>2, <2>4, <3>1 DEF IInv, ClosedByAnother
    <3>3. QED  BY <1>1, <2>2, <3>1, <3>2 DEF IInv, OwnIsOpen, ShowsOwn
  <2>5. QED  BY <2>2, <2>3, <2>4
<1>2. IInv /\ [Next]_vars =>
        [\A k \in Slot : (calls[k] # None /\ calls'[k] = None /\ dialogs' # dialogs) =>
           calls[k].stage = "done" /\ (calls[k].left \/ ShowsOwn(calls[k]))]_vars
  BY <1>1
<1>3. QED  BY <1>2, DialogsInvariant, PTL DEF Spec, ClosesItsOwn
=============================================================================
