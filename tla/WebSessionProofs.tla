-------------------------- MODULE WebSessionProofs --------------------------
(* The safety properties of WebSession, for any tabs, users and bounds.

   IdentityAgrees is not inductive: what a tab restores is what localStorage holds, so
   the storage itself must agree (StorageAgrees), and the claim is needed for a tab
   behind its spinner too (TabsAgree). EndedStaysEnded needs that a new token is new
   (TokensIssued). *)
EXTENDS WebSession, TLAPS

\* Every token known anywhere was issued by a login so far.
Issued(t) == t \in Token /\ t[2] <= logins

TokensIssued ==
  /\ \A t \in ended \cup alive : Issued(t)
  /\ stored.token # None => Issued(stored.token)
  /\ \A i \in Tab : login[i].stage = "login" => login[i].user \in User

\* What localStorage says of itself, unless a late answer was written over a session.
StorageAgrees ==
  (~mixed /\ stored.token # None /\ stored.user # None) => stored.user = Owner(stored.token)

\* What a tab shows, unless another tab or a late answer intervened.
TabsAgree ==
  \A i \in Tab :
    (IsAuthenticated(i) /\ ~crossed[i]) =>
      auth[i].token = stored.token /\ auth[i].user = Owner(stored.token)

IInv == TypeOK /\ TokensIssued /\ StorageAgrees /\ TabsAgree /\ EndedStaysEnded

-----------------------------------------------------------------------------
\* A token is a pair of a user and the number of a login, and none is None.
LEMMA TokenParts ==
  /\ None \notin Token /\ None \notin User
  /\ \A t \in Token : Owner(t) \in User /\ t[2] \in 1..MaxLogins
BY ConstantsFit DEF Token, Owner

LEMMA NoLoginFits ==
  /\ NoLogin \in [stage : {"none", "login", "me"}, user : User \cup {None},
                 token : Token \cup {None}]
  /\ NoLogin.stage = "none"
BY DEF NoLogin

\* What Store leaves of the invariant whatever is written: the types, the history of ended
\* tokens, and the claim about the other tabs, whose store it does not touch.
LEMMA StoreKeeps ==
  ASSUME IInv, NEW i \in Tab, NEW session \in Session, NEW differs \in BOOLEAN,
         NEW late \in BOOLEAN, Store(i, session, differs, late),
         session.token = None \/ session.token = stored.token \/ session.token \notin ended
  PROVE  /\ stored' = session /\ mixed' = late
         /\ ended' \in SUBSET Token /\ crossed' \in [Tab -> BOOLEAN]
         /\ crossed'[i] = differs
         /\ \A t \in ended' : t \in ended \/ (t = stored.token /\ t # None)
         /\ session.token \notin ended'
         /\ \A j \in Tab \ {i} : (IsAuthenticated(j) /\ ~crossed'[j]) =>
              ~crossed[j] /\ session.token = stored.token
<1> USE DEF IInv, TypeOK, Session
<1>1. None \notin ended
  BY TokenParts
<1>2. ended' = IF stored.token \in {None, session.token} THEN ended ELSE ended \cup {stored.token}
  BY DEF Store
<1>3. /\ ended' \in SUBSET Token
      /\ \A t \in ended' : t \in ended \/ (t = stored.token /\ t # None)
  BY <1>2
<1>4. session.token \notin ended'
  BY <1>1, <1>2 DEF EndedStaysEnded
<1>5. crossed' = [j \in Tab |->
         IF j = i THEN differs
         ELSE IsAuthenticated(j) /\ (crossed[j] \/ session.token # stored.token)]
  BY DEF Store
<1>6. crossed' \in [Tab -> BOOLEAN]
  BY <1>5, ZenonT(20) DEF IsAuthenticated
<1>7. /\ crossed'[i] = differs
      /\ \A j \in Tab \ {i} : (IsAuthenticated(j) /\ ~crossed'[j]) =>
           ~crossed[j] /\ session.token = stored.token
  BY <1>5
<1> QED
  BY <1>3, <1>4, <1>6, <1>7 DEF Store

\* Nothing is issued twice: what was issued stays issued when logins grows.
LEMMA IssuedStays ==
  ASSUME TypeOK, logins' \in 0..MaxLogins, logins <= logins', NEW t, Issued(t)
  PROVE  Issued(t)'
BY TokenParts, ConstantsFit DEF TypeOK, Issued, Token

\* The invariant holds initially.
THEOREM SessionStarts == Init => IInv
<1> SUFFICES ASSUME Init PROVE IInv
  OBVIOUS
<1>1. TypeOK
  <2>1. Nobody \in Session /\ NoLogin \in [stage : {"none", "login", "me"},
                              user : User \cup {None}, token : Token \cup {None}]
    BY DEF Nobody, Session, NoLogin
  <2>2. stored \in Session /\ auth \in [Tab -> Session]
    BY <2>1 DEF Init
  <2>3. login \in [Tab -> [stage : {"none", "login", "me"}, user : User \cup {None},
                          token : Token \cup {None}]]
    BY <2>1 DEF Init
  <2>4. {loading, leaving, crossed} \subseteq [Tab -> BOOLEAN] /\ mixed \in BOOLEAN
    BY DEF Init
  <2>5. /\ alive \in SUBSET Token /\ ended \in SUBSET Token /\ logins \in 0..MaxLogins
        /\ calls \in SUBSET [tab : Tab, kind : {"query", "profile", "logout"},
                            as : Token \cup {None}, user : User \cup {None}]
    BY ConstantsFit DEF Init
  <2> QED
    BY <2>2, <2>3, <2>4, <2>5 DEF TypeOK
<1>2. TokensIssued /\ StorageAgrees /\ TabsAgree /\ EndedStaysEnded
  BY DEF Init, TokensIssued, StorageAgrees, TabsAgree, EndedStaysEnded, IsAuthenticated,
         Nobody, NoLogin
<1> QED
  BY <1>1, <1>2 DEF IInv

-----------------------------------------------------------------------------
\* A step that writes the storage by clearing it, in tab i.
LEMMA ClearKeeps ==
  ASSUME IInv, NEW i \in Tab, ClearAll(i), Forget(i),
         leaving' \in [Tab -> BOOLEAN], loading' \in [Tab -> BOOLEAN],
         login' = login \/ login' = [login EXCEPT ![i] = NoLogin],
         calls' \in SUBSET [tab : Tab, kind : {"query", "profile", "logout"},
                            as : Token \cup {None}, user : User \cup {None}],
         UNCHANGED <<alive, logins>>
  PROVE  IInv'
<1> USE DEF IInv
<1>1. Nobody \in Session
  BY DEF Nobody, Session
<1>2. /\ stored' = Nobody /\ mixed' = FALSE
      /\ ended' \in SUBSET Token /\ crossed' \in [Tab -> BOOLEAN]
      /\ \A t \in ended' : t \in ended \/ (t = stored.token /\ t # None)
      /\ None \notin ended'
      /\ \A j \in Tab \ {i} : (IsAuthenticated(j) /\ ~crossed'[j]) =>
           ~crossed[j] /\ None = stored.token
  BY <1>1, StoreKeeps DEF ClearAll, Nobody
<1>3. auth' = [auth EXCEPT ![i] = Nobody]
  BY DEF Forget
<1>4. TypeOK'
  <2>1. auth' \in [Tab -> Session]
    BY <1>1, <1>3 DEF TypeOK
  <2>2. login' \in [Tab -> [stage : {"none", "login", "me"}, user : User \cup {None},
                           token : Token \cup {None}]]
    BY NoLoginFits DEF TypeOK
  <2> QED
    BY <1>1, <1>2, <2>1, <2>2 DEF TypeOK
<1>5. TokensIssued'
  <2>1. \A j \in Tab : login'[j].stage = "login" => login'[j].user \in User
    <3>1. CASE login' = login
      BY <3>1 DEF TokensIssued
    <3>2. CASE login' = [login EXCEPT ![i] = NoLogin]
      BY <3>2, NoLoginFits DEF TokensIssued, TypeOK
    <3> QED
      BY <3>1, <3>2
  <2>2. \A t \in ended' \cup alive' : Issued(t)'
    BY <1>2 DEF TokensIssued, Issued
  <2> QED
    BY <1>2, <2>1, <2>2 DEF TokensIssued, Nobody
<1>6. TabsAgree'
  BY <1>2, <1>3 DEF TabsAgree, TypeOK, IsAuthenticated, Nobody
<1> QED
  BY <1>2, <1>4, <1>5, <1>6 DEF StorageAgrees, EndedStaysEnded, Nobody

\* A step that leaves the storage and the Redux stores alone.
LEMMA QuietKeeps ==
  ASSUME IInv, UNCHANGED <<stored, auth, ended, crossed, mixed, logins>>,
         leaving' \in [Tab -> BOOLEAN], loading' \in [Tab -> BOOLEAN],
         login' \in [Tab -> [stage : {"none", "login", "me"}, user : User \cup {None},
                             token : Token \cup {None}]],
         \A j \in Tab : login'[j].stage = "login" => login'[j].user \in User,
         calls' \in SUBSET [tab : Tab, kind : {"query", "profile", "logout"},
                            as : Token \cup {None}, user : User \cup {None}],
         alive' \subseteq alive
  PROVE  IInv'
<1> USE DEF IInv
<1>1. TypeOK'
  BY DEF TypeOK
<1>2. TokensIssued'
  BY DEF TokensIssued, Issued
<1> QED
  BY <1>1, <1>2 DEF StorageAgrees, TabsAgree, EndedStaysEnded, IsAuthenticated
-----------------------------------------------------------------------------
\* A page that is loaded starts from the storage, or from nothing.
LEMMA LoadKeeps == ASSUME IInv, NEW i \in Tab, Load(i) PROVE IInv'
<1> USE DEF IInv
<1>1. Nobody \in Session /\ Nobody.token = None
  BY DEF Nobody, Session
<1>2. TypeOK'
  <2>1. login' \in [Tab -> [stage : {"none", "login", "me"}, user : User \cup {None},
                           token : Token \cup {None}]]
    BY NoLoginFits DEF Load, TypeOK
  <2>2. auth' \in [Tab -> Session] /\ {loading', leaving', crossed'} \subseteq [Tab -> BOOLEAN]
    BY <1>1 DEF Load, TypeOK
  <2> QED
    BY <2>1, <2>2 DEF Load, TypeOK
<1>3. TokensIssued'
  <2>1. \A j \in Tab : login'[j].stage = "login" => login'[j].user \in User
    BY NoLoginFits DEF Load, TokensIssued, TypeOK
  <2> QED
    BY <2>1 DEF Load, TokensIssued, Issued
<1>4. TabsAgree'
  BY <1>1 DEF Load, TabsAgree, TypeOK, IsAuthenticated
<1> QED
  BY <1>2, <1>3, <1>4 DEF Load, StorageAgrees, EndedStaysEnded

LEMMA RestoreKeeps == ASSUME IInv, NEW i \in Tab, Restore(i) PROVE IInv'
<1> USE DEF IInv
<1>1. TypeOK'
  <2>1. auth' \in [Tab -> Session] /\ crossed' \in [Tab -> BOOLEAN]
    <3>1. CASE stored.token # None /\ stored.user # None
      <4>1. [token |-> stored.token, user |-> stored.user] \in Session
        BY DEF TypeOK, Session
      <4> QED
        BY <3>1, <4>1 DEF Restore, TypeOK, SetCredentials
    <3>2. CASE ~(stored.token # None /\ stored.user # None)
      BY <3>2 DEF Restore, TypeOK
    <3> QED
      BY <3>1, <3>2
  <2> QED
    BY <2>1 DEF Restore, TypeOK
<1>2. TabsAgree'
  <2>1. CASE stored.token # None /\ stored.user # None
    BY <2>1 DEF Restore, TabsAgree, TypeOK, IsAuthenticated, SetCredentials, StorageAgrees
  <2>2. CASE ~(stored.token # None /\ stored.user # None)
    BY <2>2 DEF Restore, TabsAgree, IsAuthenticated
  <2> QED
    BY <2>1, <2>2
<1> QED
  BY <1>1, <1>2 DEF Restore, TokensIssued, Issued, StorageAgrees, EndedStaysEnded

LEMMA LoginSucceedsKeeps ==
  ASSUME IInv, NEW i \in Tab, NEW t, t = <<login[i].user, logins + 1>>, LoginSucceeds(i)
  PROVE  IInv'
<1> USE DEF IInv
<1> DEFINE session == [token |-> t, user |-> None]
<1>1. /\ t \in Token /\ Owner(t) \in User /\ t # None
      /\ logins' = logins + 1 /\ logins' \in 0..MaxLogins
  BY TokenParts, ConstantsFit DEF LoginSucceeds, TokensIssued, TypeOK, Token, Owner
<1>2. \A s \in ended \cup alive : s # t
  BY DEF TokensIssued, Issued, TypeOK
<1>3. session \in Session /\ session.token = t /\ session.user = None
  BY <1>1 DEF Session
<1>4. PICK shown \in BOOLEAN : shown = IsAuthenticated(i)
  BY DEF IsAuthenticated
<1>write. Store(i, session, shown, FALSE)
  BY <1>4 DEF LoginSucceeds
<1> HIDE DEF session
<1>fresh. session.token \notin ended /\ FALSE \in BOOLEAN
  BY <1>2, <1>3
<1>k. /\ stored' = session /\ mixed' = FALSE
      /\ ended' \in SUBSET Token /\ crossed' \in [Tab -> BOOLEAN]
      /\ crossed'[i] = shown
      /\ \A s \in ended' : s \in ended \/ (s = stored.token /\ s # None)
      /\ session.token \notin ended'
      /\ \A j \in Tab \ {i} : (IsAuthenticated(j) /\ ~crossed'[j]) =>
           ~crossed[j] /\ session.token = stored.token
  <2> PICK late \in BOOLEAN : late = FALSE
    OBVIOUS
  <2>1. Store(i, session, shown, late)
    BY <1>write
  <2> HIDE DEF IInv
  <2> QED
    BY <1>3, <1>fresh, <2>1, StoreKeeps
<1>5. /\ stored' = session /\ mixed' = FALSE
      /\ ended' \in SUBSET Token /\ crossed' \in [Tab -> BOOLEAN]
      /\ crossed'[i] = shown
      /\ \A s \in ended' : s \in ended \/ (s = stored.token /\ s # None)
      /\ t \notin ended'
      /\ \A j \in Tab \ {i} : (IsAuthenticated(j) /\ ~crossed'[j]) =>
           ~crossed[j] /\ t = stored.token
  BY <1>3, <1>k
<1>6. /\ login' = [login EXCEPT ![i] = [stage |-> "me", user |-> Owner(t), token |-> t]]
      /\ alive' = alive \cup {t} /\ UNCHANGED <<auth, loading, leaving, calls>>
  BY DEF LoginSucceeds
<1>7. TypeOK'
  <2>1. login' \in [Tab -> [stage : {"none", "login", "me"}, user : User \cup {None},
                           token : Token \cup {None}]]
    BY <1>1, <1>6 DEF TypeOK
  <2> QED
    BY <1>1, <1>3, <1>5, <1>6, <2>1 DEF TypeOK
<1>8. TokensIssued'
  <2>1. Issued(t)'
    BY <1>1 DEF Issued, TypeOK
  <2>2. \A s \in ended \cup alive : Issued(s)'
    BY <1>1, IssuedStays DEF TokensIssued, TypeOK
  <2>3. \A s \in ended' : Issued(s)'
    <3> SUFFICES ASSUME NEW s \in ended' PROVE Issued(s)'
      OBVIOUS
    <3>1. Issued(s)
      BY <1>5 DEF TokensIssued
    <3> QED
      BY <1>1, <3>1, IssuedStays DEF TypeOK
  <2>4. \A j \in Tab : login'[j].stage = "login" => login'[j].user \in User
    BY <1>6 DEF TokensIssued, TypeOK
  <2> QED
    BY <1>3, <1>5, <1>6, <2>1, <2>2, <2>3, <2>4 DEF TokensIssued
<1>9. TabsAgree'
  BY <1>2, <1>3, <1>4, <1>5, <1>6 DEF TabsAgree, IsAuthenticated
<1> QED
  BY <1>3, <1>5, <1>7, <1>8, <1>9 DEF StorageAgrees, EndedStaysEnded

\* A handler that keeps the token of the storage, writes a user beside it and shows user
\* and token in its tab: the rest of login, and the profile dialog.
LEMMA WriteUserKeeps ==
  ASSUME IInv, NEW i \in Tab, NEW u \in User \cup {None}, NEW t \in Token \cup {None},
         NEW late \in BOOLEAN,
         Store(i, [stored EXCEPT !.user = u], late, late), SetCredentials(i, t, u),
         ~late => stored.token = t /\ (t # None => u = Owner(t)),
         {loading', leaving'} \subseteq [Tab -> BOOLEAN],
         login' = login \/ login' = [login EXCEPT ![i] = NoLogin],
         calls' \subseteq calls, UNCHANGED <<alive, logins>>
  PROVE  IInv'
<1> USE DEF IInv
<1> DEFINE session == [stored EXCEPT !.user = u]
<1>1. session \in Session /\ session.token = stored.token /\ session.user = u
  BY DEF Session, TypeOK
<1>2. Store(i, session, late, late)
  OBVIOUS
<1> HIDE DEF session
<1>3. /\ stored' = session /\ mixed' = late
      /\ ended' \in SUBSET Token /\ crossed' \in [Tab -> BOOLEAN]
      /\ crossed'[i] = late
      /\ \A s \in ended' : s \in ended \/ (s = stored.token /\ s # None)
      /\ session.token \notin ended'
      /\ \A j \in Tab \ {i} : (IsAuthenticated(j) /\ ~crossed'[j]) => ~crossed[j]
  BY <1>1, <1>2, StoreKeeps
<1>4. auth' = [auth EXCEPT ![i] = [token |-> t, user |-> u]]
  BY DEF SetCredentials
<1>5. TypeOK'
  <2>1. login' \in [Tab -> [stage : {"none", "login", "me"}, user : User \cup {None},
                           token : Token \cup {None}]]
    BY NoLoginFits DEF TypeOK
  <2>2. auth' \in [Tab -> Session]
    BY <1>4 DEF TypeOK, Session
  <2> QED
    BY <1>1, <1>3, <2>1, <2>2 DEF TypeOK
<1>6. TokensIssued'
  <2>1. \A j \in Tab : login'[j].stage = "login" => login'[j].user \in User
    <3>1. CASE login' = login
      BY <3>1 DEF TokensIssued
    <3>2. CASE login' = [login EXCEPT ![i] = NoLogin]
      BY <3>2, NoLoginFits DEF TokensIssued, TypeOK
    <3> QED
      BY <3>1, <3>2
  <2>2. \A s \in ended' \cup alive' : Issued(s)'
    BY <1>3 DEF TokensIssued, Issued
  <2> QED
    BY <1>1, <1>3, <2>1, <2>2 DEF TokensIssued, Issued
<1>7. TabsAgree'
  BY <1>1, <1>3, <1>4 DEF TabsAgree, IsAuthenticated, TypeOK
<1> QED
  BY <1>1, <1>3, <1>5, <1>6, <1>7 DEF StorageAgrees, EndedStaysEnded

-----------------------------------------------------------------------------
\* Every step preserves the invariant.
THEOREM SessionContinues == IInv /\ [Next]_vars => IInv'
<1> SUFFICES ASSUME IInv, [Next]_vars PROVE IInv'
  OBVIOUS
<1> USE DEF IInv
<1>users. login' = login =>
        \A j \in Tab : login'[j].stage = "login" => login'[j].user \in User
  BY DEF TokensIssued
<1>1. ASSUME NEW i \in Tab, LoadLogin(i) \/ Reload(i) PROVE IInv'
  BY <1>1, LoadKeeps DEF LoadLogin, Reload
<1>2. ASSUME NEW i \in Tab, Restore(i) PROVE IInv'
  BY <1>2, RestoreKeeps
<1>3. ASSUME NEW i \in Tab, LoginSucceeds(i) PROVE IInv'
  <2> PICK t : t = <<login[i].user, logins + 1>>
    OBVIOUS
  <2> QED
    BY <1>3, LoginSucceedsKeeps
<1>4. ASSUME NEW i \in Tab, MeSucceeds(i) PROVE IInv'
  <2> DEFINE t == login[i].token
             late == stored.token # t
  <2>1. t \in Token /\ Owner(t) \in User
    BY <1>4, TokenParts DEF MeSucceeds, TypeOK
  <2>2. /\ Store(i, [stored EXCEPT !.user = Owner(t)], late, late)
        /\ SetCredentials(i, t, Owner(t)) /\ late \in BOOLEAN
        /\ login' = [login EXCEPT ![i] = NoLogin]
        /\ loading' = [loading EXCEPT ![i] = FALSE] /\ UNCHANGED <<leaving, calls, alive, logins>>
    BY <1>4 DEF MeSucceeds
  <2>3. ~late => stored.token = t
    OBVIOUS
  <2>4. {loading', leaving'} \subseteq [Tab -> BOOLEAN]
    BY <2>2 DEF TypeOK
  <2> HIDE DEF t, late
  <2> QED
    BY <2>1, <2>2, <2>3, <2>4, WriteUserKeeps
<1>5. ASSUME NEW i \in Tab, LoginFails(i) PROVE IInv'
  <2>1. login' = [login EXCEPT ![i] = NoLogin] /\ loading' = [loading EXCEPT ![i] = FALSE]
    BY <1>5 DEF LoginFails
  <2>2. /\ login' \in [Tab -> [stage : {"none", "login", "me"}, user : User \cup {None},
                              token : Token \cup {None}]]
        /\ \A j \in Tab : login'[j].stage = "login" => login'[j].user \in User
    BY <2>1, NoLoginFits DEF TypeOK, TokensIssued
  <2>3. loading' \in [Tab -> BOOLEAN]
    BY <2>1 DEF TypeOK
  <2> QED
    BY <1>5, <2>2, <2>3, QuietKeeps DEF LoginFails, TypeOK
<1>6. ASSUME NEW i \in Tab, Query(i) \/ SaveProfile(i) PROVE IInv'
  <2>1. UNCHANGED <<stored, auth, loading, leaving, login, alive, logins, ended, crossed, mixed>>
    BY <1>6 DEF Query, SaveProfile, tabs
  <2>2. calls' \in SUBSET [tab : Tab, kind : {"query", "profile", "logout"},
                          as : Token \cup {None}, user : User \cup {None}]
    BY <1>6 DEF Query, SaveProfile, Send, TypeOK, Session
  <2> QED
    BY <1>users, <2>1, <2>2, QuietKeeps DEF TypeOK
<1>7. ASSUME NEW i \in Tab, Logout(i) PROVE IInv'
  <2>1. calls' \in SUBSET [tab : Tab, kind : {"query", "profile", "logout"},
                          as : Token \cup {None}, user : User \cup {None}]
    BY <1>7 DEF Logout, Send, TypeOK
  <2> QED
    BY <1>7, <2>1, ClearKeeps DEF Logout, TypeOK
<1>8. ASSUME NEW i \in Tab, NEW u \in User, SubmitLogin(i, u) PROVE IInv'
  <2>1. /\ loading' = [loading EXCEPT ![i] = TRUE]
        /\ login' = [login EXCEPT ![i] = [stage |-> "login", user |-> u, token |-> None]]
    BY <1>8 DEF SubmitLogin
  <2>2. /\ login' \in [Tab -> [stage : {"none", "login", "me"}, user : User \cup {None},
                              token : Token \cup {None}]]
        /\ \A j \in Tab : login'[j].stage = "login" => login'[j].user \in User
    BY <2>1 DEF TypeOK, TokensIssued
  <2>3. loading' \in [Tab -> BOOLEAN]
    BY <2>1 DEF TypeOK
  <2> QED
    BY <1>8, <2>2, <2>3, QuietKeeps DEF SubmitLogin, TypeOK
<1>9. ASSUME NEW c \in calls, Refused(c) PROVE IInv'
  <2>1. c.tab \in Tab
    BY DEF TypeOK
  <2>2. leaving' \in [Tab -> BOOLEAN]
    BY <1>9, <2>1 DEF Refused, Unauthorized, TypeOK
  <2> QED
    BY <1>9, <2>1, <2>2, ClearKeeps DEF Refused, Unauthorized, TypeOK
<1>10. ASSUME NEW c \in calls, Failed(c) \/ QueryAnswered(c) PROVE IInv'
  <2>1. UNCHANGED <<stored, auth, loading, leaving, login, alive, logins, ended, crossed, mixed>>
    BY <1>10 DEF Failed, QueryAnswered, tabs
  <2>2. calls' \subseteq calls
    BY <1>10 DEF Failed, QueryAnswered
  <2> QED
    BY <1>users, <2>1, <2>2, QuietKeeps DEF TypeOK
<1>11. ASSUME NEW c \in calls, ProfileSaved(c) PROVE IInv'
  <2> DEFINE late == stored.token # c.as \/ Owner(c.as) # c.user
             i == c.tab
             t == stored.token
  <2>1. i \in Tab /\ c.user \in User \cup {None} /\ t \in Token \cup {None}
    BY DEF TypeOK, Session
  <2>2. /\ Store(i, [stored EXCEPT !.user = c.user], late, late) /\ late \in BOOLEAN
        /\ SetCredentials(i, t, c.user)
        /\ calls' \subseteq calls /\ UNCHANGED <<loading, leaving, login, alive, logins>>
    BY <1>11 DEF ProfileSaved
  <2>3. ~late => stored.token = t /\ c.user = Owner(t)
    OBVIOUS
  <2>4. {loading', leaving'} \subseteq [Tab -> BOOLEAN]
    BY <2>2 DEF TypeOK
  <2> HIDE DEF late, i, t
  <2> QED
    BY <2>1, <2>2, <2>3, <2>4, WriteUserKeeps
<1>12. ASSUME NEW t \in alive, Expire(t) PROVE IInv'
  BY <1>12, <1>users, QuietKeeps DEF Expire, TypeOK, tabs
<1>13. CASE UNCHANGED vars
  BY <1>13, <1>users, QuietKeeps DEF vars, tabs, TypeOK
<1> QED
  BY <1>1, <1>2, <1>3, <1>4, <1>5, <1>6, <1>7, <1>8, <1>9, <1>10, <1>11, <1>12, <1>13
     DEF Next, LoginStep, Answered

THEOREM SessionInvariant == Spec => []IInv
BY SessionStarts, SessionContinues, PTL DEF Spec

\* The variables of the session keep their types.
THEOREM SessionTyped == Spec => []TypeOK
BY SessionInvariant, PTL DEF IInv

\* A tab shows the owner of the token it sends, unless another tab or a late answer
\* intervened (AuthContext, EditProfileDialog).
THEOREM ShownIsSent == Spec => []IdentityAgrees
<1>1. IInv => IdentityAgrees
  BY DEF IInv, TabsAgree, IdentityAgrees, AppShown
<1> QED
  BY <1>1, SessionInvariant, PTL

\* No answer brings back a token that left localStorage.
THEOREM NoSessionReturns == Spec => []EndedStaysEnded
BY SessionInvariant, PTL DEF IInv

\* A late refusal is the only thing besides a logout that removes an accepted session.
THEOREM WipesAreStale == Spec => OnlyStaleAnswersWipe
<1> DEFINE Wiped == stored.token \in alive /\ stored'.token = None
           Cause == \/ \E i \in Tab : Logout(i)
                    \/ \E c \in calls \ calls' : c.as # stored.token
<1>1. ASSUME IInv, [Next]_vars PROVE [Wiped => Cause]_vars
  <2> SUFFICES ASSUME stored.token \in alive, stored'.token = None PROVE Cause
    OBVIOUS
  <2>0. stored.token # None
    BY <1>1, TokenParts DEF IInv, TypeOK
  <2>1. ASSUME NEW i \in Tab, LoginSucceeds(i) PROVE FALSE
    <3>1. stored'.token \in Token
      BY <1>1, <2>1, ConstantsFit
         DEF LoginSucceeds, Store, IInv, TypeOK, TokensIssued, Token
    <3> QED
      BY <3>1, TokenParts
  <2>2. ASSUME NEW i \in Tab, MeSucceeds(i) PROVE FALSE
    BY <1>1, <2>0, <2>2 DEF MeSucceeds, Store, IInv, TypeOK, Session
  <2>3. ASSUME NEW c \in calls, ProfileSaved(c) PROVE FALSE
    BY <1>1, <2>0, <2>3 DEF ProfileSaved, Store, IInv, TypeOK, Session
  <2>4. ASSUME NEW c \in calls, Refused(c) PROVE Cause
    BY <2>4 DEF Refused
  <2>5. ASSUME stored' = stored PROVE FALSE
    BY <2>0, <2>5
  <2> QED
    BY <1>1, <2>1, <2>2, <2>3, <2>4, <2>5
       DEF Next, LoginStep, Answered, LoadLogin, Reload, Load, Restore, LoginFails, Query,
           SaveProfile, SubmitLogin, Failed, QueryAnswered, Expire, vars
<1>2. [][Wiped => Cause]_vars => OnlyStaleAnswersWipe
  BY DEF OnlyStaleAnswersWipe
<1> QED
  BY <1>1, <1>2, SessionInvariant, PTL DEF Spec
=============================================================================
