----------------------------- MODULE WebSession -----------------------------
(* Who is logged in, in the tabs of one browser: the copy of the session that
   localStorage keeps for all of them, the copy each tab keeps in its Redux store
   (authSlice), the loading flag of AuthContext, and the requests under way.

   A request carries the token that localStorage holds when it is sent. A handler
   runs when its answer comes, whatever happened to the session meanwhile. *)
EXTENDS Naturals, FiniteSets

CONSTANTS Tab, User,
          MaxLogins, \* bound: successful logins
          MaxCalls,  \* bound: requests under way besides logins
          None

ASSUME ConstantsFit ==
  /\ MaxLogins \in Nat /\ MaxCalls \in Nat
  /\ None \notin User \cup (User \X (1..MaxLogins))

VARIABLES stored,  \* localStorage: access_token and user
          auth,    \* per tab, the Redux store: accessToken and user
          loading, \* per tab: isLoading of AuthContext
          leaving, \* per tab: window.location.href was assigned, the page is still there
          login,   \* per tab: the login under way
          calls,   \* requests of the tabs under way
          alive,   \* tokens the server accepts
          logins,  \* tokens issued so far
          ended,   \* history: tokens removed from localStorage
          crossed, \* history, per tab: what it shows and what it sends may differ
          mixed    \* history: a late answer wrote its user over another session

tabs == <<auth, loading, leaving, login>>
vars == <<stored, tabs, calls, alive, logins, ended, crossed, mixed>>

\* A token is named after its user and the login that issued it.
Token == User \X (1..MaxLogins)
Owner(t) == t[1]

Nobody == [token |-> None, user |-> None]
NoLogin == [stage |-> "none", user |-> None, token |-> None]

\* isAuthenticated of AuthContext.
IsAuthenticated(i) == auth[i].token # None

-----------------------------------------------------------------------------
(* Writes of localStorage *)

\* storage, written by tab i. Other tabs are not told: what they show may now differ from
\* what their requests carry. "differs" says so of tab i itself, "late" of the storage.
Store(i, session, differs, late) ==
  /\ stored' = session
  /\ ended' = IF stored.token \in {None, session.token} THEN ended ELSE ended \cup {stored.token}
  /\ crossed' = [j \in Tab |->
       IF j = i THEN differs
       ELSE IsAuthenticated(j) /\ (crossed[j] \/ session.token # stored.token)]
  /\ mixed' = late

\* storage.clearAll, also by authMiddleware on every logout action.
ClearAll(i) == Store(i, Nobody, FALSE, FALSE)

\* authSlice.logout
Forget(i) == auth' = [auth EXCEPT ![i] = Nobody]

\* authSlice.setCredentials
SetCredentials(i, token, user) == auth' = [auth EXCEPT ![i] = [token |-> token, user |-> user]]

\* fetchBaseQueryWithAuth on a 401: forget the session and load the login page.
Unauthorized(i) ==
  /\ ClearAll(i) /\ Forget(i)
  /\ leaving' = [leaving EXCEPT ![i] = TRUE]

-----------------------------------------------------------------------------
(* Pages *)

\* ProtectedRoute shows the application, and sends who is not authenticated to the login page.
AppShown(i) == ~loading[i] /\ IsAuthenticated(i)
\* LoginPage shows its form; an effect leads who is authenticated back to the application.
FormShown(i) == ~loading[i] /\ ~IsAuthenticated(i)

\* The page is loaded: at once a fresh Redux store, later the effect of AuthProvider.
Load(i) ==
  /\ auth' = [auth EXCEPT ![i] = Nobody]
  /\ loading' = [loading EXCEPT ![i] = TRUE] /\ login' = [login EXCEPT ![i] = NoLogin]
  /\ leaving' = [leaving EXCEPT ![i] = FALSE]
  /\ calls' = {c \in calls : c.tab # i} /\ crossed' = [crossed EXCEPT ![i] = FALSE]
  /\ UNCHANGED <<stored, alive, logins, ended, mixed>>

\* The assignment of window.location.href takes effect; or the user reloads the page.
LoadLogin(i) == leaving[i] /\ Load(i)
Reload(i) == ~leaving[i] /\ Load(i)

\* The effect of AuthProvider restores the session localStorage holds.
Restore(i) ==
  /\ loading[i] /\ login[i] = NoLogin
  /\ loading' = [loading EXCEPT ![i] = FALSE]
  /\ IF stored.token # None /\ stored.user # None
     THEN SetCredentials(i, stored.token, stored.user) /\ crossed' = [crossed EXCEPT ![i] = mixed]
     ELSE UNCHANGED <<auth, crossed>>
  /\ UNCHANGED <<stored, leaving, login, calls, alive, logins, ended, mixed>>

-----------------------------------------------------------------------------
(* Login *)

\* LoginPage.onSubmit, AuthContext.login up to the first await.
SubmitLogin(i, u) ==
  /\ FormShown(i)
  /\ loading' = [loading EXCEPT ![i] = TRUE]
  /\ login' = [login EXCEPT ![i] = [stage |-> "login", user |-> u, token |-> None]]
  /\ UNCHANGED <<stored, auth, leaving, calls, alive, logins, ended, crossed, mixed>>

\* Variant of LoginSucceeds: localStorage is not cleared before the new tokens are set.
LoginSucceeds_Keeps(i) ==
  LET t == <<login[i].user, logins + 1>>
  IN /\ login[i].stage = "login" /\ logins < MaxLogins /\ logins' = logins + 1
     /\ alive' = alive \cup {t}
     /\ Store(i, [stored EXCEPT !.token = t], IsAuthenticated(i), FALSE)
     /\ login' = [login EXCEPT ![i] = [stage |-> "me", user |-> Owner(t), token |-> t]]
     /\ UNCHANGED <<auth, loading, leaving, calls>>

\* login up to the second await: new tokens, no user yet. /users/me carries the new token.
LoginSucceeds(i) ==
  LET t == <<login[i].user, logins + 1>>
  IN /\ login[i].stage = "login" /\ logins < MaxLogins /\ logins' = logins + 1
     /\ alive' = alive \cup {t}
     /\ Store(i, [token |-> t, user |-> None], IsAuthenticated(i), FALSE)
     /\ login' = [login EXCEPT ![i] = [stage |-> "me", user |-> Owner(t), token |-> t]]
     /\ UNCHANGED <<auth, loading, leaving, calls>>

\* The rest of login.
MeSucceeds(i) ==
  LET t == login[i].token
      late == stored.token # t
  IN /\ login[i].stage = "me" /\ t \in alive
     /\ Store(i, [stored EXCEPT !.user = Owner(t)], late, late)
     /\ SetCredentials(i, t, Owner(t))
     /\ loading' = [loading EXCEPT ![i] = FALSE] /\ login' = [login EXCEPT ![i] = NoLogin]
     /\ UNCHANGED <<leaving, calls, alive, logins>>

\* Variant of LoginFails: a failed login is handled like any other 401.
LoginFails_Redirects(i) ==
  /\ login[i].stage \in {"login", "me"} /\ Unauthorized(i)
  /\ loading' = [loading EXCEPT ![i] = FALSE] /\ login' = [login EXCEPT ![i] = NoLogin]
  /\ UNCHANGED <<calls, alive, logins>>

\* Variant of LoginFails: no SET_NOT_AUTHENTICATED.
LoginFails_Spins(i) ==
  /\ login[i].stage \in {"login", "me"}
  /\ login' = [login EXCEPT ![i].stage = "none"]
  /\ UNCHANGED <<stored, auth, loading, leaving, calls, alive, logins, ended, crossed, mixed>>

\* The catch block of login: wrong credentials, an error, or /users/me refused by axios,
\* which leaves the tokens without a user. A failed login is no 401 of a session.
LoginFails(i) ==
  /\ login[i].stage \in {"login", "me"}
  /\ loading' = [loading EXCEPT ![i] = FALSE] /\ login' = [login EXCEPT ![i] = NoLogin]
  /\ UNCHANGED <<stored, auth, leaving, calls, alive, logins, ended, crossed, mixed>>

-----------------------------------------------------------------------------
(* Requests of the application *)

\* fetchBaseQuery, prepareHeaders: the token is the one localStorage holds.
Send(i, kind, as, user) ==
  /\ Cardinality(calls) < MaxCalls
  /\ calls' = calls \cup {[tab |-> i, kind |-> kind, as |-> as, user |-> user]}

\* A page runs a query.
Query(i) ==
  /\ AppShown(i) /\ Send(i, "query", stored.token, None)
  /\ UNCHANGED <<stored, tabs, alive, logins, ended, crossed, mixed>>

\* EditProfileDialog.onSubmit up to the await.
SaveProfile(i) ==
  /\ AppShown(i) /\ auth[i].user # None /\ Send(i, "profile", stored.token, auth[i].user)
  /\ UNCHANGED <<stored, tabs, alive, logins, ended, crossed, mixed>>

\* Header.handleLogout, AuthContext.logout, authApi.logout: onQueryStarted clears
\* everything before the request reads its token.
Logout(i) ==
  /\ AppShown(i) /\ ClearAll(i) /\ Forget(i) /\ Send(i, "logout", None, None)
  /\ UNCHANGED <<loading, leaving, login, alive, logins>>

\* get_current_user refuses the request.
Refused(c) ==
  /\ c.as \notin alive /\ calls' = calls \ {c} /\ Unauthorized(c.tab)
  /\ UNCHANGED <<loading, login, alive, logins>>

\* The request fails for another reason, of which the session is not told.
Failed(c) ==
  /\ calls' = calls \ {c}
  /\ UNCHANGED <<stored, tabs, alive, logins, ended, crossed, mixed>>

QueryAnswered(c) ==
  /\ c.kind = "query" /\ c.as \in alive /\ calls' = calls \ {c}
  /\ UNCHANGED <<stored, tabs, alive, logins, ended, crossed, mixed>>

\* Variant of ProfileSaved: the tokens the request carried are stored again.
ProfileSaved_Restores(c) ==
  /\ c.kind = "profile" /\ c.as \in alive
  /\ calls' = calls \ {c}
  /\ Store(c.tab, [token |-> c.as, user |-> c.user], FALSE, FALSE)
  /\ SetCredentials(c.tab, c.as, c.user)
  /\ UNCHANGED <<loading, leaving, login, alive, logins>>

\* EditProfileDialog.onSubmit after the await: the answered user, and the tokens that
\* localStorage holds by now. A tab that shows one user and sends the token of another is
\* answered when that other may change users.
ProfileSaved(c) ==
  LET late == stored.token # c.as \/ Owner(c.as) # c.user
  IN /\ c.kind = "profile" /\ c.as \in alive
     /\ calls' = calls \ {c}
     /\ Store(c.tab, [stored EXCEPT !.user = c.user], late, late)
     /\ SetCredentials(c.tab, stored.token, c.user)
     /\ UNCHANGED <<loading, leaving, login, alive, logins>>

Answered(c) == Refused(c) \/ Failed(c) \/ QueryAnswered(c) \/ ProfileSaved(c)

\* A token expires or is revoked elsewhere; of one that is not in use nobody can tell.
Expire(t) ==
  /\ t = stored.token \/ \E c \in calls : c.as = t
  /\ alive' = alive \ {t}
  /\ UNCHANGED <<stored, tabs, calls, logins, ended, crossed, mixed>>

-----------------------------------------------------------------------------
Init ==
  /\ stored = Nobody /\ auth = [i \in Tab |-> Nobody]
  /\ loading = [i \in Tab |-> TRUE]
  /\ leaving = [i \in Tab |-> FALSE] /\ login = [i \in Tab |-> NoLogin]
  /\ calls = {} /\ alive = {} /\ logins = 0
  /\ ended = {} /\ crossed = [i \in Tab |-> FALSE] /\ mixed = FALSE

LoginStep(i) == LoginSucceeds(i) \/ MeSucceeds(i) \/ LoginFails(i)

Next ==
  \/ \E i \in Tab :
       \/ LoadLogin(i) \/ Reload(i) \/ Restore(i) \/ LoginStep(i)
       \/ Query(i) \/ SaveProfile(i) \/ Logout(i)
       \/ \E u \in User : SubmitLogin(i, u)
  \/ \E c \in calls : Answered(c)
  \/ \E t \in alive : Expire(t)

\* Requests are answered or fail, effects and navigations take place.
Fairness ==
  /\ \A i \in Tab : /\ WF_vars(LoadLogin(i))
                    /\ WF_vars(Restore(i)) /\ WF_vars(LoginStep(i))
  /\ WF_vars(\E c \in calls : Answered(c))

Spec == Init /\ [][Next]_vars /\ Fairness

-----------------------------------------------------------------------------
(* Properties *)

Session == [token : Token \cup {None}, user : User \cup {None}]

\* The variables keep their types.
TypeOK ==
  /\ stored \in Session /\ auth \in [Tab -> Session]
  /\ {loading, leaving, crossed} \subseteq [Tab -> BOOLEAN] /\ mixed \in BOOLEAN
  /\ login \in [Tab -> [stage : {"none", "login", "me"}, user : User \cup {None},
                        token : Token \cup {None}]]
  /\ calls \in SUBSET [tab : Tab, kind : {"query", "profile", "logout"},
                       as : Token \cup {None}, user : User \cup {None}]
  /\ alive \in SUBSET Token /\ ended \in SUBSET Token /\ logins \in 0..MaxLogins

\* The user a tab shows is the owner of the token its requests carry, but for two causes
\* "crossed" records: another tab changed localStorage since this tab read it (nothing
\* listens to that), or the answer of a login or of a profile change found that another
\* session had begun, and was written over it all the same.
IdentityAgrees ==
  \A i \in Tab :
    (AppShown(i) /\ ~crossed[i]) =>
      auth[i].token = stored.token /\ auth[i].user = Owner(stored.token)

\* A token that a logout, a refusal or a new login took out of localStorage never returns
\* there: no late answer of a login or of a profile change brings a session back.
EndedStaysEnded == stored.token \notin ended

\* A session the server still accepts disappears from localStorage only because the user
\* logs out in some tab, or because a refused request carried another token or none: a late
\* answer of an earlier session, which fetchBaseQueryWithAuth cannot tell from its own. A
\* login that fails in one tab never ends the session of another.
OnlyStaleAnswersWipe ==
  [][(stored.token \in alive /\ stored'.token = None) =>
       \/ \E i \in Tab : Logout(i)
       \/ \E c \in calls \ calls' : c.as # stored.token]_vars

Unsettled(i) == loading[i] \/ leaving[i]

\* No tab stays behind a spinner, or waits for the login page for ever: every
\* login, failed or not, and every restored or refused session comes to rest.
TabsSettle == \A i \in Tab : Unsettled(i) ~> ~Unsettled(i)
=============================================================================
