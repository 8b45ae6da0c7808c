------------------------------- MODULE Tokens -------------------------------
(***************************************************************************)
(* The life of access and refresh tokens: login, refresh, logout and the   *)
(* check every authenticated request makes, as transactions of concurrent  *)
(* requests over the users and token_blocklist tables.                     *)
(*                                                                         *)
(* A login or a refresh issues a pair of tokens, one of each kind; a token *)
(* is <<pair, kind>> and stands for its jti.  A request advances from one  *)
(* await to the next: its stage names the database call it is waiting for. *)
(* Rows other transactions have not committed are invisible (READ          *)
(* COMMITTED), except that an INSERT waits for a transaction that has      *)
(* inserted the same key.  Each request runs once.                         *)
(***************************************************************************)
EXTENDS Naturals, FiniteSets

CONSTANTS
  User, Pair, Request,
  AccessLife, RefreshLife,    \* access_token_expire_minutes, refresh_token_expire_days
  MaxTime,                    \* bound of the clock
  None

ASSUME LifeAssumption == AccessLife \in Nat /\ RefreshLife \in Nat /\ MaxTime \in Nat
ASSUME NoneAssumption == None \notin User \cup Pair \cup (Pair \X {"access", "refresh"})

VARIABLES
  now,         \* the clock
  account,     \* the users row of each user: "active", "inactive" or "absent"
  owner,       \* sub of the pair, None when it was not issued
  issuedAt,    \* when the pair was issued; exp is derived from it
  parent,      \* history: the pair whose refresh token was exchanged for it
  root,        \* history: the pair of the login it descends from
  blocklist,   \* token_blocklist, as committed
  loggedOut,   \* history: the tokens with which a logout was answered 200
  op,          \* what each request asks for
  stage,       \* where it is
  token,       \* its bearer token
  late         \* history: it began after a logout with that token was answered

tokens == <<owner, issuedAt, parent, root>>
requests == <<op, stage, token, late>>
vars == <<now, account, tokens, blocklist, loggedOut, requests>>

Kind == {"access", "refresh"}
Token == Pair \X Kind

RefreshStages == {"insert", "check", "commit"}
AccessStages == {"lookup", "user", "revoke"}
InFlight == RefreshStages \cup AccessStages
Answers == {"done", "refused", "lost"}

TypeOK ==
  /\ now \in 0 .. MaxTime
  /\ account \in [User -> {"active", "inactive", "absent"}]
  /\ owner \in [Pair -> User \cup {None}]
  /\ issuedAt \in [Pair -> 0 .. MaxTime]
  /\ parent \in [Pair -> Pair \cup {None}]
  /\ root \in [Pair -> Pair \cup {None}]
  /\ blocklist \subseteq Token
  /\ loggedOut \subseteq Token
  /\ op \in [Request -> {"refresh", "call", "logout"}]
  /\ stage \in [Request -> {"new"} \cup InFlight \cup Answers]
  /\ token \in [Request -> Token \cup {None}]
  /\ late \in [Request -> BOOLEAN]

Init ==
  /\ now = 0
  /\ account = [u \in User |-> "active"]
  /\ owner = [p \in Pair |-> None]
  /\ issuedAt = [p \in Pair |-> 0]
  /\ parent = [p \in Pair |-> None]
  /\ root = [p \in Pair |-> None]
  /\ blocklist = {}
  /\ loggedOut = {}
  /\ op = [q \in Request |-> "call"]
  /\ stage = [q \in Request |-> "new"]
  /\ token = [q \in Request |-> None]
  /\ late = [q \in Request |-> FALSE]

-----------------------------------------------------------------------------
(* Tokens *)

Issued(p) == owner[p] # None

Life(k) == IF k = "access" THEN AccessLife ELSE RefreshLife

(* decode_token: the signature is good and exp has not passed. *)
Decodes(t) == Issued(t[1]) /\ now <= issuedAt[t[1]] + Life(t[2])

Active(p) == owner[p] \in User /\ account[owner[p]] = "active"

(* A pair never issued before: the jti are random. *)
Issue(p, u, from) ==
  /\ ~Issued(p)
  /\ owner' = [owner EXCEPT ![p] = u]
  /\ issuedAt' = [issuedAt EXCEPT ![p] = now]
  /\ parent' = [parent EXCEPT ![p] = from]
  /\ root' = [root EXCEPT ![p] = IF from = None THEN p ELSE root[from]]

Advance(q, s) == stage' = [stage EXCEPT ![q] = s] /\ UNCHANGED <<op, token, late>>

Begin(q, o, t, s) ==
  /\ stage[q] = "new"
  /\ op' = [op EXCEPT ![q] = o]
  /\ token' = [token EXCEPT ![q] = t]
  /\ stage' = [stage EXCEPT ![q] = s]
  /\ late' = [late EXCEPT ![q] = t \in loggedOut]

-----------------------------------------------------------------------------
(* Login.  The bound leaves a pair for every request. *)

Login(u) ==
  /\ account[u] = "active"
  /\ Cardinality({p \in Pair : ~Issued(p)}) > Cardinality(Request)
  /\ \E p \in Pair : Issue(p, u, None)
  /\ UNCHANGED <<now, account, blocklist, loggedOut, requests>>

-----------------------------------------------------------------------------
(* Refresh: the token is decoded; the revocation row is added to the       *)
(* session and reaches the database with the SELECT of the user; the user  *)
(* is checked; the pair is made and the transaction commits.               *)

PresentRefresh(q, t) ==
  /\ Decodes(t)
  /\ t[2] = "refresh"
  /\ Begin(q, "refresh", t, "insert")
  /\ UNCHANGED <<now, account, tokens, blocklist, loggedOut>>

(* Another transaction has inserted the same jti and not ended. *)
Locked(t) == \E r \in Request : stage[r] \in {"check", "commit"} /\ token[r] = t

InsertRevocation_NoKey(q) ==
  /\ stage[q] = "insert"
  /\ Advance(q, "check")
  /\ UNCHANGED <<now, account, tokens, blocklist, loggedOut>>

(* A committed row with the jti makes the INSERT fail: the answer is 500. *)
InsertRevocation(q) ==
  /\ stage[q] = "insert"
  /\ ~Locked(token[q])
  /\ Advance(q, IF token[q] \in blocklist THEN "refused" ELSE "check")
  /\ UNCHANGED <<now, account, tokens, blocklist, loggedOut>>

CheckAccount_KeepsRow(q) ==
  /\ stage[q] = "check"
  /\ Advance(q, IF Active(token[q][1]) THEN "commit" ELSE "refused")
  /\ blocklist' = IF Active(token[q][1]) THEN blocklist ELSE blocklist \cup {token[q]}
  /\ UNCHANGED <<now, account, tokens, loggedOut>>

(* Raising 401 rolls the revocation back. *)
CheckAccount(q) ==
  /\ stage[q] = "check"
  /\ Advance(q, IF Active(token[q][1]) THEN "commit" ELSE "refused")
  /\ UNCHANGED <<now, account, tokens, blocklist, loggedOut>>

CommitRotation_KeepOld(q) ==
  /\ stage[q] = "commit"
  /\ \E p \in Pair : Issue(p, owner[token[q][1]], token[q][1])
  /\ Advance(q, "done")
  /\ UNCHANGED <<now, account, blocklist, loggedOut>>

CommitRotation(q) ==
  /\ stage[q] = "commit"
  /\ \E p \in Pair : Issue(p, owner[token[q][1]], token[q][1])
  /\ blocklist' = blocklist \cup {token[q]}
  /\ Advance(q, "done")
  /\ UNCHANGED <<now, account, loggedOut>>

-----------------------------------------------------------------------------
(* Authenticated requests: get_current_user, then the handler.  A logout   *)
(* goes on to revoke the bearer token; any other handler is a call.        *)

PresentAccess(q, o, t) ==
  /\ Decodes(t)
  /\ t[2] = "access"
  /\ Begin(q, o, t, "lookup")
  /\ UNCHANGED <<now, account, tokens, blocklist, loggedOut>>

LookupBlocklist(q) ==
  /\ stage[q] = "lookup"
  /\ Advance(q, IF token[q] \in blocklist THEN "refused" ELSE "user")
  /\ UNCHANGED <<now, account, tokens, blocklist, loggedOut>>

LoadUser(q) ==
  /\ stage[q] = "user"
  /\ Advance(q, IF ~Active(token[q][1]) THEN "refused"
                ELSE IF op[q] = "logout" THEN "revoke" ELSE "done")
  /\ UNCHANGED <<now, account, tokens, blocklist, loggedOut>>

RevokeToken_NoCommit(q) ==
  /\ stage[q] = "revoke"
  /\ Advance(q, "done")
  /\ loggedOut' = loggedOut \cup {token[q]}
  /\ UNCHANGED <<now, account, tokens, blocklist>>

(* logout decodes the token again: one that expired meanwhile is answered  *)
(* 200 without a row, and one that a concurrent logout revoked meanwhile   *)
(* violates the primary key and is answered 500.                           *)
RevokeToken(q) ==
  /\ stage[q] = "revoke"
  /\ IF Decodes(token[q]) /\ token[q] \in blocklist
     THEN Advance(q, "refused") /\ UNCHANGED <<blocklist, loggedOut>>
     ELSE /\ Advance(q, "done")
          /\ blocklist' = IF Decodes(token[q]) THEN blocklist \cup {token[q]} ELSE blocklist
          /\ loggedOut' = loggedOut \cup {token[q]}
  /\ UNCHANGED <<now, account, tokens>>

-----------------------------------------------------------------------------
(* The rest of the system *)

(* An administrator switches the account off or on, or deletes it; the     *)
(* tokens table and the tokens outside know nothing of it.                 *)
ChangeAccount(u, s) ==
  /\ account[u] # "absent"
  /\ account[u] # s
  /\ account' = [account EXCEPT ![u] = s]
  /\ UNCHANGED <<now, tokens, blocklist, loggedOut, requests>>

Tick ==
  /\ now < MaxTime
  /\ now' = now + 1
  /\ UNCHANGED <<account, tokens, blocklist, loggedOut, requests>>

(* The process dies: open transactions roll back, nobody gets an answer. *)
Crash ==
  /\ \E q \in Request : stage[q] \in InFlight
  /\ stage' = [q \in Request |-> IF stage[q] \in InFlight THEN "lost" ELSE stage[q]]
  /\ UNCHANGED <<now, account, tokens, blocklist, loggedOut, op, token, late>>

Step(q) ==
  \/ InsertRevocation(q) \/ CheckAccount(q) \/ CommitRotation(q)
  \/ LookupBlocklist(q) \/ LoadUser(q) \/ RevokeToken(q)

Next ==
  \/ \E u \in User : Login(u) \/ \E s \in {"active", "inactive", "absent"} : ChangeAccount(u, s)
  \/ \E q \in Request, t \in Token :
       PresentRefresh(q, t) \/ \E o \in {"call", "logout"} : PresentAccess(q, o, t)
  \/ \E q \in Request : Step(q)
  \/ Tick
  \/ Crash

Spec == Init /\ [][Next]_vars

-----------------------------------------------------------------------------
(* Safety *)

Revoked(p) == <<p, "refresh">> \in blocklist

(* A refresh token is exchanged at most once, however many requests carry  *)
(* it at the same time or again later.                                     *)
SingleUse ==
  \A p, q \in Pair : parent[p] = parent[q] /\ parent[p] # None => p = q

(* A refresh token is revoked exactly when a new pair replaced it: an      *)
(* exchange that is refused, fails or is lost leaves it good, and nothing  *)
(* but an exchange revokes it.  Logout does not either, against its        *)
(* docstring: it revokes the access token it is called with.               *)
RevokedIffReplaced ==
  \A p \in Pair : Revoked(p) <=> \E q \in Pair : parent[q] = p

GoodPairs(s) == {p \in Pair : root[p] = s /\ ~Revoked(p)}

(* A logout with an access token of login s was answered.                  *)
EndedByLogout(s) == \E t \in loggedOut : root[t[1]] = s

(* A login never forks: at most one of its refresh tokens is good, however *)
(* many requests exchange it at once.  Until its user logs out exactly one *)
(* is: no exchange that is refused, fails or is lost locks a login out.    *)
(* Of a login that was logged out only the first is claimed: logout is     *)
(* documented to end it, and in fact revokes no refresh token.             *)
OneGoodPerLogin ==
  \A s \in Pair : root[s] = s =>
    /\ \A p, q \in GoodPairs(s) : p = q
    /\ EndedByLogout(s) \/ GoodPairs(s) # {}

(* A request that begins after a logout with its token was answered is     *)
(* never let through.                                                      *)
LoggedOutRefused == \A q \in Request : late[q] => stage[q] \notin {"revoke", "done"}

(* The refresh token of session s that alone is not in the blocklist.      *)
GoodOf(s) ==
  IF \E p \in Pair : root[s] = s /\ GoodPairs(s) = {p}
  THEN CHOOSE p \in Pair : GoodPairs(s) = {p} ELSE None

Abstract == INSTANCE RotatingSession
              WITH good <- [s \in Pair |-> GoodOf(s)], spent <- {p \in Pair : Revoked(p)}

(* Rotation implements its specification: every step opens a session,      *)
(* replaces the good token of one session by a fresh one, or changes none. *)
(* A logout is a step that changes none: no session ends here.             *)
Rotates == Abstract!Spec
=============================================================================
