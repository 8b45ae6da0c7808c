---------------------------- MODULE AccessProofs ----------------------------
(***************************************************************************)
(* Proofs about what stands between a client and the endpoints: the tokens *)
(* that authenticate a request, and the rate limiter in front of it.       *)
(*                                                                         *)
(* The first part is about Tokens, for any users, pairs, requests, life    *)
(* times and clock.  IInv is its inductive invariant: what each stage of a *)
(* request knows of the blocklist, and how pairs descend from logins.      *)
(*                                                                         *)
(* The second part is about Gateway, for any clients, limit, window and    *)
(* clock.  LimiterInv is its inductive invariant: what the limiter still   *)
(* keeps are accepted requests, and every accepted request of the window   *)
(* that ends now is still kept, so that counting the kept ones counts the  *)
(* window.                                                                 *)
(***************************************************************************)
EXTENDS Tokens, Gateway, FiniteSetTheorems, TLAPS

(* A pair that was not issued left no trace; one that was belongs to an    *)
(* issued login, the one of the pair it replaced.                          *)
Lineage ==
  /\ \A p \in Pair : ~Issued(p) =>
       /\ parent[p] = None /\ root[p] = None
       /\ \A c \in Pair : parent[c] # p /\ root[c] # p
       /\ \A k \in Kind : <<p, k>> \notin blocklist
  /\ \A p \in Pair : Issued(p) =>
       root[p] \in Pair /\ Issued(root[p]) /\ root[root[p]] = root[p]
  /\ \A p \in Pair : parent[p] # None => root[p] = root[parent[p]]

(* What a request in flight carries.  The row of the refresh token under   *)
(* exchange is locked by one request, and not committed.                   *)
Carried ==
  /\ \A q \in Request : stage[q] \in RefreshStages =>
       token[q] \in Pair \X {"refresh"} /\ Issued(token[q][1])
  /\ \A q \in Request : stage[q] \in AccessStages =>
       token[q] \in Pair \X {"access"} /\ Issued(token[q][1])
  /\ \A q \in Request : stage[q] \in {"check", "commit"} => token[q] \notin blocklist
  /\ \A q, r \in Request :
       /\ stage[q] \in {"check", "commit"}
       /\ stage[r] \in {"check", "commit"}
       /\ token[q] = token[r]
       => q = r

(* A token that was logged out is in the blocklist or has expired, so a    *)
(* late request is in no stage past the lookup.                            *)
LoggedOut ==
  /\ loggedOut \subseteq Pair \X {"access"}
  /\ \A t \in loggedOut : Issued(t[1]) /\ (t \in blocklist \/ ~Decodes(t))
  /\ \A q \in Request : late[q] =>
       token[q] \in blocklist /\ stage[q] \in {"lookup", "refused", "lost"}

(* What holds of the code whether a login was logged out or not.           *)
ExactlyOneGood == \A s \in Pair : root[s] = s => \E p \in Pair : GoodPairs(s) = {p}

IInv ==
  /\ TypeOK
  /\ Lineage
  /\ Carried
  /\ LoggedOut
  /\ SingleUse
  /\ RevokedIffReplaced
  /\ ExactlyOneGood

-----------------------------------------------------------------------------
(* Type correctness *)

LEMMA IssueType ==
  ASSUME TypeOK, NEW p \in Pair, NEW u \in User, NEW from \in Pair \cup {None},
         Issue(p, u, from)
  PROVE  /\ owner' \in [Pair -> User \cup {None}]
         /\ issuedAt' \in [Pair -> 0 .. MaxTime]
         /\ parent' \in [Pair -> Pair \cup {None}]
         /\ root' \in [Pair -> Pair \cup {None}]
  BY DEF TypeOK, Issue

LEMMA AdvanceType ==
  ASSUME TypeOK, NEW q \in Request, NEW s \in InFlight \cup Answers, Advance(q, s)
  PROVE  /\ op' \in [Request -> {"refresh", "call", "logout"}]
         /\ stage' \in [Request -> {"new"} \cup InFlight \cup Answers]
         /\ token' \in [Request -> Token \cup {None}]
         /\ late' \in [Request -> BOOLEAN]
  BY DEF TypeOK, Advance

LEMMA BeginType ==
  ASSUME TypeOK, NEW q \in Request, NEW o \in {"refresh", "call", "logout"},
         NEW t \in Token, NEW s \in InFlight, Begin(q, o, t, s)
  PROVE  /\ op' \in [Request -> {"refresh", "call", "logout"}]
         /\ stage' \in [Request -> {"new"} \cup InFlight \cup Answers]
         /\ token' \in [Request -> Token \cup {None}]
         /\ late' \in [Request -> BOOLEAN]
  BY DEF TypeOK, Begin

LEMMA StepType ==
  ASSUME TypeOK, Carried, NEW q \in Request, Step(q)
  PROVE  TypeOK'
<1> USE DEF TypeOK
<1>a. {"insert", "check", "commit", "lookup", "user", "revoke"} \subseteq InFlight
      /\ {"done", "refused", "lost"} \subseteq Answers
  BY DEF InFlight, Answers, RefreshStages, AccessStages
<1>1. CASE InsertRevocation(q)
  BY <1>1, <1>a, AdvanceType DEF InsertRevocation, tokens
<1>2. CASE CheckAccount(q)
  BY <1>2, <1>a, AdvanceType DEF CheckAccount, tokens
<1>3. CASE CommitRotation(q)
  <2>1. token[q] \in Token /\ Issued(token[q][1]) /\ token[q][1] \in Pair
    BY <1>3 DEF CommitRotation, Carried, RefreshStages, Token, Kind
  <2>2. owner[token[q][1]] \in User
    BY <2>1 DEF Issued
  <2>3. PICK p \in Pair : Issue(p, owner[token[q][1]], token[q][1])
    BY <1>3 DEF CommitRotation
  <2>4. /\ owner' \in [Pair -> User \cup {None}]
        /\ issuedAt' \in [Pair -> 0 .. MaxTime]
        /\ parent' \in [Pair -> Pair \cup {None}]
        /\ root' \in [Pair -> Pair \cup {None}]
    BY <2>1, <2>2, <2>3, IssueType
  <2> QED
    BY <1>3, <1>a, <2>1, <2>4, AdvanceType DEF CommitRotation
<1>4. CASE LookupBlocklist(q)
  BY <1>4, <1>a, AdvanceType DEF LookupBlocklist, tokens
<1>5. CASE LoadUser(q)
  BY <1>5, <1>a, AdvanceType DEF LoadUser, tokens
<1>6. CASE RevokeToken(q)
  <2>1. token[q] \in Token
    BY <1>6 DEF RevokeToken, Carried, AccessStages, Token, Kind
  <2> QED
    BY <1>6, <1>a, <2>1, AdvanceType DEF RevokeToken, tokens
<1> QED
  BY <1>1, <1>2, <1>3, <1>4, <1>5, <1>6 DEF Step

LEMMA TypeNext == TypeOK /\ Carried /\ [Next]_vars => TypeOK'
<1> SUFFICES ASSUME TypeOK, Carried, [Next]_vars PROVE TypeOK'
  OBVIOUS
<1>a. {"insert", "lookup"} \subseteq InFlight
  BY DEF InFlight, RefreshStages, AccessStages
<1>1. CASE UNCHANGED vars
  BY <1>1 DEF vars, tokens, requests, TypeOK
<1>2. ASSUME NEW u \in User, Login(u) PROVE TypeOK'
  <2>1. PICK p \in Pair : Issue(p, u, None)
    BY <1>2 DEF Login
  <2>2. /\ owner' \in [Pair -> User \cup {None}]
        /\ issuedAt' \in [Pair -> 0 .. MaxTime]
        /\ parent' \in [Pair -> Pair \cup {None}]
        /\ root' \in [Pair -> Pair \cup {None}]
    BY <2>1, IssueType
  <2> QED
    BY <1>2, <2>2 DEF Login, TypeOK, requests
<1>3. ASSUME NEW u \in User, NEW s \in {"active", "inactive", "absent"}, ChangeAccount(u, s)
      PROVE  TypeOK'
  BY <1>3 DEF ChangeAccount, TypeOK, tokens, requests
<1>4. ASSUME NEW q \in Request, NEW t \in Token, PresentRefresh(q, t) PROVE TypeOK'
  BY <1>4, <1>a, BeginType DEF PresentRefresh, TypeOK, tokens
<1>5. ASSUME NEW q \in Request, NEW t \in Token, NEW o \in {"call", "logout"},
             PresentAccess(q, o, t)
      PROVE  TypeOK'
  BY <1>5, <1>a, BeginType DEF PresentAccess, TypeOK, tokens
<1>6. CASE Tick
  BY <1>6, LifeAssumption DEF Tick, TypeOK, tokens, requests
<1>7. CASE Crash
  BY <1>7 DEF Crash, TypeOK, tokens, Answers
<1> QED
  BY <1>1, <1>2, <1>3, <1>4, <1>5, <1>6, <1>7, StepType DEF Next

-----------------------------------------------------------------------------
(* The four ways a step treats the tokens and the blocklist.  Each property *)
(* of the two then needs four cases instead of one per action.              *)

LoginStep(u, p) == Issue(p, u, None) /\ UNCHANGED blocklist

RotationStep(old, p) ==
  /\ Issued(old)
  /\ ~Revoked(old)
  /\ Issue(p, owner[old], old)
  /\ blocklist' = blocklist \cup {<<old, "refresh">>}

LogoutStep(p) ==
  /\ Issued(p)
  /\ blocklist' = blocklist \cup {<<p, "access">>}
  /\ UNCHANGED tokens

LEMMA FourCases ==
  ASSUME TypeOK, Carried, [Next]_vars
  PROVE  \/ UNCHANGED <<tokens, blocklist>>
         \/ \E u \in User, p \in Pair : LoginStep(u, p)
         \/ \E old, p \in Pair : RotationStep(old, p)
         \/ \E p \in Pair : LogoutStep(p)
<1>1. CASE UNCHANGED vars
  BY <1>1 DEF vars
<1>2. ASSUME NEW u \in User, Login(u) PROVE \E p \in Pair : LoginStep(u, p)
  BY <1>2 DEF Login, LoginStep
<1>3. ASSUME NEW q \in Request, CommitRotation(q)
      PROVE  \E old, p \in Pair : RotationStep(old, p)
  <2>1. token[q] \in Pair \X {"refresh"} /\ Issued(token[q][1]) /\ token[q] \notin blocklist
    BY <1>3 DEF CommitRotation, Carried, RefreshStages
  <2>2. token[q] = <<token[q][1], "refresh">> /\ token[q][1] \in Pair
    BY <2>1
  <2>3. PICK p \in Pair : Issue(p, owner[token[q][1]], token[q][1])
    BY <1>3 DEF CommitRotation
  <2>4. RotationStep(token[q][1], p)
    BY <1>3, <2>1, <2>2, <2>3 DEF CommitRotation, RotationStep, Revoked
  <2> QED
    BY <2>2, <2>4
<1>4. ASSUME NEW q \in Request, RevokeToken(q)
      PROVE  UNCHANGED <<tokens, blocklist>> \/ \E p \in Pair : LogoutStep(p)
  <2>1. token[q] \in Pair \X {"access"}
    BY <1>4 DEF RevokeToken, Carried, AccessStages
  <2>2. token[q] = <<token[q][1], "access">> /\ token[q][1] \in Pair
    BY <2>1
  <2>3. CASE Decodes(token[q]) /\ token[q] \notin blocklist
    <3>1. LogoutStep(token[q][1])
      BY <1>4, <2>2, <2>3 DEF RevokeToken, LogoutStep, Decodes
    <3> QED
      BY <2>2, <3>1
  <2>4. CASE ~(Decodes(token[q]) /\ token[q] \notin blocklist)
    BY <1>4, <2>4 DEF RevokeToken
  <2> QED
    BY <2>3, <2>4
<1>5. ASSUME NEW q \in Request,
             InsertRevocation(q) \/ CheckAccount(q) \/ LookupBlocklist(q) \/ LoadUser(q)
      PROVE  UNCHANGED <<tokens, blocklist>>
  BY <1>5 DEF InsertRevocation, CheckAccount, LookupBlocklist, LoadUser
<1>6. ASSUME NEW q \in Request, NEW t \in Token,
             PresentRefresh(q, t) \/ \E o \in {"call", "logout"} : PresentAccess(q, o, t)
      PROVE  UNCHANGED <<tokens, blocklist>>
  BY <1>6 DEF PresentRefresh, PresentAccess
<1>7. ASSUME NEW u \in User,
             Tick \/ Crash \/ \E s \in {"active", "inactive", "absent"} : ChangeAccount(u, s)
      PROVE  UNCHANGED <<tokens, blocklist>>
  BY <1>7 DEF Tick, Crash, ChangeAccount
<1>8. Tick \/ Crash => UNCHANGED <<tokens, blocklist>>
  BY DEF Tick, Crash
<1> QED
  BY <1>1, <1>2, <1>3, <1>4, <1>5, <1>6, <1>7, <1>8 DEF Next, Step

-----------------------------------------------------------------------------
(* Each part of IInv is preserved *)

LEMMA LineageNext ==
  ASSUME TypeOK, Carried, Lineage, [Next]_vars
  PROVE  Lineage'
<1>1. CASE UNCHANGED <<tokens, blocklist>>
  BY <1>1 DEF Lineage, tokens, Issued
<1>2. ASSUME NEW u \in User, NEW p \in Pair, LoginStep(u, p) PROVE Lineage'
  BY <1>2, NoneAssumption DEF Lineage, LoginStep, Issue, Issued, TypeOK
<1>3. ASSUME NEW old \in Pair, NEW p \in Pair, RotationStep(old, p) PROVE Lineage'
  BY <1>3, NoneAssumption DEF Lineage, RotationStep, Issue, Issued, TypeOK
<1>4. ASSUME NEW p \in Pair, LogoutStep(p) PROVE Lineage'
  BY <1>4 DEF Lineage, LogoutStep, tokens, Issued
<1> QED
  BY <1>1, <1>2, <1>3, <1>4, FourCases

LEMMA RevokedNext ==
  ASSUME TypeOK, Carried, Lineage, RevokedIffReplaced, [Next]_vars
  PROVE  RevokedIffReplaced'
<1>1. CASE UNCHANGED <<tokens, blocklist>>
  BY <1>1 DEF RevokedIffReplaced, tokens, Revoked
<1>2. ASSUME NEW u \in User, NEW p \in Pair, LoginStep(u, p) PROVE RevokedIffReplaced'
  <2>1. \A q \in Pair : parent'[q] = parent[q]
    BY <1>2 DEF LoginStep, Issue, Lineage, TypeOK
  <2> QED
    BY <1>2, <2>1 DEF LoginStep, RevokedIffReplaced, Revoked
<1>3. ASSUME NEW old \in Pair, NEW p \in Pair, RotationStep(old, p) PROVE RevokedIffReplaced'
  <2>1. \A x \in Pair : Revoked(x)' <=> Revoked(x) \/ x = old
    BY <1>3 DEF RotationStep, Revoked
  <2>2. \A q \in Pair : parent'[q] = IF q = p THEN old ELSE parent[q]
    BY <1>3 DEF RotationStep, Issue, TypeOK
  <2>3. parent[p] = None
    BY <1>3 DEF RotationStep, Issue, Lineage
  <2>4. ASSUME NEW x \in Pair, x # old
        PROVE  (\E q \in Pair : parent'[q] = x) <=> \E q \in Pair : parent[q] = x
    BY <2>2, <2>3, <2>4, NoneAssumption
  <2>5. \A x \in Pair : Revoked(x)' <=> \E q \in Pair : parent'[q] = x
    BY <2>1, <2>2, <2>4 DEF RevokedIffReplaced
  <2> QED
    BY <2>5 DEF RevokedIffReplaced
<1>4. ASSUME NEW p \in Pair, LogoutStep(p) PROVE RevokedIffReplaced'
  <2>1. \A x \in Pair : Revoked(x)' <=> Revoked(x)
    BY <1>4 DEF LogoutStep, Revoked
  <2> QED
    BY <1>4, <2>1 DEF LogoutStep, tokens, RevokedIffReplaced
<1> QED
  BY <1>1, <1>2, <1>3, <1>4, FourCases

LEMMA SingleUseNext ==
  ASSUME TypeOK, Carried, Lineage, RevokedIffReplaced, SingleUse, [Next]_vars
  PROVE  SingleUse'
<1>1. CASE UNCHANGED <<tokens, blocklist>>
  BY <1>1 DEF SingleUse, tokens
<1>2. ASSUME NEW u \in User, NEW p \in Pair, LoginStep(u, p) PROVE SingleUse'
  BY <1>2 DEF LoginStep, Issue, TypeOK, SingleUse
<1>3. ASSUME NEW old \in Pair, NEW p \in Pair, RotationStep(old, p) PROVE SingleUse'
  <2>1. \A q \in Pair : parent'[q] = IF q = p THEN old ELSE parent[q]
    BY <1>3 DEF RotationStep, Issue, TypeOK
  <2>2. \A q \in Pair : parent[q] # old
    BY <1>3 DEF RotationStep, RevokedIffReplaced
  <2> QED
    BY <2>1, <2>2 DEF SingleUse
<1>4. ASSUME NEW p \in Pair, LogoutStep(p) PROVE SingleUse'
  BY <1>4 DEF LogoutStep, tokens, SingleUse
<1> QED
  BY <1>1, <1>2, <1>3, <1>4, FourCases

(* What a rotation does to them: p takes the place of old.                 *)
LEMMA RotationGood ==
  ASSUME TypeOK, Lineage, ExactlyOneGood,
         NEW old \in Pair, NEW p \in Pair, RotationStep(old, p)
  PROVE  /\ root[old] \in Pair /\ root[root[old]] = root[old] /\ root'[old] = root[old]
         /\ p # old /\ p # root[old]
         /\ GoodPairs(root[old]) = {old} /\ GoodPairs(root[old])' = {p}
         /\ \A s \in Pair \ {root[old]} : GoodPairs(s)' = GoodPairs(s)
         /\ \A s \in Pair : root'[s] = s <=> root[s] = s
<1>1. /\ root[old] \in Pair /\ Issued(root[old]) /\ root[root[old]] = root[old]
      /\ ~Issued(p) /\ ~Revoked(old)
  BY DEF RotationStep, Issue, Lineage
<1>2. \A q \in Pair : root'[q] = IF q = p THEN root[old] ELSE root[q]
  BY NoneAssumption DEF RotationStep, Issue, TypeOK
<1>3. \A q \in Pair : Revoked(q)' <=> Revoked(q) \/ q = old
  BY DEF RotationStep, Revoked
<1>4. root[p] = None /\ ~Revoked(p) /\ p # old /\ p # root[old]
  BY <1>1 DEF Lineage, Revoked, Kind, RotationStep
<1>5. GoodPairs(root[old]) = {old}
  BY <1>1 DEF GoodPairs, ExactlyOneGood
<1>6. GoodPairs(root[old])' = {p}
  BY <1>1, <1>2, <1>3, <1>4, <1>5 DEF GoodPairs
<1>7. ASSUME NEW s \in Pair \ {root[old]} PROVE GoodPairs(s)' = GoodPairs(s)
  BY <1>2, <1>3, <1>4, NoneAssumption DEF GoodPairs
<1>8. \A s \in Pair : root'[s] = s <=> root[s] = s
  BY <1>2, <1>4, NoneAssumption
<1> QED
  BY <1>1, <1>2, <1>4, <1>5, <1>6, <1>7, <1>8

LEMMA LoginGood ==
  ASSUME TypeOK, Lineage, NEW u \in User, NEW p \in Pair, LoginStep(u, p)
  PROVE  /\ root[p] = None /\ root'[p] = p /\ GoodPairs(p)' = {p}
         /\ \A s \in Pair \ {p} :
              GoodPairs(s)' = GoodPairs(s) /\ (root'[s] = s <=> root[s] = s)
<1>1. \A q \in Pair : root'[q] = IF q = p THEN p ELSE root[q]
  BY DEF LoginStep, Issue, TypeOK
<1>2. \A q \in Pair : Revoked(q)' <=> Revoked(q)
  BY DEF LoginStep, Revoked
<1>3. root[p] = None /\ ~Revoked(p) /\ \A q \in Pair : root[q] # p
  BY DEF LoginStep, Issue, Lineage, Revoked, Kind
<1> QED
  BY <1>1, <1>2, <1>3, NoneAssumption DEF GoodPairs

LEMMA LogoutGood ==
  ASSUME NEW p \in Pair, LogoutStep(p)
  PROVE  \A s \in Pair : GoodPairs(s)' = GoodPairs(s)
<1>1. \A q \in Pair : Revoked(q)' <=> Revoked(q)
  BY DEF LogoutStep, Revoked
<1> QED
  BY <1>1 DEF GoodPairs, LogoutStep, tokens

LEMMA OneGoodNext ==
  ASSUME TypeOK, Carried, Lineage, ExactlyOneGood, [Next]_vars
  PROVE  ExactlyOneGood'
<1> USE DEF ExactlyOneGood
<1>1. CASE UNCHANGED <<tokens, blocklist>>
  BY <1>1 DEF tokens, Revoked, GoodPairs
<1>2. ASSUME NEW u \in User, NEW p \in Pair, LoginStep(u, p) PROVE ExactlyOneGood'
  BY <1>2, LoginGood
<1>3. ASSUME NEW old \in Pair, NEW p \in Pair, RotationStep(old, p) PROVE ExactlyOneGood'
  <2>1. /\ GoodPairs(root[old])' = {p} /\ root'[old] = root[old]
        /\ \A s \in Pair \ {root[old]} : GoodPairs(s)' = GoodPairs(s)
        /\ \A s \in Pair : root'[s] = s <=> root[s] = s
    BY <1>3, RotationGood
  <2>2. ASSUME NEW s \in Pair, root'[s] = s PROVE \E g \in Pair : GoodPairs(s)' = {g}
    <3>1. CASE s = root[old]
      BY <2>1, <3>1 DEF GoodPairs
    <3>2. CASE s # root[old]
      <4>1. PICK g \in Pair : GoodPairs(s) = {g}
        BY <2>1, <2>2 DEF GoodPairs
      <4> QED
        BY <2>1, <3>2, <4>1
    <3> QED
      BY <3>1, <3>2
  <2> QED
    BY <2>2 DEF GoodPairs
<1>4. ASSUME NEW p \in Pair, LogoutStep(p) PROVE ExactlyOneGood'
  BY <1>4, LogoutGood DEF GoodPairs, LogoutStep, tokens
<1> QED
  BY <1>1, <1>2, <1>3, <1>4, FourCases

(* Nothing is taken back: a token stays issued, with its expiry, a row of  *)
(* the blocklist stays, and the clock does not go backwards.               *)
LEMMA Monotone ==
  ASSUME TypeOK, Carried, [Next]_vars
  PROVE  /\ \A p \in Pair : Issued(p) => Issued(p)' /\ issuedAt'[p] = issuedAt[p]
         /\ blocklist \subseteq blocklist'
         /\ now' \in Nat /\ now \in Nat /\ now <= now'
<1>1. \A p \in Pair : Issued(p) => Issued(p)' /\ issuedAt'[p] = issuedAt[p]
  <2>1. CASE UNCHANGED <<tokens, blocklist>>
    BY <2>1 DEF tokens, Issued
  <2>2. ASSUME NEW u \in User, NEW p \in Pair, LoginStep(u, p)
        PROVE  \A x \in Pair : Issued(x) => Issued(x)' /\ issuedAt'[x] = issuedAt[x]
    BY <2>2 DEF LoginStep, Issue, Issued, TypeOK
  <2>3. ASSUME NEW old \in Pair, NEW p \in Pair, RotationStep(old, p)
        PROVE  \A x \in Pair : Issued(x) => Issued(x)' /\ issuedAt'[x] = issuedAt[x]
    BY <2>3 DEF RotationStep, Issue, Issued, TypeOK
  <2>4. ASSUME NEW p \in Pair, LogoutStep(p)
        PROVE  \A x \in Pair : Issued(x) => Issued(x)' /\ issuedAt'[x] = issuedAt[x]
    BY <2>4 DEF LogoutStep, tokens, Issued
  <2> QED
    BY <2>1, <2>2, <2>3, <2>4, FourCases
<1>2. blocklist \subseteq blocklist'
  BY FourCases DEF LoginStep, RotationStep, LogoutStep
<1>3. now \in Nat
  BY LifeAssumption DEF TypeOK
<1>4. now' = now \/ now' = now + 1
  BY DEF Next, vars, Login, ChangeAccount, PresentRefresh, PresentAccess, Step, Tick, Crash,
         InsertRevocation, CheckAccount, CommitRotation, LookupBlocklist, LoadUser, RevokeToken
<1> QED
  BY <1>1, <1>2, <1>3, <1>4

LEMMA CarriedNext ==
  ASSUME TypeOK, Carried, Lineage, [Next]_vars
  PROVE  Carried'
<1>m. \A p \in Pair : Issued(p) => Issued(p)'
  BY Monotone
<1> USE DEF Carried, RefreshStages, AccessStages
<1>1. CASE UNCHANGED vars
  BY <1>1 DEF vars, tokens, requests, Issued
<1>2. ASSUME NEW u \in User, Login(u) PROVE Carried'
  BY <1>2, <1>m DEF Login, requests
<1>3. ASSUME NEW u \in User,
             Tick \/ \E s \in {"active", "inactive", "absent"} : ChangeAccount(u, s)
      PROVE  Carried'
  BY <1>3 DEF Tick, ChangeAccount, tokens, requests, Issued
<1>4. ASSUME NEW q \in Request, NEW t \in Token, PresentRefresh(q, t) PROVE Carried'
  <2>1. t \in Pair \X {"refresh"} /\ Issued(t[1])
    BY <1>4 DEF PresentRefresh, Decodes, Token
  <2> QED
    BY <1>4, <1>m, <2>1 DEF PresentRefresh, Begin, TypeOK
<1>5. ASSUME NEW q \in Request, NEW t \in Token, NEW o \in {"call", "logout"},
             PresentAccess(q, o, t)
      PROVE  Carried'
  <2>1. t \in Pair \X {"access"} /\ Issued(t[1])
    BY <1>5 DEF PresentAccess, Decodes, Token
  <2> QED
    BY <1>5, <1>m, <2>1 DEF PresentAccess, Begin, TypeOK
<1>6. ASSUME NEW q \in Request, Step(q) PROVE Carried'
  <2>1. CASE InsertRevocation(q)
    BY <2>1, <1>m DEF InsertRevocation, Locked, Advance, TypeOK
  <2>2. CASE CheckAccount(q)
    BY <2>2, <1>m DEF CheckAccount, Advance, TypeOK
  <2>3. CASE CommitRotation(q)
    BY <2>3, <1>m DEF CommitRotation, Advance, TypeOK
  <2>4. CASE LookupBlocklist(q)
    BY <2>4, <1>m DEF LookupBlocklist, Advance, TypeOK
  <2>5. CASE LoadUser(q)
    BY <2>5, <1>m DEF LoadUser, Advance, TypeOK
  <2>6. CASE RevokeToken(q)
    BY <2>6, <1>m DEF RevokeToken, Advance, TypeOK
  <2> QED
    BY <1>6, <2>1, <2>2, <2>3, <2>4, <2>5, <2>6 DEF Step
<1>7. CASE Crash
  BY <1>7, <1>m DEF Crash, InFlight, TypeOK
<1>8. CASE Tick
  BY <1>8 DEF Tick, tokens, requests, Issued
<1> QED
  BY <1>1, <1>2, <1>3, <1>4, <1>5, <1>6, <1>7, <1>8 DEF Next

LEMMA LoggedOutNext ==
  ASSUME TypeOK, Carried, LoggedOut, [Next]_vars
  PROVE  LoggedOut'
<1>m. \A t \in Token : Issued(t[1]) /\ (t \in blocklist \/ ~Decodes(t)) =>
         Issued(t[1])' /\ (t \in blocklist' \/ ~Decodes(t)')
  <2>1. SUFFICES ASSUME NEW t \in Token, Issued(t[1]), ~Decodes(t) PROVE ~Decodes(t)'
    BY Monotone DEF Token
  <2>2. issuedAt'[t[1]] = issuedAt[t[1]] /\ issuedAt[t[1]] \in Nat /\ Life(t[2]) \in Nat
    BY <2>1, Monotone, LifeAssumption DEF Token, TypeOK, Life
  <2> QED
    BY <2>1, <2>2, Monotone DEF Decodes, Life
<1>b. blocklist \subseteq blocklist'
  BY Monotone
<1>s. loggedOut \subseteq Token
  BY DEF TypeOK
<1> USE DEF LoggedOut
<1>1. ASSUME UNCHANGED <<loggedOut, requests>> PROVE LoggedOut'
  BY <1>1, <1>m, <1>b, <1>s DEF requests
<1>2. ASSUME NEW q \in Request, NEW t \in Token, NEW o \in {"refresh", "call", "logout"},
             NEW s \in {"insert", "lookup"},
             Begin(q, o, t, s), Decodes(t), s = "insert" => t[2] = "refresh",
             UNCHANGED <<loggedOut, blocklist>>
      PROVE  LoggedOut'
  <2>1. t \in loggedOut => t \in blocklist /\ s = "lookup"
    BY <1>2
  <2>2. \A r \in Request : late'[r] => token'[r] \in blocklist' /\ stage'[r] \in {"lookup", "refused", "lost"}
    BY <1>2, <2>1 DEF Begin, TypeOK
  <2> QED
    BY <1>2, <1>m, <1>s, <2>2
<1>3. ASSUME NEW q \in Request, Step(q) PROVE LoggedOut'
  <2>1. ASSUME NEW s \in InFlight \cup Answers, Advance(q, s), UNCHANGED loggedOut,
               late[q] => s = "refused"
        PROVE  LoggedOut'
    <3>1. \A r \in Request : late'[r] => token'[r] \in blocklist' /\ stage'[r] \in {"lookup", "refused", "lost"}
      BY <2>1, <1>b DEF Advance, TypeOK
    <3> QED
      BY <2>1, <1>m, <1>s, <3>1
  <2>a. {"check", "commit", "user", "revoke", "done", "refused"} \subseteq InFlight \cup Answers
    BY DEF InFlight, Answers, RefreshStages, AccessStages
  <2>2. CASE InsertRevocation(q) \/ CheckAccount(q) \/ CommitRotation(q)
    <3>1. ~late[q]
      BY <2>2 DEF InsertRevocation, CheckAccount, CommitRotation, TypeOK
    <3> QED
      BY <2>1, <2>2, <2>a, <3>1 DEF InsertRevocation, CheckAccount, CommitRotation
  <2>3. CASE LookupBlocklist(q)
    BY <2>1, <2>3, <2>a DEF LookupBlocklist
  <2>4. CASE LoadUser(q)
    BY <2>1, <2>4, <2>a DEF LoadUser
  <2>5. CASE RevokeToken(q)
    <3>1. ~late[q] /\ token[q] \in Pair \X {"access"} /\ Issued(token[q][1])
      BY <2>5 DEF RevokeToken, Carried, AccessStages
    <3>2. \A r \in Request : late'[r] => token'[r] \in blocklist' /\ stage'[r] \in {"lookup", "refused", "lost"}
      BY <2>5, <1>b, <3>1 DEF RevokeToken, Advance, TypeOK
    <3>3. CASE Decodes(token[q]) /\ token[q] \in blocklist
      BY <2>5, <1>m, <1>s, <3>2, <3>3 DEF RevokeToken
    <3>4. CASE ~(Decodes(token[q]) /\ token[q] \in blocklist)
      <4>1. /\ loggedOut' = loggedOut \cup {token[q]}
            /\ Issued(token[q][1])'
            /\ token[q] \in blocklist' \/ ~Decodes(token[q])'
        <5>1. loggedOut' = loggedOut \cup {token[q]} /\ Issued(token[q][1])'
          BY <2>5, <3>1, <3>4 DEF RevokeToken, tokens, Issued, Advance
        <5>2. CASE Decodes(token[q])
          BY <2>5, <3>4, <5>1, <5>2 DEF RevokeToken
        <5>3. CASE ~Decodes(token[q])
          <6>1. token[q] \in Token /\ token' = token
            BY <2>5, <3>1, <3>4 DEF RevokeToken, Token, Kind, Advance
          <6>2. ~Decodes(token[q])'
            BY <2>5, <5>3, <6>1 DEF RevokeToken, tokens, Decodes, Issued
          <6> QED
            BY <5>1, <6>2
        <5> QED
          BY <5>1, <5>2, <5>3
      <4>2. token' = token
        BY <2>5, <3>4 DEF RevokeToken, Advance
      <4>3. \A t \in loggedOut' : Issued(t[1])' /\ (t \in blocklist' \/ ~Decodes(t)')
        <5>1. ASSUME NEW t \in loggedOut PROVE Issued(t[1])' /\ (t \in blocklist' \/ ~Decodes(t)')
          BY <1>m, <1>s
        <5> QED
          BY <4>1, <4>2, <5>1
      <4> QED
        BY <3>1, <3>2, <4>1, <4>3
    <3> QED
      BY <3>3, <3>4
  <2> QED
    BY <1>3, <2>2, <2>3, <2>4, <2>5 DEF Step
<1>4. CASE Crash
  <2>1. \A r \in Request : late'[r] => token'[r] \in blocklist' /\ stage'[r] \in {"lookup", "refused", "lost"}
    BY <1>4 DEF Crash, TypeOK
  <2> QED
    BY <1>4, <1>m, <1>s, <2>1 DEF Crash
<1>5. ASSUME NEW q \in Request, NEW t \in Token,
             PresentRefresh(q, t) \/ \E o \in {"call", "logout"} : PresentAccess(q, o, t)
      PROVE  LoggedOut'
  BY <1>2, <1>5 DEF PresentRefresh, PresentAccess
<1> QED
  BY <1>1, <1>3, <1>4, <1>5 DEF Next, vars, Login, ChangeAccount, Tick

-----------------------------------------------------------------------------
(* The theorems *)

LEMMA InitIInv == Init => IInv
<1> SUFFICES ASSUME Init PROVE IInv
  OBVIOUS
<1>1. TypeOK
  BY LifeAssumption DEF Init, TypeOK
<1>2. Lineage
  BY NoneAssumption DEF Init, Lineage, Issued
<1>4. Carried /\ LoggedOut
  BY DEF Init, Carried, LoggedOut, RefreshStages, AccessStages
<1>3. SingleUse /\ RevokedIffReplaced /\ ExactlyOneGood
  BY NoneAssumption DEF Init, SingleUse, RevokedIffReplaced, ExactlyOneGood, Revoked
<1> QED
  BY <1>1, <1>2, <1>3, <1>4 DEF IInv

LEMMA NextIInv == IInv /\ [Next]_vars => IInv'
  BY TypeNext, LineageNext, CarriedNext, LoggedOutNext, SingleUseNext, RevokedNext, OneGoodNext
  DEF IInv

(* IInv holds in every reachable state.                                    *)
THEOREM Inductive == Spec => []IInv
  BY InitIInv, NextIInv, PTL DEF Spec

(* Every variable keeps its type: only issued pairs are owned, exchanged   *)
(* or revoked.                                                             *)
THEOREM TypeCorrect == Spec => []TypeOK
<1>1. IInv => TypeOK
  BY DEF IInv
<1> QED
  BY <1>1, Inductive, PTL

(* A refresh token is exchanged at most once, although refresh never looks *)
(* the blocklist up: the row it inserts is the check.                      *)
THEOREM ExchangedOnce == Spec => []SingleUse
<1>1. IInv => SingleUse
  BY DEF IInv
<1> QED
  BY <1>1, Inductive, PTL

(* An exchange that does not complete leaves the refresh token good.       *)
THEOREM RevocationIsReplacement == Spec => []RevokedIffReplaced
<1>1. IInv => RevokedIffReplaced
  BY DEF IInv
<1> QED
  BY <1>1, Inductive, PTL

(* A login has at most one refresh token that is not revoked, and exactly  *)
(* one as long as no logout with one of its tokens was answered.           *)
THEOREM OneGood == Spec => []OneGoodPerLogin
<1>1. IInv => OneGoodPerLogin
  BY DEF IInv, ExactlyOneGood, OneGoodPerLogin, GoodPairs
<1> QED
  BY <1>1, Inductive, PTL

(* No request that begins after the logout of its token is let through.    *)
THEOREM LogoutHolds == Spec => []LoggedOutRefused
<1>1. IInv => LoggedOutRefused
  BY DEF IInv, LoggedOut, LoggedOutRefused
<1> QED
  BY <1>1, Inductive, PTL

-----------------------------------------------------------------------------
(* Refinement of RotatingSession *)

(* The one good token of a login is the value of GoodOf.                   *)
GoodOfGives ==
  \A s \in Pair :
    /\ root[s] # s => GoodOf(s) = None
    /\ root[s] = s => GoodOf(s) \in Pair /\ GoodPairs(s) = {GoodOf(s)}

LEMMA GoodOfValue == ExactlyOneGood => GoodOfGives
<1> SUFFICES ASSUME ExactlyOneGood, NEW s \in Pair
             PROVE  /\ root[s] # s => GoodOf(s) = None
                    /\ root[s] = s => GoodOf(s) \in Pair /\ GoodPairs(s) = {GoodOf(s)}
  BY DEF GoodOfGives
<1>1. CASE root[s] # s
  BY <1>1 DEF GoodOf
<1>2. CASE root[s] = s
  <2>1. PICK g \in Pair : GoodPairs(s) = {g}
    BY <1>2 DEF ExactlyOneGood, GoodPairs
  <2>2. \A p \in Pair : GoodPairs(s) = {p} <=> p = g
    BY <2>1
  <2>3. GoodOf(s) = g
    BY <1>2, <2>1, <2>2 DEF GoodOf
  <2> QED
    BY <1>2, <2>1, <2>3
<1> QED
  BY <1>1, <1>2

LEMMA GoodOfValueNext == ExactlyOneGood' => GoodOfGives'
  BY GoodOfValue, PTL

LEMMA InitMaps == Init => Abstract!Init
<1> SUFFICES ASSUME Init PROVE Abstract!Init
  OBVIOUS
<1>1. \A s \in Pair : GoodOf(s) = None
  BY NoneAssumption DEF Init, GoodOf
<1>2. {p \in Pair : Revoked(p)} = {}
  BY DEF Init, Revoked
<1> QED
  BY <1>1, <1>2 DEF Abstract!Init

(* A login that is none of those a step touches keeps its good token.      *)
LEMMA GoodOfKept ==
  ASSUME GoodOfGives, GoodOfGives', NEW s \in Pair,
         GoodPairs(s)' = GoodPairs(s), root'[s] = s <=> root[s] = s
  PROVE  GoodOf(s)' = GoodOf(s)
  BY DEF GoodOfGives

LEMMA LoginMaps ==
  ASSUME TypeOK, Lineage, GoodOfGives, GoodOfGives',
         NEW u \in User, NEW p \in Pair, LoginStep(u, p)
  PROVE  Abstract!Open(p)
<1>1. /\ root[p] = None /\ root'[p] = p /\ GoodPairs(p)' = {p}
      /\ \A s \in Pair \ {p} : GoodPairs(s)' = GoodPairs(s) /\ (root'[s] = s <=> root[s] = s)
  BY LoginGood
<1>2. \A s \in Pair \ {p} : GoodOf(s)' = GoodOf(s)
  BY <1>1, GoodOfKept
<1>3. GoodOf(p) = None /\ GoodOf(p)' = p
  BY <1>1, NoneAssumption DEF GoodOfGives
<1>4. ~Revoked(p) /\ \A s \in Pair : GoodOf(s) # p
  <2>1. ~Revoked(p)
    BY DEF LoginStep, Issue, Lineage, Revoked, Kind
  <2>2. ASSUME NEW s \in Pair, GoodOf(s) = p PROVE FALSE
    BY <1>1, <2>2, NoneAssumption DEF GoodOfGives, GoodPairs
  <2> QED
    BY <2>1, <2>2
<1>5. {q \in Pair : Revoked(q)}' = {q \in Pair : Revoked(q)}
  BY DEF LoginStep, Revoked
<1> QED
  BY <1>2, <1>3, <1>4, <1>5 DEF Abstract!Open, Abstract!Unused

LEMMA RotationMaps ==
  ASSUME TypeOK, Lineage, ExactlyOneGood, GoodOfGives, GoodOfGives',
         NEW old \in Pair, NEW p \in Pair, RotationStep(old, p)
  PROVE  \E s \in Pair : Abstract!Rotate(s, p)
<1>1. /\ root[old] \in Pair /\ root[root[old]] = root[old] /\ root'[old] = root[old]
      /\ GoodPairs(root[old]) = {old} /\ GoodPairs(root[old])' = {p}
      /\ \A s \in Pair \ {root[old]} : GoodPairs(s)' = GoodPairs(s)
      /\ \A s \in Pair : root'[s] = s <=> root[s] = s
  BY RotationGood
<1>2. PICK s \in Pair : s = root[old]
  BY <1>1
<1>3. root[s] = s /\ root'[s] = s /\ GoodPairs(s) = {old} /\ GoodPairs(s)' = {p}
  BY <1>1, <1>2 DEF GoodPairs
<1>4. GoodOf(s) = old /\ GoodOf(s)' = p
  BY <1>3 DEF GoodOfGives
<1>5. \A x \in Pair \ {s} : GoodOf(x)' = GoodOf(x)
  BY <1>1, <1>2, GoodOfKept
<1>6. ~Revoked(p) /\ \A x \in Pair : GoodOf(x) # p
  <2>1. ~Revoked(p) /\ root[p] = None
    BY DEF RotationStep, Issue, Lineage, Revoked, Kind
  <2>2. ASSUME NEW x \in Pair, GoodOf(x) = p PROVE FALSE
    BY <2>1, <2>2, NoneAssumption DEF GoodOfGives, GoodPairs
  <2> QED
    BY <2>1, <2>2
<1>7. {q \in Pair : Revoked(q)}' = {q \in Pair : Revoked(q)} \cup {old}
  BY DEF RotationStep, Revoked
<1>8. Abstract!Rotate(s, p)
  BY <1>4, <1>5, <1>6, <1>7, NoneAssumption DEF Abstract!Rotate, Abstract!Unused
<1> QED
  BY <1>8

LEMMA NextMaps ==
  ASSUME IInv, IInv', [Next]_vars
  PROVE  [Abstract!Next]_<<[s \in Pair |-> GoodOf(s)], {p \in Pair : Revoked(p)}>>
<1>a. /\ TypeOK /\ Carried /\ Lineage /\ ExactlyOneGood /\ ExactlyOneGood'
      /\ GoodOfGives /\ GoodOfGives'
  BY GoodOfValue, GoodOfValueNext DEF IInv
<1>1. ASSUME UNCHANGED <<tokens, blocklist>> \/ \E p \in Pair : LogoutStep(p)
      PROVE  UNCHANGED <<[s \in Pair |-> GoodOf(s)], {p \in Pair : Revoked(p)}>>
  <2>1. \A p \in Pair : (Revoked(p)' <=> Revoked(p)) /\ root'[p] = root[p]
    BY <1>1 DEF LogoutStep, tokens, Revoked
  <2>2. \A s \in Pair : GoodOf(s)' = GoodOf(s)
    BY <1>a, <2>1, GoodOfKept DEF GoodPairs
  <2> QED
    BY <2>1, <2>2
<1>2. ASSUME NEW u \in User, NEW p \in Pair, LoginStep(u, p) PROVE Abstract!Next
  BY <1>a, <1>2, LoginMaps DEF Abstract!Next
<1>3. ASSUME NEW old \in Pair, NEW p \in Pair, RotationStep(old, p) PROVE Abstract!Next
  BY <1>a, <1>3, RotationMaps DEF Abstract!Next
<1> QED
  BY <1>a, <1>1, <1>2, <1>3, FourCases

(* Tokens, requests and the blocklist implement rotating sessions: every   *)
(* step opens a session, replaces the good token of one, or changes none.  *)
THEOREM Refines == Spec => Rotates
<1>1. Init => Abstract!Init
  BY InitMaps
<1>2. IInv /\ IInv' /\ [Next]_vars
        => [Abstract!Next]_<<[s \in Pair |-> GoodOf(s)], {p \in Pair : Revoked(p)}>>
  BY NextMaps
<1> QED
  BY <1>1, <1>2, Inductive, PTL DEF Spec, Rotates, Abstract!Spec
-----------------------------------------------------------------------------
(* The rate limiter *)

KeptIsWindow ==
  \A c \in Client :
    /\ IsFiniteSet(accepted[c])
    /\ \A e \in accepted[c] : e.at <= clock
    /\ kept[c] \subseteq accepted[c]
    /\ \A e \in accepted[c] : InWindow(e, clock) => e \in kept[c]

LimiterInv == GatewayTypeOK /\ KeptIsWindow /\ WindowBound

(* An answer built by the layers has the type of an answer.                *)
LEMMA AnswerType ==
  ASSUME NEW c \in Client
  PROVE  /\ Give(c, CatchAll(Raised("429"), FALSE), TRUE) => answer' \in Answer
         /\ \A o \in Outcome :
              Give(c, CatchAll(Application(o), TRUE), FALSE) => answer' \in Answer
<1>1. Give(c, CatchAll(Raised("429"), FALSE), TRUE) => answer' \in Answer
  BY DEF Give, CatchAll, Raised, Answer
<1>2. ASSUME NEW o \in Outcome,
             Give(c, CatchAll(Application(o), TRUE), FALSE)
      PROVE  answer' \in Answer
  <2>1. CASE o = "response"
    BY <1>2, <2>1 DEF Give, CatchAll, Application, Response, Answer
  <2>2. CASE o = "refused"
    BY <1>2, <2>2 DEF Give, CatchAll, Application, Response, Answer
  <2>3. CASE o = "invalid"
    BY <1>2, <2>3 DEF Give, CatchAll, Application, Response, Answer
  <2>4. CASE o = "error"
    BY <1>2, <2>4 DEF Give, CatchAll, Application, Raised, Answer
  <2> QED
    BY <2>1, <2>2, <2>3, <2>4 DEF Outcome
<1> QED
  BY <1>1, <1>2

LEMMA LimiterTypeNext == ASSUME GatewayTypeOK, [GatewayNext]_gatewayVars PROVE GatewayTypeOK'
<1> USE DEF GatewayTypeOK
<1>1. CASE UNCHANGED gatewayVars
  BY <1>1 DEF gatewayVars
<1>2. CASE ClockTicks
  BY <1>2, LimitAssumption DEF ClockTicks
<1>3. ASSUME NEW c \in Client, Reject(c) PROVE GatewayTypeOK'
  <2>1. answer' \in Answer
    BY <1>3, AnswerType DEF Reject
  <2> QED
    BY <1>3, <2>1 DEF Reject, Remaining
<1>4. ASSUME NEW c \in Client, NEW o \in Outcome, Accept(c, o) PROVE GatewayTypeOK'
  <2>1. answer' \in Answer
    BY <1>4, AnswerType DEF Accept
  <2>2. PICK n \in Serial :
          /\ kept' = [kept EXCEPT ![c] = Remaining(c) \cup {[n |-> n, at |-> clock]}]
          /\ accepted' = [accepted EXCEPT ![c] = @ \cup {[n |-> n, at |-> clock]}]
    BY <1>4 DEF Accept
  <2>3. [n |-> n, at |-> clock] \in Entry
    BY DEF Entry
  <2>4. kept' \in [Client -> SUBSET Entry]
    BY <2>2, <2>3 DEF Remaining
  <2>5. accepted' \in [Client -> SUBSET Entry]
    BY <2>2, <2>3
  <2> QED
    BY <1>4, <2>1, <2>4, <2>5 DEF Accept
<1> QED
  BY <1>1, <1>2, <1>3, <1>4 DEF GatewayNext

(* The requests the limiter counts are those accepted in the window.       *)
LEMMA RemainingIsWindow ==
  ASSUME GatewayTypeOK, KeptIsWindow, NEW c \in Client
  PROVE  Remaining(c) = AcceptedIn(c, clock)
  BY LimitAssumption DEF GatewayTypeOK, KeptIsWindow, Remaining, AcceptedIn, InWindow, Entry

LEMMA KeptNext == ASSUME GatewayTypeOK, KeptIsWindow, [GatewayNext]_gatewayVars PROVE KeptIsWindow'
<1>1. CASE UNCHANGED gatewayVars
  BY <1>1 DEF gatewayVars, KeptIsWindow, InWindow
<1>2. CASE ClockTicks
  BY <1>2, LimitAssumption DEF ClockTicks, GatewayTypeOK, KeptIsWindow, InWindow, Entry
<1>3. ASSUME NEW c \in Client, Reject(c) PROVE KeptIsWindow'
  BY <1>3 DEF Reject, GatewayTypeOK, KeptIsWindow, Remaining, InWindow
<1>4. ASSUME NEW c \in Client, NEW o \in Outcome, Accept(c, o) PROVE KeptIsWindow'
  <2>1. PICK n \in Serial :
          /\ kept' = [kept EXCEPT ![c] = Remaining(c) \cup {[n |-> n, at |-> clock]}]
          /\ accepted' = [accepted EXCEPT ![c] = @ \cup {[n |-> n, at |-> clock]}]
    BY <1>4 DEF Accept
  <2>2. clock' = clock /\ clock \in Nat
    BY <1>4 DEF Accept, GatewayTypeOK
  <2>3. ASSUME NEW d \in Client
        PROVE  IsFiniteSet(accepted[d])'
    BY <2>1, <2>3, FS_AddElement DEF KeptIsWindow, GatewayTypeOK
  <2>4. ASSUME NEW d \in Client
        PROVE  /\ \A e \in accepted'[d] : e.at <= clock
               /\ kept'[d] \subseteq accepted'[d]
               /\ \A e \in accepted'[d] : InWindow(e, clock) => e \in kept'[d]
    BY <2>1, <2>2 DEF KeptIsWindow, GatewayTypeOK, Remaining, InWindow
  <2> QED
    BY <2>2, <2>3, <2>4 DEF KeptIsWindow, InWindow
<1> QED
  BY <1>1, <1>2, <1>3, <1>4 DEF GatewayNext

LEMMA WindowNext == ASSUME LimiterInv, [GatewayNext]_gatewayVars PROVE WindowBound'
<1> USE DEF LimiterInv
<1>1. CASE UNCHANGED accepted
  BY <1>1 DEF WindowBound, AcceptedIn
<1>2. ASSUME NEW c \in Client, NEW o \in Outcome, Accept(c, o) PROVE WindowBound'
  <2>1. PICK n \in Serial : accepted' = [accepted EXCEPT ![c] = @ \cup {[n |-> n, at |-> clock]}]
    BY <1>2 DEF Accept
  <2> DEFINE new == [n |-> n, at |-> clock]
  <2>2. SUFFICES ASSUME NEW d \in Client, NEW t \in 0 .. Horizon
                 PROVE  Cardinality(AcceptedIn(d, t)') <= MaxRequests
    BY DEF WindowBound, AcceptedIn
  <2>3. CASE d # c \/ t < clock
    <3>1. AcceptedIn(d, t)' = AcceptedIn(d, t)
      BY <2>1, <2>3, LimitAssumption DEF AcceptedIn, GatewayTypeOK
    <3> QED
      BY <3>1 DEF WindowBound
  <2>4. CASE d = c /\ t >= clock
    <3>1. AcceptedIn(d, t)' \subseteq Remaining(c) \cup {new}
      BY <2>1, <2>4, LimitAssumption
         DEF AcceptedIn, GatewayTypeOK, KeptIsWindow, Remaining, InWindow, Entry
    <3>2. IsFiniteSet(Remaining(c))
      BY FS_Subset DEF KeptIsWindow, Remaining
    <3>3. Cardinality(Remaining(c)) \in Nat /\ Cardinality(Remaining(c)) < MaxRequests
      BY <1>2, <3>2, FS_CardinalityType, LimitAssumption DEF Accept, Over
    <3>4. /\ IsFiniteSet(Remaining(c) \cup {new})
          /\ Cardinality(Remaining(c) \cup {new}) <= Cardinality(Remaining(c)) + 1
      <4>1. /\ IsFiniteSet(Remaining(c) \cup {new})
            /\ Cardinality(Remaining(c) \cup {new}) =
                 IF new \in Remaining(c) THEN Cardinality(Remaining(c))
                                        ELSE Cardinality(Remaining(c)) + 1
        BY <3>2, FS_AddElement, Zenon
      <4> QED
        BY <4>1, <3>3
    <3>5. /\ Cardinality(Remaining(c) \cup {new}) \in Nat
          /\ Cardinality(AcceptedIn(d, t)') <= Cardinality(Remaining(c) \cup {new})
          /\ Cardinality(AcceptedIn(d, t)') \in Nat
      BY <3>1, <3>4, FS_Subset, FS_CardinalityType
    <3> QED
      BY <3>3, <3>4, <3>5, LimitAssumption
  <2> QED
    BY <2>3, <2>4, LimitAssumption DEF GatewayTypeOK
<1> QED
  BY <1>1, <1>2 DEF GatewayNext, ClockTicks, Reject, gatewayVars

(* The invariant holds in every reachable state.                           *)
THEOREM LimiterInductive == GatewaySpec => []LimiterInv
<1>1. GatewayInit => LimiterInv
  <2> SUFFICES ASSUME GatewayInit PROVE LimiterInv
    OBVIOUS
  <2>1. GatewayTypeOK
    BY LimitAssumption DEF GatewayInit, GatewayTypeOK
  <2>2. KeptIsWindow
    BY FS_EmptySet DEF GatewayInit, KeptIsWindow
  <2>3. \A c \in Client, t \in 0 .. Horizon : AcceptedIn(c, t) = {}
    BY DEF GatewayInit, AcceptedIn
  <2>4. WindowBound
    BY <2>3, FS_EmptySet, LimitAssumption DEF WindowBound
  <2> QED
    BY <2>1, <2>2, <2>4 DEF LimiterInv
<1>2. LimiterInv /\ [GatewayNext]_gatewayVars => LimiterInv'
  BY LimiterTypeNext, KeptNext, WindowNext DEF LimiterInv
<1> QED
  BY <1>1, <1>2, PTL DEF GatewaySpec

(* The entries, the clock and the answers keep their types.                *)
THEOREM LimiterTypeCorrect == GatewaySpec => []GatewayTypeOK
<1>1. LimiterInv => GatewayTypeOK
  BY DEF LimiterInv
<1> QED
  BY <1>1, LimiterInductive, PTL

(* At most MaxRequests requests of a client pass the limiter in any window *)
(* of Window units of time, although the limiter forgets.                  *)
THEOREM Bounded == GatewaySpec => []WindowBound
<1>1. LimiterInv => WindowBound
  BY DEF LimiterInv
<1> QED
  BY <1>1, LimiterInductive, PTL

(* A request is turned away only when the window that ends now is full of  *)
(* accepted ones.                                                          *)
THEOREM NoIdleRejection == GatewaySpec => RejectedOnlyWhenFull
<1> DEFINE Full == clock' = clock /\ answer' # NoAnswer /\ answer'.limited =>
                     Cardinality(AcceptedIn(answer'.client, clock)) = MaxRequests
<1>1. ASSUME LimiterInv, GatewayNext PROVE Full
  <2>1. CASE ClockTicks
    BY <1>1, <2>1 DEF ClockTicks, LimiterInv, GatewayTypeOK
  <2>2. ASSUME NEW c \in Client, Reject(c) PROVE Full
    <3>1. answer'.client = c
      BY <2>2 DEF Reject, Give
    <3>2. Remaining(c) = AcceptedIn(c, clock)
      BY <1>1, RemainingIsWindow DEF LimiterInv
    <3>3. IsFiniteSet(AcceptedIn(c, clock))
      BY <1>1, FS_Subset DEF LimiterInv, KeptIsWindow, AcceptedIn
    <3>4. Cardinality(AcceptedIn(c, clock)) \in Nat
      BY <3>3, FS_CardinalityType
    <3>5. Cardinality(AcceptedIn(c, clock)) >= MaxRequests
      BY <2>2, <3>2 DEF Reject, Over
    <3>6. Cardinality(AcceptedIn(c, clock)) <= MaxRequests
      BY <1>1 DEF LimiterInv, GatewayTypeOK, WindowBound
    <3> QED
      BY <3>1, <3>4, <3>5, <3>6, LimitAssumption
  <2>3. ASSUME NEW c \in Client, NEW o \in Outcome, Accept(c, o) PROVE Full
    BY <2>3 DEF Accept, Give
  <2> QED
    BY <1>1, <2>1, <2>2, <2>3 DEF GatewayNext
<1>2. LimiterInv /\ [GatewayNext]_gatewayVars => [Full]_gatewayVars
  BY <1>1
<1> QED
  BY <1>2, LimiterInductive, PTL DEF GatewaySpec, RejectedOnlyWhenFull
=============================================================================
