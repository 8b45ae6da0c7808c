------------------------------ MODULE Gateway -------------------------------
(***************************************************************************)
(* What stands between a client and the endpoints: the sliding-window rate *)
(* limiter, the request-id middleware and the two exception handlers, in   *)
(* the order the application stacks them.                                  *)
(*                                                                         *)
(* The limiter's critical section has no await, so one request passes it   *)
(* in one step.  The list of time stamps it keeps for a client is a set of *)
(* [n, at] records: n tells requests of one instant apart and the order of *)
(* the list is never used.  Time does not go backwards.                    *)
(*                                                                         *)
(* The names that every component uses carry a prefix here, so that a      *)
(* module can extend this one together with a component behind the         *)
(* limiter.                                                                *)
(***************************************************************************)
EXTENDS Naturals, FiniteSets

CONSTANTS
  Client,          \* remote addresses
  Serial,          \* bound: requests the limiter accepts from one client
  MaxRequests,     \* rate_limit_requests
  Window,          \* rate_limit_window_seconds
  Horizon,         \* bound of the clock
  NoAnswer

ASSUME LimitAssumption ==
  /\ MaxRequests \in Nat \ {0}        \* 0 switches the limiter off
  /\ Window \in Nat \ {0}
  /\ Horizon \in Nat

VARIABLES
  clock,       \* time.time()
  kept,        \* _requests: the entries kept for each client
  accepted,    \* history: every entry that was ever recorded
  answer       \* the last answer given

gatewayVars == <<clock, kept, accepted, answer>>

Entry == [n : Serial, at : 0 .. Horizon]

(* How a request ends inside the application: with a response, with an     *)
(* HTTPException of the code, with a request FastAPI itself refuses (no    *)
(* such route, invalid body), or with any other exception.                 *)
Outcome == {"response", "refused", "invalid", "error"}

(* detail: the answer's body names the request id; logged: it goes to the  *)
(* error log; limited: the limiter raised.                                 *)
Answer ==
  [client : Client, status : {"200", "4xx", "429", "500"}, detail : BOOLEAN,
   logged : BOOLEAN, limited : BOOLEAN]

GatewayTypeOK ==
  /\ clock \in 0 .. Horizon
  /\ kept \in [Client -> SUBSET Entry]
  /\ accepted \in [Client -> SUBSET Entry]
  /\ answer \in Answer \cup {NoAnswer}

GatewayInit ==
  /\ clock = 0
  /\ kept = [c \in Client |-> {}]
  /\ accepted = [c \in Client |-> {}]
  /\ answer = NoAnswer

-----------------------------------------------------------------------------
(* The limiter *)

(* The operators with a suffix after their name are slips someone could    *)
(* make in the operator that follows; no action uses them.                 *)
InWindow_HalfOpen(e, t) == e.at + Window > t + 1

(* ts > now - window_seconds *)
InWindow(e, t) == e.at + Window > t

Remaining(c) == {e \in kept[c] : InWindow(e, clock)}

Over(c) == Cardinality(Remaining(c)) >= MaxRequests

-----------------------------------------------------------------------------
(* The handlers.  A layer passes on a result: a response, or an exception  *)
(* that nothing has handled yet.                                           *)

Response(s, withId) ==
  [raised |-> FALSE, status |-> s, detail |-> withId, logged |-> FALSE]

Raised(s) ==
  [raised |-> TRUE, status |-> s, detail |-> FALSE, logged |-> FALSE]

(* The exception handlers around the router: http_exception_handler is     *)
(* registered for the HTTPException of FastAPI alone.                      *)
Application(o) ==
  CASE o = "response" -> Response("200", FALSE)
    [] o = "refused"  -> Response("4xx", TRUE)
    [] o = "invalid"  -> Response("4xx", FALSE)
    [] o = "error"    -> Raised("none")

(* global_exception_handler, outside every middleware; hasId: the request  *)
(* got as far as RequestIDMiddleware, which gives it its id.               *)
CatchAll(r, hasId) ==
  IF r.raised THEN [r EXCEPT !.status = "500", !.detail = hasId, !.logged = TRUE] ELSE r

Give(c, r, limited) ==
  answer' = [client |-> c, status |-> r.status, detail |-> r.detail, logged |-> r.logged,
             limited |-> limited]

-----------------------------------------------------------------------------
(* Requests *)

(* The limiter is the outermost middleware.                                *)
Reject_Recorded(c) ==
  /\ Over(c)
  /\ \E n \in Serial :
       /\ \A e \in kept[c] : e.n # n
       /\ kept' = [kept EXCEPT ![c] = Remaining(c) \cup {[n |-> n, at |-> clock]}]
  /\ Give(c, CatchAll(Raised("429"), FALSE), TRUE)
  /\ UNCHANGED <<clock, accepted>>

Reject(c) ==
  /\ Over(c)
  /\ kept' = [kept EXCEPT ![c] = Remaining(c)]
  /\ Give(c, CatchAll(Raised("429"), FALSE), TRUE)
  /\ UNCHANGED <<clock, accepted>>

Accept(c, o) ==
  /\ ~Over(c)
  /\ \E n \in Serial :
       /\ \A e \in accepted[c] : e.n # n
       /\ kept' = [kept EXCEPT ![c] = Remaining(c) \cup {[n |-> n, at |-> clock]}]
       /\ accepted' = [accepted EXCEPT ![c] = @ \cup {[n |-> n, at |-> clock]}]
  /\ Give(c, CatchAll(Application(o), TRUE), FALSE)
  /\ UNCHANGED clock

ClockTicks ==
  /\ clock < Horizon
  /\ clock' = clock + 1
  /\ UNCHANGED <<kept, accepted, answer>>

GatewayNext ==
  \/ \E c \in Client : Reject(c) \/ \E o \in Outcome : Accept(c, o)
  \/ ClockTicks

GatewaySpec == GatewayInit /\ [][GatewayNext]_gatewayVars

-----------------------------------------------------------------------------
(* Properties *)

AcceptedIn(c, t) == {e \in accepted[c] : e.at <= t /\ t < e.at + Window}

(* In no window of time, wherever it ends, does the limiter let more than  *)
(* MaxRequests requests of one client through, although it forgets entries *)
(* and keeps no record of the requests it turned away.                     *)
WindowBound == \A c \in Client, t \in 0 .. Horizon : Cardinality(AcceptedIn(c, t)) <= MaxRequests

(* Nor does it turn a request away unless the window that ends now is full *)
(* of accepted ones: rejected requests do not prolong the wait.            *)
RejectedOnlyWhenFull ==
  [][clock' = clock /\ answer' # NoAnswer /\ answer'.limited =>
       Cardinality(AcceptedIn(answer'.client, clock)) = MaxRequests]_gatewayVars
=============================================================================
