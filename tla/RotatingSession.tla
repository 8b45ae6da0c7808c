--------------------------- MODULE RotatingSession ---------------------------
(***************************************************************************)
(* What refresh-token rotation promises, without requests, transactions or *)
(* a blocklist: a login opens a session with one good credential, and      *)
(* exchanging the good credential of a session makes a credential never    *)
(* seen before the good one, for ever.  A session is named by the          *)
(* credential it was opened with.                                          *)
(***************************************************************************)
CONSTANTS Pair, None

VARIABLES
  good,     \* good[s]: the good credential of session s, None before it opens
  spent     \* the credentials that were exchanged

Unused(p) == p \notin spent /\ \A s \in Pair : good[s] # p

Init ==
  /\ good = [s \in Pair |-> None]
  /\ spent = {}

Open(s) ==
  /\ good[s] = None
  /\ Unused(s)
  /\ good' = [good EXCEPT ![s] = s]
  /\ UNCHANGED spent

Rotate(s, p) ==
  /\ good[s] # None
  /\ Unused(p)
  /\ good' = [good EXCEPT ![s] = p]
  /\ spent' = spent \cup {good[s]}

Next == \E s \in Pair : Open(s) \/ \E p \in Pair : Rotate(s, p)

Spec == Init /\ [][Next]_<<good, spent>>
=============================================================================
