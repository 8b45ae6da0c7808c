---------------------------- MODULE MCWebSession ----------------------------
(* Two tabs, two people, two logins, two requests under way at a time. *)
EXTENDS WebSession

CONSTANTS t1, t2, ann, bob

MCTab == {t1, t2}
MCUser == {ann, bob}
=============================================================================
