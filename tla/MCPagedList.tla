---------------------------- MODULE MCPagedList ----------------------------
(* Two rows, one or two to a page, a text that finds all and one that finds one. *)
EXTENDS PagedList

CONSTANTS all, some

MCMatches == [t \in {all, some} |-> IF t = all THEN {1, 2} ELSE {2}]
=============================================================================
