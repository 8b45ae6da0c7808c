---------------------------- MODULE MCRowDialogs ----------------------------
(* Three records, of which some may not exist yet, and three names. Of the groups and of the
   resources two names are protected (for the resources they stand for two of the five), of
   the roles, permissions and users one (for the users it stands for an address). *)
EXTENDS RowDialogs, TLC

MCReserved ==
  [s \in Screens |-> IF s \in {"groups", "resources"} THEN {"admin", "guest"} ELSE {"admin"}]

MCLogins == {{"read", "write"}, {"read", "delete"}, {"write", "delete"}, {"admin"}}

\* Bounds: at first at most one group has members, and where only one name is protected, a
\* second is still free. Either may change by a step.
MCInit ==
  /\ Init /\ Cardinality(members) <= 1
  /\ Cardinality(Reserved[screen]) = 1 => \A r \in Row : server[r] # "guest"
MCSpec == MCInit /\ [][Next]_vars

Rows == Permutations(Row)
=============================================================================
