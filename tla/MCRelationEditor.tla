-------------------------- MODULE MCRelationEditor --------------------------
(* Two items, the wildcard among them; two overlapping saves, or three single requests on
   the screens that send no more than one request at a press; one change by another client
   or one failing request. *)
EXTENDS RelationEditor

CONSTANTS admin, p

MCItem == {admin, p}
MCPresses == [e \in Editors |-> IF e \in Dialogs \cup Batches THEN 2 ELSE 3]
=============================================================================
