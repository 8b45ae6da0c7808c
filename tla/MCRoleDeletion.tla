--------------------------- MODULE MCRoleDeletion ---------------------------
(* Symmetry of the keys of RoleDeletion; sound for the safety runs only.   *)
EXTENDS RoleDeletion, TLC

Keys == Permutations(User) \cup Permutations(Role \ {Guest}) \cup
        Permutations(Deleters) \cup Permutations(Txn \ Deleters)
=============================================================================
