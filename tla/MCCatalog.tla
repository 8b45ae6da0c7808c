------------------------------ MODULE MCCatalog ------------------------------
(* Small instance of Catalog: one default resource the migration inserts   *)
(* and one the first start adds, each with a default permission; one       *)
(* default permission whose resource is no default (errors.read), and the  *)
(* wildcard.  A created permission takes the name of a deleted one.        *)
EXTENDS Catalog, TLC

MCDefaultPerms ==
  [n \in {"admin", "users.read", "resources.read", "errors.read"} |->
     CASE n = "admin" -> "*" [] n = "users.read" -> "users"
       [] n = "resources.read" -> "resources" [] n = "errors.read" -> "errors"]

Keys == Permutations(ResourceId) \cup Permutations(PermissionId) \cup Permutations(Txn)
=============================================================================
