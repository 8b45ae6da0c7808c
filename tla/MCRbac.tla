------------------------------- MODULE MCRbac -------------------------------
(* Small instance of Rbac.  Two of the four INITIAL_ROLES are the ones the *)
(* code singles out; editor stands for the ordinary ones.  Of the          *)
(* permissions an endpoint asks for, users.write is seeded and             *)
(* permissions.write may be created.                                       *)
EXTENDS Rbac, TLC

MCEmail == {"root@", "guest@", "other@"}
MCUsername == {"root", "visitor", "other"}
MCRoleName == {"admin", "guest", "editor"}
MCGroupName == {"admin", "guest", "team"}
MCPermName == {"admin", "users.write", "permissions.write"}
MCInitialRoles == {"admin", "guest"}
MCDefaultPerms == {"admin", "users.write"}
MCDefaultRolePerms == [n \in MCInitialRoles |-> IF n = "admin" THEN {"admin"} ELSE {}]

Keys == Permutations(UserId) \cup Permutations(RoleId) \cup Permutations(GroupId)
=============================================================================
