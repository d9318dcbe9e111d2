-------------------------------- MODULE MCRBAC --------------------------------
(* Constant values for model-checking RBAC. *)
EXTENDS RBAC, TLC

CONSTANTS u1, u2, editor, edit, q1, q2, c1

Symmetry == Permutations(Request)

\* The use cases that change what somebody may do.
AllOperations ==
    {"AssignRole", "RevokeRole", "GrantPermission", "RevokePermission",
     "SyncRolePermissions", "CreateRole", "CreatePermission", "DeleteRole",
     "DeletePermission", "UpdateRole", "UpdatePermission", "Bootstrap"}
=============================================================================
