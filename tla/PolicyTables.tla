---------------------------- MODULE PolicyTables ----------------------------
(***************************************************************************)
(* A state of the MySQL tables that hold the policy of one application,    *)
(* and the queries PermissionDAO and AdminDAO make of it.                  *)
(***************************************************************************)
EXTENDS Naturals

CONSTANTS
    Users, Roles, Perms, Resources,
    NoUser        \* owner of a resource that is not registered

\* The status of a row; a resource or an application may have none.
Status == {"absent", "off", "on"}

PolicyState ==
    [app : Status, version : Nat,
     role : [Roles -> Status], perm : [Perms -> Status],
     resource : [Resources -> Status],
     shortcut : SUBSET Perms,                \* owner_shortcut_enabled = 1
     binds : SUBSET (Roles \X Perms),        \* ny_role_permissions
     grants : SUBSET (Users \X Roles),       \* ny_user_roles
     owner : [Resources -> Users \cup {NoUser}]]

-----------------------------------------------------------------------------
(* The queries of PermissionDAO.                                           *)

\* getUserRoles
UserRoles(d, u) ==
    {r \in Roles : d.app = "on" /\ d.role[r] = "on" /\ <<u, r>> \in d.grants}

\* getUserPermissions
UserPermissions(d, u) ==
    {p \in Perms : d.perm[p] = "on" /\ \E r \in UserRoles(d, u) : <<r, p>> \in d.binds}

\* getRolesWithPermission
RolesWithPermission(d, p) ==
    {r \in Roles : /\ d.app = "on" /\ d.role[r] = "on" /\ d.perm[p] = "on"
                   /\ <<r, p>> \in d.binds}

\* permissionExists, and getPermissionInfo of an enabled permission
PermissionExists(d, p) == d.app = "on" /\ d.perm[p] = "on"

\* isOwnerShortcutEnabled
OwnerShortcutEnabled(d, p) == PermissionExists(d, p) /\ p \in d.shortcut

\* getResourceInfo of an enabled resource
ResourceEnabled(d, x) == d.app = "on" /\ d.resource[x] = "on"

\* isResourceOwner
IsResourceOwner(d, x, u) == ResourceEnabled(d, x) /\ d.owner[x] = u

-----------------------------------------------------------------------------
(* The queries of AdminDAO, which look for a row whatever its status.      *)

\* roleExists
RoleRegistered(d, r) == d.app # "absent" /\ d.role[r] # "absent"

\* permissionExists of AdminDAO
PermissionRegistered(d, p) == d.app # "absent" /\ d.perm[p] # "absent"

\* rolePermissionBindingExists
BindingRegistered(d, r, p) ==
    RoleRegistered(d, r) /\ PermissionRegistered(d, p) /\ <<r, p>> \in d.binds

\* userRoleBindingExists
GrantRegistered(d, u, r) == RoleRegistered(d, r) /\ <<u, r>> \in d.grants

\* The look-up of a resource row in upsertResourceOwner
ResourceRegistered(d, x) == d.app # "absent" /\ d.resource[x] # "absent"

\* getResourceOwner
RegisteredOwner(d, x) == IF ResourceRegistered(d, x) THEN d.owner[x] ELSE NoUser
=============================================================================
