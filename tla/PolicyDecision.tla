--------------------------- MODULE PolicyDecision ---------------------------
(***************************************************************************)
(* The decision on a request, as a function of one state of the policy:    *)
(* what DecisionEngine::Evaluate answers when nothing changes or fails     *)
(* while it queries the tables.                                            *)
(***************************************************************************)
EXTENDS PolicyTables

CONSTANTS
    NoResource,   \* a request that names no resource
    Types,        \* resource types
    AnyType,      \* the empty resource_type of a permission
    PermType,     \* ny_permissions.resource_type
    ResourceType  \* the type of each resource

ASSUME TypesAssumption ==
    /\ NoResource \notin Resources
    /\ AnyType \notin Types
    /\ PermType \in [Perms -> Types \cup {AnyType}]
    /\ ResourceType \in [Resources -> Types]

Requests == [user : Users, perm : Perms, resource : Resources \cup {NoResource}]

Codes == {"OK", "APP_NOT_FOUND", "APP_DISABLED", "PERMISSION_NOT_FOUND",
          "RESOURCE_NOT_FOUND", "PERMISSION_DENIED", "USER_HAS_NO_ROLE",
          "INVALID_ARGUMENT", "NONE"}

\* deny_code, matched_roles and owner_shortcut_used of a result.
Answer == [code : Codes, matched : SUBSET Roles, owner : BOOLEAN]
NoAnswer == [code |-> "NONE", matched |-> {}, owner |-> FALSE]
Denial(code) == [code |-> code, matched |-> {}, owner |-> FALSE]
Permit(matched) == [code |-> "OK", matched |-> matched, owner |-> FALSE]
OwnerPermit == [code |-> "OK", matched |-> {}, owner |-> TRUE]

Mismatch(r) ==
    /\ r.resource # NoResource
    /\ PermType[r.perm] \notin {AnyType, ResourceType[r.resource]}

-----------------------------------------------------------------------------
(* Evaluate and evaluateByRbac, every query made in state d.               *)

RbacDecision(d, r) ==
    IF UserRoles(d, r.user) = {} THEN Denial("USER_HAS_NO_ROLE")
    ELSE IF r.perm \in UserPermissions(d, r.user)
         THEN Permit(UserRoles(d, r.user) \cap RolesWithPermission(d, r.perm))
    ELSE Denial("PERMISSION_DENIED")

Decision(d, r) ==
    IF d.app = "absent" THEN Denial("APP_NOT_FOUND")
    ELSE IF d.app = "off" THEN Denial("APP_DISABLED")
    ELSE IF ~PermissionExists(d, r.perm) THEN Denial("PERMISSION_NOT_FOUND")
    ELSE IF Mismatch(r) THEN Denial("PERMISSION_DENIED")
    ELSE IF r.resource = NoResource THEN RbacDecision(d, r)
    ELSE IF ~ResourceEnabled(d, r.resource) THEN Denial("RESOURCE_NOT_FOUND")
    ELSE IF /\ OwnerShortcutEnabled(d, r.perm)
            /\ IsResourceOwner(d, r.resource, r.user)
         THEN OwnerPermit
    ELSE RbacDecision(d, r)
=============================================================================
