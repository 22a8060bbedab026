--------------------------- MODULE MCAdminManager ---------------------------
(* AdminManager for TLC: nearly empty tables, so that every row is created. *)
EXTENDS AdminManager, TLC

First(S) == CHOOSE x \in S : TRUE

\* One of two roles and of two permissions, and a resource that is disabled.
HalfOfThem ==
    [app |-> "on", version |-> 1,
     role |-> [r \in Roles |-> IF r = "r1" THEN "on" ELSE "absent"],
     perm |-> [p \in Perms |-> IF p = "p1" THEN "on" ELSE "absent"],
     resource |-> [x \in Resources |-> IF x = "x1" THEN "off" ELSE "absent"],
     shortcut |-> {}, binds |-> {}, grants |-> {},
     owner |-> [x \in Resources |-> IF x = "x1" THEN "u1" ELSE NoUser]]

\* One edit of each kind, and the owners of both resources: one changes hands, the other
\* is new.
OneOfEach ==
    {RoleCreation("r2"), PermissionCreation("p2"), PermissionBinding("r1", "p1"),
     RoleGrant("u1", "r1"), OwnerSetting("x1", "u2"), OwnerSetting("x2", "u1")}

HandlerSymmetry == Permutations(Handlers)
=============================================================================
