-------------------------- MODULE MCSnapshotAgent --------------------------
(* SnapshotAgent for TLC: two policies that are decided differently.        *)
EXTENDS SnapshotAgent, TLC

First(S) == CHOOSE x \in S : TRUE
MCPermType == [p \in Perms |-> IF p = First(Perms) THEN AnyType ELSE First(Types)]
MCResourceType ==
    [x \in Resources |-> IF Types = {First(Types)} THEN First(Types)
                         ELSE First(Types \ {First(Types)})]

\* All rows enabled, bound and granted: a role permits.
ByRole ==
    [app |-> "on", version |-> 1,
     role |-> [r \in Roles |-> "on"], perm |-> [p \in Perms |-> "on"],
     resource |-> [x \in Resources |-> "on"], shortcut |-> {},
     binds |-> Roles \X Perms, grants |-> Users \X Roles,
     owner |-> [x \in Resources |-> First(Users)]]

\* The roles are off, the owner is somebody else and one of the permissions is on:
\* nothing permits, for one permission or another every section is asked.
Mixed == [ByRole EXCEPT !.role[First(Roles)] = "off", !.shortcut = Perms,
                        !.perm = [p \in Perms |-> IF p = First(Perms) THEN "on" ELSE "off"],
                        !.owner = [x \in Resources |-> NoUser]]

TwoPolicies == {ByRole, Mixed}

\* One request for each permission.
EveryPermission == {r \in Requests : r.resource # NoResource}
HandlerSymmetry == Permutations(Handlers)
=============================================================================
