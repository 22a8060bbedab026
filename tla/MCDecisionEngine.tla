-------------------------- MODULE MCDecisionEngine --------------------------
(* DecisionEngine for TLC: one user and small tables, several first states. *)
EXTENDS DecisionEngine, TLC

\* The first type goes with the first permission and with every resource.
First(S) == CHOOSE x \in S : TRUE
MCPermType == [p \in Perms |-> IF p = First(Perms) THEN AnyType ELSE First(Types)]
MCResourceType ==
    [x \in Resources |-> IF Types = {First(Types)} THEN First(Types)
                         ELSE First(Types \ {First(Types)})]

\* Every row is there and enabled, but nothing is bound, granted or owned.
Registered ==
    [app |-> "on", version |-> 1,
     role |-> [r \in Roles |-> "on"], perm |-> [p \in Perms |-> "on"],
     resource |-> [x \in Resources |-> "absent"],
     shortcut |-> Perms, binds |-> {}, grants |-> {},
     owner |-> [x \in Resources |-> NoUser]]

\* Every role is bound to every permission and granted to every user.
Granted == [Registered EXCEPT !.binds = Roles \X Perms, !.grants = Users \X Roles]

\* One role has the permissions, everybody has the others.
Separate ==
    [Registered EXCEPT !.binds = {First(Roles)} \X Perms,
                       !.grants = Users \X (Roles \ {First(Roles)})]

\* One role and one permission are registered, bound and granted.
Started ==
    [Registered EXCEPT
        !.role = [r \in Roles |-> IF r = First(Roles) THEN "on" ELSE "absent"],
        !.perm = [p \in Perms |-> IF p = First(Perms) THEN "on" ELSE "absent"],
        !.shortcut = {}, !.binds = {<<First(Roles), First(Perms)>>},
        !.grants = Users \X {First(Roles)}]

WorkerSymmetry == Permutations(Workers)
ThreadUserSymmetry == Permutations(Workers) \cup Permutations(Users)
=============================================================================
