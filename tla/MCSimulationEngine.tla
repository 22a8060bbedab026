------------------------- MODULE MCSimulationEngine -------------------------
(* SimulationEngine for TLC: small tables in which one role is disabled.     *)
EXTENDS SimulationEngine, FiniteSets

First(S) == CHOOSE x \in S : TRUE
MCPermType == [p \in Perms |-> IF p = First(Perms) THEN AnyType ELSE First(Types)]
MCResourceType ==
    [x \in Resources |-> CHOOSE t \in Types : Cardinality(Types) > 1 => t # First(Types)]

\* One role holds the permissions and nobody has it; one user has the other
\* one, which is disabled.
OneDisabled ==
    [app |-> "on", version |-> 1,
     role |-> [r \in Roles |-> IF r = First(Roles) THEN "on" ELSE "off"],
     perm |-> [p \in Perms |-> "on"],
     resource |-> [x \in Resources |-> "on"],
     shortcut |-> Perms,
     binds |-> {First(Roles)} \X Perms,
     grants |-> {First(Users)} \X (Roles \ {First(Roles)}),
     owner |-> [x \in Resources |-> First(Users)]]
=============================================================================
