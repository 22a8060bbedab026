---------------------------- MODULE PolicyStore ----------------------------
(***************************************************************************)
(* The tables of PolicyTables as they change: the statements of AdminDAO   *)
(* behind the AdminService, and the SQL an operator types by hand for what *)
(* the service offers no call for.                                         *)
(*                                                                         *)
(* hist is the sequence of committed states.  Every query of PermissionDAO *)
(* is one autocommitted SELECT on a connection of its own, so it sees the  *)
(* last element of hist; every change is one committing statement, except  *)
(* the publication of a version, which PublishPolicy shows to be atomic.   *)
(***************************************************************************)
EXTENDS PolicyTables, Sequences

CONSTANTS
    FirstState,   \* the tables at the start
    Edits,        \* the kinds of changes that are made
    MaxCommits    \* bound on the number of changes

\* The changes the AdminService makes, and those made with SQL.
ApiEdits == {"create_role", "create_permission", "bind", "grant", "own", "publish"}
SqlEdits == {"switch_app", "switch_role", "switch_permission", "switch_resource",
             "revoke", "switch_shortcut"}

ASSUME FirstStateAssumption == FirstState \in PolicyState /\ FirstState.version > 0
ASSUME EditsAssumption == Edits \subseteq ApiEdits \cup SqlEdits /\ MaxCommits \in Nat

VARIABLE hist

Now == hist[Len(hist)]

HistoryOK == hist \in Seq(PolicyState) /\ Len(hist) > 0

-----------------------------------------------------------------------------
(* The statements that change the tables.                                  *)

Write(kind, d) ==
    /\ kind \in Edits
    /\ Len(hist) <= MaxCommits
    /\ hist' = Append(hist, d)

\* createRole: the unique key of ny_roles refuses a second row.
CreateRole ==
    \E r \in Roles :
        /\ Now.app # "absent" /\ Now.role[r] = "absent"
        /\ Write("create_role", [Now EXCEPT !.role[r] = "on"])

\* createPermission: the owner shortcut is chosen when the row is inserted.
CreatePermission ==
    \E p \in Perms, flag \in BOOLEAN :
        /\ Now.app # "absent" /\ Now.perm[p] = "absent"
        /\ Write("create_permission",
                 [Now EXCEPT !.perm[p] = "on",
                             !.shortcut = (@ \ {p}) \cup {q \in {p} : flag}])

\* bindPermissionToRole: neither row needs to be enabled.
BindPermissionToRole ==
    \E r \in Roles, p \in Perms :
        /\ Now.app # "absent" /\ Now.role[r] # "absent" /\ Now.perm[p] # "absent"
        /\ <<r, p>> \notin Now.binds
        /\ Write("bind", [Now EXCEPT !.binds = @ \cup {<<r, p>>}])

\* grantRoleToUser
GrantRoleToUser ==
    \E u \in Users, r \in Roles :
        /\ Now.app # "absent" /\ Now.role[r] # "absent"
        /\ <<u, r>> \notin Now.grants
        /\ Write("grant", [Now EXCEPT !.grants = @ \cup {<<u, r>>}])

\* upsertResourceOwner: a registered resource changes hands and is enabled.
SetResourceOwner ==
    \E x \in Resources, u \in Users :
        /\ Now.app # "absent"
        /\ <<Now.resource[x], Now.owner[x]>> # <<"on", u>>
        /\ Write("own", [Now EXCEPT !.resource[x] = "on", !.owner[x] = u])

\* The COMMIT of PublishPolicyTransaction, as the tables above see it.
PublishPolicy ==
    /\ Now.app = "on"
    /\ Write("publish", [Now EXCEPT !.version = @ + 1])

Switched(status) == IF status = "on" THEN "off" ELSE "on"

SwitchApp ==
    /\ Now.app # "absent"
    /\ Write("switch_app", [Now EXCEPT !.app = Switched(@)])

SwitchRole ==
    \E r \in Roles :
        /\ Now.role[r] # "absent"
        /\ Write("switch_role", [Now EXCEPT !.role[r] = Switched(@)])

SwitchPermission ==
    \E p \in Perms :
        /\ Now.perm[p] # "absent"
        /\ Write("switch_permission", [Now EXCEPT !.perm[p] = Switched(@)])

SwitchResource ==
    \E x \in Resources :
        /\ Now.resource[x] # "absent"
        /\ Write("switch_resource", [Now EXCEPT !.resource[x] = Switched(@)])

SwitchShortcut ==
    \E p \in Perms :
        /\ Now.perm[p] # "absent"
        /\ Write("switch_shortcut",
                 [Now EXCEPT !.shortcut = IF p \in @ THEN @ \ {p} ELSE @ \cup {p}])

\* DELETE of a grant or of a binding: no call of the service revokes anything.
Revoke ==
    \/ \E g \in Now.grants : Write("revoke", [Now EXCEPT !.grants = @ \ {g}])
    \/ \E b \in Now.binds : Write("revoke", [Now EXCEPT !.binds = @ \ {b}])

ApiChange ==
    \/ CreateRole \/ CreatePermission \/ BindPermissionToRole
    \/ GrantRoleToUser \/ SetResourceOwner \/ PublishPolicy

SqlChange ==
    \/ SwitchApp \/ SwitchRole \/ SwitchPermission \/ SwitchResource
    \/ SwitchShortcut \/ Revoke

Change == ApiChange \/ SqlChange

\* What any call of the AdminService leaves of a state: rows are added and
\* resources change hands, nothing is taken away, disabled or enabled again
\* (except a resource that gets a new owner).
OnlyAdds(d, e) ==
    /\ e.app = d.app /\ d.binds \subseteq e.binds /\ d.grants \subseteq e.grants
    /\ \A r \in Roles : d.role[r] \in {"absent", e.role[r]}
    /\ \A p \in Perms :
          \/ d.perm[p] = "absent"
          \/ e.perm[p] = d.perm[p] /\ (p \in d.shortcut) = (p \in e.shortcut)
    /\ \A x \in Resources : d.resource[x] # "on" \/ e.resource[x] = "on"
=============================================================================
