------------------------- MODULE PolicyStore_proofs -------------------------
(***************************************************************************)
(* Facts about the policy tables that the proofs about their readers use.  *)
(***************************************************************************)
EXTENDS PolicyStore, TLAPS

\* Committed states stay where they are in the history, and the policy version
\* never goes down.
Grows ==
    /\ HistoryOK'
    /\ Len(hist') \in {Len(hist), Len(hist) + 1}
    /\ \A i \in 1 .. Len(hist) : hist'[i] = hist[i]
    /\ Now.version <= Now'.version

LEMMA NowIsAState ==
    ASSUME HistoryOK
    PROVE  /\ Len(hist) \in Nat \ {0} /\ Len(hist) \in 1 .. Len(hist)
           /\ Now \in PolicyState /\ Now.version \in Nat
<1>1. Len(hist) \in Nat \ {0} /\ Len(hist) \in 1 .. Len(hist)
    BY DEF HistoryOK
<1>2. Now \in PolicyState
    BY <1>1 DEF HistoryOK, Now
<1> QED BY <1>1, <1>2 DEF PolicyState

LEMMA WriteGrows ==
    ASSUME HistoryOK, NEW kind, NEW d \in PolicyState, Now.version <= d.version,
           Write(kind, d)
    PROVE  Grows
<1>1. hist' = Append(hist, d)
    BY DEF Write
<1>2. /\ hist' \in Seq(PolicyState) /\ Len(hist') = Len(hist) + 1
      /\ \A i \in 1 .. Len(hist) : hist'[i] = hist[i]
      /\ hist'[Len(hist) + 1] = d
    BY <1>1 DEF HistoryOK
<1> QED BY <1>2, NowIsAState DEF Grows, HistoryOK, Now

\* Every change of the tables, by the service or with SQL, commits a well-formed
\* state; only a publication changes the version, and it raises it.
LEMMA ChangeGrows == HistoryOK /\ Change => Grows
<1> SUFFICES ASSUME HistoryOK, Change PROVE Grows
    OBVIOUS
<1>0. Now \in PolicyState /\ Now.version \in Nat
    BY NowIsAState
<1> USE DEF PolicyState, Status
<1>1. CASE CreateRole
    BY <1>0, <1>1, WriteGrows DEF CreateRole
<1>2. CASE CreatePermission
    <2>1. PICK p \in Perms, flag \in BOOLEAN :
             Write("create_permission",
                   [Now EXCEPT !.perm[p] = "on",
                               !.shortcut = (@ \ {p}) \cup {q \in {p} : flag}])
        BY <1>2 DEF CreatePermission
    <2>2. (Now.shortcut \ {p}) \cup {q \in {p} : flag} \in SUBSET Perms
        BY <1>0
    <2>3. [Now EXCEPT !.perm[p] = "on",
                      !.shortcut = (@ \ {p}) \cup {q \in {p} : flag}] =
          [Now EXCEPT !.perm = [@ EXCEPT ![p] = "on"],
                      !.shortcut = (Now.shortcut \ {p}) \cup {q \in {p} : flag}]
        BY <1>0
    <2>4. [Now.perm EXCEPT ![p] = "on"] \in [Perms -> Status]
        BY <1>0
    <2> DEFINE flags == (Now.shortcut \ {p}) \cup {q \in {p} : flag}
               d == [Now EXCEPT !.perm = [@ EXCEPT ![p] = "on"], !.shortcut = flags]
    <2>5. d \in PolicyState /\ d.version = Now.version
        <3> HIDE DEF flags
        <3> QED BY <1>0, <2>2, <2>4 DEF flags
    <2>6. Write("create_permission", d)
        BY <2>1, <2>3
    <2> HIDE DEF d
    <2> QED BY <1>0, <2>5, <2>6, WriteGrows
<1>3. CASE BindPermissionToRole
    BY <1>0, <1>3, WriteGrows DEF BindPermissionToRole
<1>4. CASE GrantRoleToUser
    BY <1>0, <1>4, WriteGrows DEF GrantRoleToUser
<1>5. CASE SetResourceOwner
    <2>1. PICK x \in Resources, u \in Users :
             Write("own", [Now EXCEPT !.resource[x] = "on", !.owner[x] = u])
        BY <1>5 DEF SetResourceOwner
    <2> DEFINE d == [Now EXCEPT !.resource[x] = "on", !.owner[x] = u]
    <2>2. d = [Now EXCEPT !.resource = [Now.resource EXCEPT ![x] = "on"],
                          !.owner = [Now.owner EXCEPT ![x] = u]]
        BY <1>0
    <2>3. /\ [Now.resource EXCEPT ![x] = "on"] \in [Resources -> Status]
          /\ [Now.owner EXCEPT ![x] = u] \in [Resources -> Users \cup {NoUser}]
        BY <1>0
    <2>4. d \in PolicyState /\ d.version = Now.version
        BY <1>0, <2>2, <2>3
    <2>5. Write("own", d)
        BY <2>1
    <2> HIDE DEF d
    <2> QED BY <1>0, <2>4, <2>5, WriteGrows
<1>6. CASE PublishPolicy
    BY <1>0, <1>6, WriteGrows DEF PublishPolicy
<1>7. CASE SwitchApp
    BY <1>0, <1>7, WriteGrows DEF SwitchApp, Switched
<1>8. CASE SwitchRole
    BY <1>0, <1>8, WriteGrows DEF SwitchRole, Switched
<1>9. CASE SwitchPermission
    BY <1>0, <1>9, WriteGrows DEF SwitchPermission, Switched
<1>10. CASE SwitchResource
    BY <1>0, <1>10, WriteGrows DEF SwitchResource, Switched
<1>11. CASE SwitchShortcut
    BY <1>0, <1>11, WriteGrows DEF SwitchShortcut
<1>12. CASE Revoke
    <2>1. ASSUME NEW g \in Now.grants,
                 Write("revoke", [Now EXCEPT !.grants = @ \ {g}])
          PROVE  Grows
        BY <1>0, <2>1, WriteGrows
    <2>2. ASSUME NEW b \in Now.binds,
                 Write("revoke", [Now EXCEPT !.binds = @ \ {b}])
          PROVE  Grows
        BY <1>0, <2>2, WriteGrows
    <2> QED BY <1>12, <2>1, <2>2 DEF Revoke
<1> QED
    BY <1>1, <1>2, <1>3, <1>4, <1>5, <1>6, <1>7, <1>8, <1>9, <1>10, <1>11, <1>12
       DEF Change, ApiChange, SqlChange

\* A change appends one state to the history.
LEMMA ChangeAppends == HistoryOK /\ Change => Len(hist') = Len(hist) + 1
<1>1. ASSUME HistoryOK, NEW kind, NEW d, Write(kind, d) PROVE Len(hist') = Len(hist) + 1
    BY <1>1 DEF Write, HistoryOK
<1>2. Change => \E kind, d : Write(kind, d)
    BY DEF Change, ApiChange, SqlChange, CreateRole, CreatePermission,
        BindPermissionToRole, GrantRoleToUser, SetResourceOwner, PublishPolicy,
        SwitchApp, SwitchRole, SwitchPermission, SwitchResource, SwitchShortcut, Revoke
<1> QED BY <1>1, <1>2

\* Rows of applications, roles, permissions and resources are switched off, but
\* never deleted, and the application is never registered later.
RowsKept ==
    /\ Now.app = "absent" <=> Now'.app = "absent"
    /\ \A r \in Roles : Now.role[r] # "absent" => Now'.role[r] # "absent"
    /\ \A p \in Perms : Now.perm[p] # "absent" => Now'.perm[p] # "absent"
    /\ \A x \in Resources : Now.resource[x] # "absent" => Now'.resource[x] # "absent"

LEMMA WriteNow ==
    ASSUME HistoryOK, NEW kind, NEW d, Write(kind, d)
    PROVE  Now' = d /\ hist' = Append(hist, d) /\ Len(hist') = Len(hist) + 1
BY DEF Write, HistoryOK, Now

LEMMA ChangeKeepsRows == HistoryOK /\ Change => RowsKept
<1> SUFFICES ASSUME HistoryOK, Change PROVE RowsKept
    OBVIOUS
<1>0. Now \in PolicyState
    BY NowIsAState
<1> USE DEF PolicyState, Status, RowsKept
<1>1. CASE CreateRole
    BY <1>0, <1>1, WriteNow DEF CreateRole
<1>2. CASE CreatePermission
    <2>1. PICK p \in Perms, flag \in BOOLEAN :
             Write("create_permission",
                   [Now EXCEPT !.perm[p] = "on",
                               !.shortcut = (@ \ {p}) \cup {q \in {p} : flag}])
        BY <1>2 DEF CreatePermission
    <2> DEFINE flags == (Now.shortcut \ {p}) \cup {q \in {p} : flag}
    <2>2. Now' = [Now EXCEPT !.perm[p] = "on", !.shortcut = flags]
        BY <1>0, <2>1, WriteNow
    <2> HIDE DEF flags
    <2>3. /\ Now'.app = Now.app /\ Now'.role = Now.role /\ Now'.resource = Now.resource
          /\ Now'.perm = [Now.perm EXCEPT ![p] = "on"]
        BY <1>0, <2>2
    <2> HIDE DEF Now
    <2> QED BY <1>0, <2>3
<1>3. CASE BindPermissionToRole
    BY <1>0, <1>3, WriteNow DEF BindPermissionToRole
<1>4. CASE GrantRoleToUser
    BY <1>0, <1>4, WriteNow DEF GrantRoleToUser
<1>5. CASE SetResourceOwner
    <2>1. PICK x \in Resources, u \in Users :
             Write("own", [Now EXCEPT !.resource[x] = "on", !.owner[x] = u])
        BY <1>5 DEF SetResourceOwner
    <2>2. Now' = [Now EXCEPT !.resource[x] = "on", !.owner[x] = u]
        BY <2>1, WriteNow
    <2>3. /\ Now'.app = Now.app /\ Now'.role = Now.role /\ Now'.perm = Now.perm
          /\ Now'.resource = [Now.resource EXCEPT ![x] = "on"]
        BY <1>0, <2>2
    <2> QED BY <1>0, <2>3
<1>6. CASE PublishPolicy
    BY <1>0, <1>6, WriteNow DEF PublishPolicy
<1>7. CASE SwitchApp
    BY <1>0, <1>7, WriteNow DEF SwitchApp, Switched
<1>8. CASE SwitchRole
    BY <1>0, <1>8, WriteNow DEF SwitchRole, Switched
<1>9. CASE SwitchPermission
    BY <1>0, <1>9, WriteNow DEF SwitchPermission, Switched
<1>10. CASE SwitchResource
    BY <1>0, <1>10, WriteNow DEF SwitchResource, Switched
<1>11. CASE SwitchShortcut
    BY <1>0, <1>11, WriteNow DEF SwitchShortcut
<1>12. CASE Revoke
    <2>1. ASSUME NEW g \in Now.grants,
                 Write("revoke", [Now EXCEPT !.grants = @ \ {g}])
          PROVE  RowsKept
        BY <1>0, <2>1, WriteNow
    <2>2. ASSUME NEW b \in Now.binds,
                 Write("revoke", [Now EXCEPT !.binds = @ \ {b}])
          PROVE  RowsKept
        <3>1. Now' = [Now EXCEPT !.binds = @ \ {b}]
            BY <2>2, WriteNow
        <3>2. /\ Now'.app = Now.app /\ Now'.role = Now.role /\ Now'.perm = Now.perm
              /\ Now'.resource = Now.resource
            BY <1>0, <3>1
        <3> QED BY <3>2
    <2> QED BY <1>12, <2>1, <2>2 DEF Revoke
<1> QED
    BY <1>1, <1>2, <1>3, <1>4, <1>5, <1>6, <1>7, <1>8, <1>9, <1>10, <1>11, <1>12
       DEF Change, ApiChange, SqlChange

\* What the queries listed stays listed when rows are only added.
LEMMA OnlyAddsFacts ==
    ASSUME NEW d, NEW e, OnlyAdds(d, e), NEW u
    PROVE  /\ UserRoles(d, u) \subseteq UserRoles(e, u)
           /\ UserPermissions(d, u) \subseteq UserPermissions(e, u)
           /\ \A r \in Roles : RoleRegistered(d, r) => RoleRegistered(e, r)
           /\ \A p \in Perms : PermissionRegistered(d, p) => PermissionRegistered(e, p)
<1>1. UserRoles(d, u) \subseteq UserRoles(e, u)
    BY DEF OnlyAdds, UserRoles
<1> QED BY <1>1 DEF OnlyAdds, UserPermissions, RoleRegistered, PermissionRegistered

LEMMA OnlyAddsToPermission ==
    ASSUME NEW d, NEW e, OnlyAdds(d, e), NEW p \in Perms
    PROVE  /\ RolesWithPermission(d, p) \subseteq RolesWithPermission(e, p)
           /\ OwnerShortcutEnabled(d, p) => OwnerShortcutEnabled(e, p)
<1>1. d.perm[p] = "on" => e.perm[p] = "on" /\ (p \in d.shortcut => p \in e.shortcut)
    BY DEF OnlyAdds
<1> QED BY <1>1 DEF OnlyAdds, RolesWithPermission, OwnerShortcutEnabled, PermissionExists

LEMMA OnlyAddsTrans ==
    ASSUME NEW d, NEW e, NEW f, OnlyAdds(d, e), OnlyAdds(e, f)
    PROVE  OnlyAdds(d, f)
BY DEF OnlyAdds

LEMMA OnlyAddsRefl ==
    ASSUME NEW d
    PROVE  OnlyAdds(d, d)
BY DEF OnlyAdds

\* The AdminService has no call that takes a row or a right away: whatever it
\* is asked, each of its changes only adds.
THEOREM ServiceOnlyAdds == HistoryOK /\ ApiChange => OnlyAdds(Now, Now')
<1> SUFFICES ASSUME HistoryOK, ApiChange PROVE OnlyAdds(Now, Now')
    OBVIOUS
<1>0. Now \in PolicyState
    BY NowIsAState
<1> USE DEF PolicyState
<1>1. CASE CreateRole
    <2>1. PICK r \in Roles :
             Now.role[r] = "absent" /\ Write("create_role", [Now EXCEPT !.role[r] = "on"])
        BY <1>1 DEF CreateRole
    <2>2. Now' = [Now EXCEPT !.role[r] = "on"]
        BY <2>1, WriteNow
    <2> HIDE DEF Now
    <2> QED BY <1>0, <2>1, <2>2 DEF OnlyAdds
<1>2. CASE CreatePermission
    <2>1. PICK p \in Perms, flag \in BOOLEAN :
             /\ Now.perm[p] = "absent"
             /\ Write("create_permission",
                      [Now EXCEPT !.perm[p] = "on",
                                  !.shortcut = (@ \ {p}) \cup {q \in {p} : flag}])
        BY <1>2 DEF CreatePermission
    <2> DEFINE flags == (Now.shortcut \ {p}) \cup {q \in {p} : flag}
    <2>2. Now' = [Now EXCEPT !.perm[p] = "on", !.shortcut = flags]
        BY <1>0, <2>1, WriteNow
    <2>3. \A q \in Perms : q # p => (q \in Now.shortcut) = (q \in flags)
        OBVIOUS
    <2> HIDE DEF flags
    <2>4. /\ Now'.app = Now.app /\ Now'.role = Now.role /\ Now'.resource = Now.resource
          /\ Now'.binds = Now.binds /\ Now'.grants = Now.grants
          /\ Now'.perm = [Now.perm EXCEPT ![p] = "on"] /\ Now'.shortcut = flags
        BY <1>0, <2>2
    <2> HIDE DEF Now
    <2> QED BY <1>0, <2>1, <2>3, <2>4 DEF OnlyAdds
<1>3. CASE BindPermissionToRole
    <2>1. PICK b \in Roles \X Perms : Write("bind", [Now EXCEPT !.binds = @ \cup {b}])
        BY <1>3 DEF BindPermissionToRole
    <2>2. Now' = [Now EXCEPT !.binds = @ \cup {b}]
        BY <2>1, WriteNow
    <2> HIDE DEF Now
    <2> QED BY <1>0, <2>2 DEF OnlyAdds
<1>4. CASE GrantRoleToUser
    <2>1. PICK g \in Users \X Roles : Write("grant", [Now EXCEPT !.grants = @ \cup {g}])
        BY <1>4 DEF GrantRoleToUser
    <2>2. Now' = [Now EXCEPT !.grants = @ \cup {g}]
        BY <2>1, WriteNow
    <2> HIDE DEF Now
    <2> QED BY <1>0, <2>2 DEF OnlyAdds
<1>5. CASE SetResourceOwner
    <2>1. PICK x \in Resources, u \in Users :
             Write("own", [Now EXCEPT !.resource[x] = "on", !.owner[x] = u])
        BY <1>5 DEF SetResourceOwner
    <2>2. Now' = [Now EXCEPT !.resource[x] = "on", !.owner[x] = u]
        BY <2>1, WriteNow
    <2>3. /\ Now'.app = Now.app /\ Now'.role = Now.role /\ Now'.perm = Now.perm
          /\ Now'.shortcut = Now.shortcut
          /\ Now'.binds = Now.binds /\ Now'.grants = Now.grants
          /\ Now'.resource = [Now.resource EXCEPT ![x] = "on"]
        BY <1>0, <2>2
    <2> HIDE DEF Now
    <2> QED BY <1>0, <2>3 DEF OnlyAdds
<1>6. CASE PublishPolicy
    <2>1. Write("publish", [Now EXCEPT !.version = @ + 1])
        BY <1>6 DEF PublishPolicy
    <2>2. Now' = [Now EXCEPT !.version = @ + 1]
        BY <2>1, WriteNow
    <2> HIDE DEF Now
    <2> QED BY <1>0, <2>2 DEF OnlyAdds
<1> QED BY <1>1, <1>2, <1>3, <1>4, <1>5, <1>6 DEF ApiChange

\* With the operator's SQL left out, every change is one of the service.
LEMMA ServiceChange ==
    ASSUME Edits \subseteq ApiEdits, Change
    PROVE  ApiChange
<1>1. ASSUME NEW kind \in SqlEdits, NEW d, Write(kind, d) PROVE FALSE
    BY <1>1 DEF Write, ApiEdits, SqlEdits
<1>2. SqlChange => \E kind \in SqlEdits : \E d : Write(kind, d)
    BY DEF SqlChange, SwitchApp, SwitchRole, SwitchPermission, SwitchResource,
        SwitchShortcut, Revoke, SqlEdits
<1> QED BY <1>1, <1>2 DEF Change

\* The history while the AdminService is the only writer.
Adding ==
    \A i, j \in 1 .. Len(hist) : i <= j => OnlyAdds(hist[i], hist[j])

LEMMA ServiceKeepsAdding ==
    ASSUME Edits \subseteq ApiEdits, HistoryOK, Adding, Change
    PROVE  Adding'
<1>1. Len(hist) \in Nat \ {0} /\ Len(hist) \in 1 .. Len(hist)
    BY NowIsAState
<1>2. OnlyAdds(Now, Now')
    BY ServiceChange, ServiceOnlyAdds
<1>3. /\ Len(hist') = Len(hist) + 1 /\ \A i \in 1 .. Len(hist) : hist'[i] = hist[i]
      /\ Now = hist[Len(hist)] /\ Now' = hist'[Len(hist) + 1]
    BY <1>1, ChangeAppends, ChangeGrows DEF Grows, Now
<1> SUFFICES ASSUME NEW i \in 1 .. Len(hist'), NEW j \in 1 .. Len(hist'), i <= j
             PROVE  OnlyAdds(hist'[i], hist'[j])
    BY DEF Adding
<1>4. CASE j \in 1 .. Len(hist)
    <2>1. i \in 1 .. Len(hist)
        BY <1>1, <1>4
    <2> QED BY <1>3, <1>4, <2>1 DEF Adding
<1>5. CASE i = j
    BY <1>5, OnlyAddsRefl
<1>6. CASE i \in 1 .. Len(hist) /\ j = Len(hist) + 1
    <2>1. OnlyAdds(hist[i], hist[Len(hist)]) /\ hist'[i] = hist[i]
        BY <1>1, <1>3, <1>6 DEF Adding
    <2>2. OnlyAdds(hist[i], Now')
        BY <1>2, <1>3, <2>1, OnlyAddsTrans
    <2> QED BY <1>3, <1>6, <2>1, <2>2
<1> QED BY <1>1, <1>3, <1>4, <1>5, <1>6

\* The two queries the decision is explained with agree in every state: a user
\* has a permission exactly when one of the user's roles is among the roles
\* that have it (getUserPermissions, getUserRoles, getRolesWithPermission).
THEOREM QueriesAgree ==
    ASSUME NEW d, NEW u \in Users, NEW p \in Perms
    PROVE  p \in UserPermissions(d, u)
              <=> UserRoles(d, u) \cap RolesWithPermission(d, p) # {}
BY DEF UserPermissions, UserRoles, RolesWithPermission
=============================================================================
