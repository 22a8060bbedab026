------------------------ MODULE AdminManager_proofs ------------------------
(***************************************************************************)
(* The calls of AdminManager, for any number of handler threads, requests, *)
(* administrators, tokens and changes of the tables.                       *)
(*                                                                         *)
(* A call looks, and writes later on another connection.  What carries its *)
(* checks over the gap is that rows of roles, permissions and resources    *)
(* never go away: what it needed is still there, and the row it is about   *)
(* to create is still absent or was created meanwhile, in a state of the   *)
(* history that can be named.  A session says what was true when it was    *)
(* read, and lostAt when it ceased to be.                                  *)
(***************************************************************************)
EXTENDS AdminManager, PolicyStore_proofs

-----------------------------------------------------------------------------
(* The inductive invariant.                                                *)

\* A right that a session still shows was lost after it was read.
SessionSound(s) ==
    /\ s.seen <= clock
    /\ s.super /\ standing[s.admin] # "super" => s.seen <= lostAt[s.admin]

SessionInv ==
    /\ \A t \in DOMAIN sessions : SessionSound(sessions[t])
    /\ \A h \in Handlers : pc[h] = "put" => op[h].who \in Session /\ SessionSound(op[h].who)

\* What was checked is there.
Ready(h) == \A i \in 1 .. op[h].checked : Registered(Now, call[h].needs[i])

\* The row was created since the call arrived.
Overtaken(h) == \E c \in (began[h] + 1) .. Len(hist) : CreatedAt(call[h].row, c)

Writing(h) ==
    IF op[h].found
    THEN call[h].kind = "own" /\ op[h].checked = 0 /\ Registered(Now, call[h].row)
    ELSE /\ op[h].checked = Len(call[h].needs)
         /\ ~lost[h] => ~Registered(Now, call[h].row) \/ Overtaken(h)

\* The call has written, or found, what it asked for.
Committed(h) == pc[h] \in {"id", "audit"} \/ Acked(h)

Done(h) ==
    /\ commit[h] \in began[h] .. Len(hist)
    /\ InPlace(hist[commit[h]], call[h].row)
    /\ call[h].kind # "own" => CreatedAt(call[h].row, commit[h])

\* An internal error that no failed statement accounts for.
Unexplained(h) == pc[h] = "done" /\ code[h] = "INTERNAL_ERROR" /\ ~lost[h]

CallInv(h) ==
    /\ pc[h] \in Acting \/ Acked(h) \/ Unexplained(h) =>
          call[h] \in Requests /\ began[h] \in 1 .. Len(hist)
    /\ pc[h] = "login" => call[h] \in LoginCalls
    /\ pc[h] = "auth" => call[h] \in Requests \cup {OtherCall} /\ began[h] \in 1 .. Len(hist)
    /\ pc[h] = "check" =>
          /\ call[h].kind # "own" /\ ~op[h].found /\ Ready(h)
          /\ op[h].checked <= Len(call[h].needs)
    /\ pc[h] = "find" => call[h].kind = "own" /\ op[h].checked = 0
    /\ pc[h] = "write" => Ready(h) /\ Writing(h)
    /\ Committed(h) => Done(h)
    /\ Unexplained(h) =>
          \/ Now.app = "absent"
          \/ Overtaken(h)
          \/ /\ call[h].kind = "own"
             /\ \E c \in began[h] .. Len(hist) : InPlace(hist[c], call[h].row)

\* Two calls that created a row did so in two states.
DistinctInv ==
    \A g, h \in Handlers :
        /\ g # h /\ Committed(g) /\ Committed(h)
        /\ call[g].kind # "own" /\ call[h].kind # "own"
        => commit[g] # commit[h]

IInv ==
    /\ TypeOK /\ SessionInv /\ DistinctInv /\ AuditedEditsHappened
    /\ \A h \in Handlers : CallInv(h)

-----------------------------------------------------------------------------
(* The requests and the statements they end in.                            *)

LEMMA RequestCases ==
    ASSUME NEW c \in Requests
    PROVE  \/ \E r \in Roles : c = RoleCreation(r)
           \/ \E p \in Perms : c = PermissionCreation(p)
           \/ \E r \in Roles : \E p \in Perms : c = PermissionBinding(r, p)
           \/ \E u \in Users : \E r \in Roles : c = RoleGrant(u, r)
           \/ \E x \in Resources : \E u \in Users : c = OwnerSetting(x, u)
BY RequestsAssumption DEF EditCalls

LEMMA OwnCalls ==
    ASSUME NEW c \in Requests
    PROVE  /\ c.kind = "own" <=> c.row[1] = "owner"
           /\ c.kind = "own" =>
                 \E x \in Resources : \E u \in Users : c = OwnerSetting(x, u)
           /\ c.kind # "login" /\ c.kind # "other" /\ c # OtherCall
           /\ c.needs \in Seq({RoleRow(r) : r \in Roles} \cup {PermissionRow(p) : p \in Perms})
           /\ c.kind = "own" => c.needs = <<>>
           /\ c.present # "OK" /\ c.present # "INTERNAL_ERROR" /\ c.present \in Codes
<1> USE DEF Codes, OtherCall
<1>1. ASSUME NEW r \in Roles, c = RoleCreation(r)
      PROVE  /\ c.kind = "create_role" /\ c.row[1] = "role" /\ c.needs = <<>>
             /\ c.present = "ALREADY_EXISTS"
    BY <1>1 DEF RoleCreation, RoleRow
<1>2. ASSUME NEW p \in Perms, c = PermissionCreation(p)
      PROVE  /\ c.kind = "create_permission" /\ c.row[1] = "permission" /\ c.needs = <<>>
             /\ c.present = "ALREADY_EXISTS"
    BY <1>2 DEF PermissionCreation, PermissionRow
<1>3. ASSUME NEW r \in Roles, NEW p \in Perms, c = PermissionBinding(r, p)
      PROVE  /\ c.kind = "bind" /\ c.row[1] = "binding"
             /\ c.needs = <<RoleRow(r), PermissionRow(p)>>
             /\ c.present = "CONFLICT"
    BY <1>3 DEF PermissionBinding
<1>4. ASSUME NEW u \in Users, NEW r \in Roles, c = RoleGrant(u, r)
      PROVE  /\ c.kind = "grant" /\ c.row[1] = "grant" /\ c.needs = <<RoleRow(r)>>
             /\ c.present = "CONFLICT"
    BY <1>4 DEF RoleGrant
<1>5. ASSUME NEW x \in Resources, NEW u \in Users, c = OwnerSetting(x, u)
      PROVE  c.kind = "own" /\ c.row[1] = "owner" /\ c.needs = <<>> /\ c.present = "NONE"
    BY <1>5 DEF OwnerSetting
<1>6. /\ c.kind = "own" <=> c.row[1] = "owner"
      /\ c.kind \in {"create_role", "create_permission", "bind", "grant", "own"}
      /\ c.kind = "own" => c.needs = <<>>
      /\ c.present \in {"ALREADY_EXISTS", "CONFLICT", "NONE"}
    BY RequestCases, <1>1, <1>2, <1>3, <1>4, <1>5
<1>7. c.kind = "own" => \E x \in Resources : \E u \in Users : c = OwnerSetting(x, u)
    BY RequestCases, <1>1, <1>2, <1>3, <1>4
<1>8. c.needs \in Seq({RoleRow(r) : r \in Roles} \cup {PermissionRow(p) : p \in Perms})
    <2> DEFINE S == {RoleRow(r) : r \in Roles} \cup {PermissionRow(p) : p \in Perms}
    <2>1. /\ \A r \in Roles : RoleRow(r) \in S
          /\ \A p \in Perms : PermissionRow(p) \in S
        OBVIOUS
    <2> HIDE DEF S
    <2>2. \A a, b \in S : <<a, b>> \in Seq(S) /\ <<a>> \in Seq(S)
        OBVIOUS
    <2>3. ASSUME NEW r \in Roles, NEW p \in Perms, c = PermissionBinding(r, p)
          PROVE  c.needs \in Seq(S)
        BY <1>3, <2>1, <2>2, <2>3
    <2>4. ASSUME NEW u \in Users, NEW r \in Roles, c = RoleGrant(u, r)
          PROVE  c.needs \in Seq(S)
        BY <1>4, <2>1, <2>2, <2>4
    <2>5. \/ c.needs = <<>>
          \/ \E r \in Roles : \E p \in Perms : c = PermissionBinding(r, p)
          \/ \E u \in Users : \E r \in Roles : c = RoleGrant(u, r)
        BY RequestCases, <1>1, <1>2, <1>5
    <2>6. ASSUME c.needs = <<>> PROVE c.needs \in Seq(S)
        BY <2>6
    <2>7. c.needs \in Seq(S)
        BY <2>3, <2>4, <2>5, <2>6, Zenon
    <2> QED BY <2>7 DEF S
<1> QED BY <1>6, <1>7, <1>8

\* The UPDATE of a registered resource.
LEMMA UpdateFacts ==
    ASSUME NEW d \in PolicyState, NEW x \in Resources, NEW u \in Users
    PROVE  LET e == OwnerUpdated(d, x, u)  row == OwnerSetting(x, u).row IN
           /\ e \in PolicyState /\ e.version = d.version
           /\ d.app # "absent" => InPlace(e, row)
           /\ e = d => d.resource[x] = "on" /\ d.owner[x] = u
           /\ e # d => <<d.resource[x], d.owner[x]>> # <<"on", u>>
           /\ Registered(d, row) <=> d.app # "absent" /\ d.resource[x] # "absent"
<1> DEFINE e == OwnerUpdated(d, x, u)
           row == OwnerSetting(x, u).row
<1> USE DEF PolicyState, Status
<1>1. e = [d EXCEPT !.resource = [d.resource EXCEPT ![x] = "on"],
                    !.owner = [d.owner EXCEPT ![x] = u]]
    BY DEF OwnerUpdated
<1>2. /\ [d.resource EXCEPT ![x] = "on"] \in [Resources -> Status]
      /\ [d.owner EXCEPT ![x] = u] \in [Resources -> Users \cup {NoUser}]
    OBVIOUS
<1>3. e \in PolicyState /\ e.version = d.version
    BY <1>1, <1>2
<1>4. e.app = d.app /\ e.resource[x] = "on" /\ e.owner[x] = u
    BY <1>1
<1>5. row[1] = "owner" /\ row[2] = x /\ row[3] = u
    BY DEF OwnerSetting
<1>6. \A s : Registered(s, row) <=> s.app # "absent" /\ s.resource[x] # "absent"
    BY <1>5 DEF Registered, ResourceRegistered
<1>7. d.app # "absent" => InPlace(e, row)
    BY <1>4, <1>5, <1>6 DEF InPlace
<1>8. d.resource[x] = "on" /\ d.owner[x] = u => e = d
    <2> SUFFICES ASSUME d.resource[x] = "on", d.owner[x] = u PROVE e = d
        OBVIOUS
    <2>1. [d.resource EXCEPT ![x] = "on"] = d.resource /\ [d.owner EXCEPT ![x] = u] = d.owner
        OBVIOUS
    <2>2. [d EXCEPT !.resource = d.resource, !.owner = d.owner] = d
        OBVIOUS
    <2> QED BY <1>1, <2>1, <2>2
<1> HIDE DEF e, row
<1>9. <<d.resource[x], d.owner[x]>> = <<"on", u>> => d.resource[x] = "on" /\ d.owner[x] = u
    OBVIOUS
<1> QED BY <1>3, <1>4, <1>6, <1>7, <1>8, <1>9 DEF e, row

\* What a binding or a grant joins is there.
LEMMA NeededRows ==
    ASSUME NEW c, NEW d, CanInsert(d, c)
    PROVE  /\ \A r, p : c = PermissionBinding(r, p) =>
                 RoleRegistered(d, r) /\ PermissionRegistered(d, p)
           /\ \A u, r : c = RoleGrant(u, r) => RoleRegistered(d, r)
<1>1. \A i \in DOMAIN c.needs : Registered(d, c.needs[i])
    BY DEF CanInsert
<1>2. /\ \A r : Registered(d, RoleRow(r)) <=> RoleRegistered(d, r)
      /\ \A p : Registered(d, PermissionRow(p)) <=> PermissionRegistered(d, p)
    BY DEF Registered, RoleRow, PermissionRow
<1>3. ASSUME NEW r, NEW p, c = PermissionBinding(r, p)
      PROVE  RoleRegistered(d, r) /\ PermissionRegistered(d, p)
    <2>1. c.needs = <<RoleRow(r), PermissionRow(p)>>
        BY <1>3 DEF PermissionBinding
    <2>2. /\ 1 \in DOMAIN c.needs /\ c.needs[1] = RoleRow(r)
          /\ 2 \in DOMAIN c.needs /\ c.needs[2] = PermissionRow(p)
        BY <2>1
    <2> QED BY <1>1, <1>2, <2>2
<1>4. ASSUME NEW u, NEW r, c = RoleGrant(u, r)
      PROVE  RoleRegistered(d, r)
    <2>1. c.needs = <<RoleRow(r)>>
        BY <1>4 DEF RoleGrant
    <2>2. 1 \in DOMAIN c.needs /\ c.needs[1] = RoleRow(r)
        BY <2>1
    <2> QED BY <1>1, <1>2, <2>2
<1> QED BY <1>3, <1>4

\* The INSERT of a row that may be inserted puts it in place, where there was
\* none.
LEMMA InsertFacts ==
    ASSUME NEW c \in Requests, NEW d \in PolicyState, CanInsert(d, c),
           NEW e \in Inserted(d, c.row)
    PROVE  /\ e \in PolicyState /\ e.version = d.version
           /\ ~Registered(d, c.row) /\ Registered(e, c.row) /\ InPlace(e, c.row)
<1>0. d.app # "absent" /\ ~Registered(d, c.row)
    BY DEF CanInsert
<1>1. ASSUME NEW r \in Roles, c = RoleCreation(r)
      PROVE  e \in PolicyState /\ e.version = d.version /\ InPlace(e, c.row)
    <2>1. c.row = <<"role", r>>
        BY <1>1 DEF RoleCreation, RoleRow
    <2>2. e = [d EXCEPT !.role[r] = "on"]
        BY <2>1 DEF Inserted
    <2>3. /\ e \in PolicyState /\ e.version = d.version
          /\ e.app = d.app /\ e.role[r] = "on"
        BY <2>2 DEF PolicyState, Status
    <2> QED BY <1>0, <2>1, <2>3 DEF InPlace, Registered, RoleRegistered
<1>2. ASSUME NEW p \in Perms, c = PermissionCreation(p)
      PROVE  e \in PolicyState /\ e.version = d.version /\ InPlace(e, c.row)
    <2>1. c.row = <<"permission", p>>
        BY <1>2 DEF PermissionCreation, PermissionRow
    <2>2. Inserted(d, <<"permission", p>>) =
             {[d EXCEPT !.perm[p] = "on", !.shortcut = (@ \ {p}) \cup flag] :
                 flag \in SUBSET {p}}
        BY DEF Inserted
    <2>3. PICK flag \in SUBSET {p} :
             e = [d EXCEPT !.perm[p] = "on", !.shortcut = (@ \ {p}) \cup flag]
        BY <2>1, <2>2
    <2> DEFINE perm == [d.perm EXCEPT ![p] = "on"]
               shortcut == (d.shortcut \ {p}) \cup flag
    <2>4. perm \in [Perms -> Status] /\ shortcut \in SUBSET Perms /\ perm[p] # "absent"
        BY DEF PolicyState, Status
    <2>5. e = [d EXCEPT !.perm = perm, !.shortcut = shortcut]
        BY <2>3
    <2> HIDE DEF perm, shortcut
    <2>6. /\ e \in PolicyState /\ e.version = d.version
          /\ e.app = d.app /\ e.perm = perm
        BY <2>4, <2>5 DEF PolicyState
    <2> QED BY <1>0, <2>1, <2>4, <2>6 DEF InPlace, Registered, PermissionRegistered
<1>3. ASSUME NEW r \in Roles, NEW p \in Perms, c = PermissionBinding(r, p)
      PROVE  e \in PolicyState /\ e.version = d.version /\ InPlace(e, c.row)
    <2>1. c.row = <<"binding", r, p>> /\ c.needs = <<RoleRow(r), PermissionRow(p)>>
        BY <1>3 DEF PermissionBinding
    <2>2. e = [d EXCEPT !.binds = @ \cup {<<r, p>>}]
        BY <2>1 DEF Inserted
    <2>3. RoleRegistered(d, r) /\ PermissionRegistered(d, p)
        BY <1>3, NeededRows
    <2>4. /\ e \in PolicyState /\ e.version = d.version
          /\ e.app = d.app /\ e.role = d.role /\ e.perm = d.perm /\ <<r, p>> \in e.binds
        BY <2>2 DEF PolicyState
    <2> QED BY <2>1, <2>3, <2>4
            DEF InPlace, Registered, BindingRegistered, RoleRegistered, PermissionRegistered
<1>4. ASSUME NEW u \in Users, NEW r \in Roles, c = RoleGrant(u, r)
      PROVE  e \in PolicyState /\ e.version = d.version /\ InPlace(e, c.row)
    <2>1. c.row = <<"grant", u, r>> /\ c.needs = <<RoleRow(r)>>
        BY <1>4 DEF RoleGrant
    <2>2. e = [d EXCEPT !.grants = @ \cup {<<u, r>>}]
        BY <2>1 DEF Inserted
    <2>3. RoleRegistered(d, r)
        BY <1>4, NeededRows
    <2>4. /\ e \in PolicyState /\ e.version = d.version
          /\ e.app = d.app /\ e.role = d.role /\ <<u, r>> \in e.grants
        BY <2>2 DEF PolicyState
    <2> QED BY <2>1, <2>3, <2>4 DEF InPlace, Registered, GrantRegistered, RoleRegistered
<1>5. ASSUME NEW x \in Resources, NEW u \in Users, c = OwnerSetting(x, u)
      PROVE  e \in PolicyState /\ e.version = d.version /\ InPlace(e, c.row)
    <2>1. c.row = <<"owner", x, u>>
        BY <1>5 DEF OwnerSetting
    <2>2. e = OwnerUpdated(d, x, u)
        BY <2>1 DEF Inserted
    <2> QED BY <1>0, <1>5, <2>2, UpdateFacts
<1>6. e \in PolicyState /\ e.version = d.version /\ InPlace(e, c.row)
    BY RequestCases, <1>1, <1>2, <1>3, <1>4, <1>5
<1> QED BY <1>0, <1>6 DEF InPlace

\* Each INSERT is one of the changes of PolicyStore, and so is the UPDATE when
\* it changes the row.
LEMMA InsertIsChange ==
    ASSUME NEW c \in Requests, CanInsert(Now, c), NEW e \in Inserted(Now, c.row),
           Write(c.kind, e)
    PROVE  Change
<1>0. Now.app # "absent" /\ ~Registered(Now, c.row)
    BY DEF CanInsert
<1>1. ASSUME NEW r \in Roles, c = RoleCreation(r) PROVE CreateRole
    <2>1. c.row = <<"role", r>> /\ c.kind = "create_role"
        BY <1>1 DEF RoleCreation, RoleRow
    <2>2. e = [Now EXCEPT !.role[r] = "on"]
        BY <2>1 DEF Inserted
    <2>3. Now.role[r] = "absent"
        BY <1>0, <2>1 DEF Registered, RoleRegistered
    <2>4. Write("create_role", [Now EXCEPT !.role[r] = "on"])
        BY <2>1, <2>2
    <2> QED BY <1>0, <2>3, <2>4 DEF CreateRole
<1>2. ASSUME NEW p \in Perms, c = PermissionCreation(p) PROVE CreatePermission
    <2>1. c.row = <<"permission", p>> /\ c.kind = "create_permission"
        BY <1>2 DEF PermissionCreation, PermissionRow
    <2>2. Inserted(Now, <<"permission", p>>) =
             {[Now EXCEPT !.perm[p] = "on", !.shortcut = (@ \ {p}) \cup flag] :
                 flag \in SUBSET {p}}
        BY DEF Inserted
    <2>3. PICK flag \in SUBSET {p} :
             e = [Now EXCEPT !.perm[p] = "on", !.shortcut = (@ \ {p}) \cup flag]
        BY <2>1, <2>2
    <2>4. Now.perm[p] = "absent"
        BY <1>0, <2>1 DEF Registered, PermissionRegistered
    <2>5. PICK b \in BOOLEAN : flag = {q \in {p} : b}
        <3>1. flag = {} \/ flag = {p}
            BY <2>3
        <3>2. {q \in {p} : TRUE} = {p} /\ {q \in {p} : FALSE} = {}
            OBVIOUS
        <3> QED BY <3>1, <3>2
    <2>6. Write("create_permission",
                [Now EXCEPT !.perm[p] = "on",
                            !.shortcut = (@ \ {p}) \cup {q \in {p} : b}])
        BY <2>1, <2>3, <2>5
    <2> QED BY <1>0, <2>4, <2>6 DEF CreatePermission
<1>3. ASSUME NEW r \in Roles, NEW p \in Perms, c = PermissionBinding(r, p)
      PROVE  BindPermissionToRole
    <2>1. c.row = <<"binding", r, p>> /\ c.kind = "bind"
        BY <1>3 DEF PermissionBinding
    <2>2. e = [Now EXCEPT !.binds = @ \cup {<<r, p>>}]
        BY <2>1 DEF Inserted
    <2>3. RoleRegistered(Now, r) /\ PermissionRegistered(Now, p)
        BY <1>3, NeededRows
    <2>4. <<r, p>> \notin Now.binds
        BY <1>0, <2>1, <2>3 DEF Registered, BindingRegistered
    <2>5. Write("bind", [Now EXCEPT !.binds = @ \cup {<<r, p>>}])
        BY <2>1, <2>2
    <2> QED BY <1>0, <2>3, <2>4, <2>5
            DEF BindPermissionToRole, RoleRegistered, PermissionRegistered
<1>4. ASSUME NEW u \in Users, NEW r \in Roles, c = RoleGrant(u, r)
      PROVE  GrantRoleToUser
    <2>1. c.row = <<"grant", u, r>> /\ c.kind = "grant"
        BY <1>4 DEF RoleGrant
    <2>2. e = [Now EXCEPT !.grants = @ \cup {<<u, r>>}]
        BY <2>1 DEF Inserted
    <2>3. RoleRegistered(Now, r)
        BY <1>4, NeededRows
    <2>4. <<u, r>> \notin Now.grants
        BY <1>0, <2>1, <2>3 DEF Registered, GrantRegistered
    <2>5. Write("grant", [Now EXCEPT !.grants = @ \cup {<<u, r>>}])
        BY <2>1, <2>2
    <2> QED BY <1>0, <2>3, <2>4, <2>5 DEF GrantRoleToUser, RoleRegistered
<1>5. ASSUME NEW x \in Resources, NEW u \in Users, c = OwnerSetting(x, u)
      PROVE  SetResourceOwner
    <2>1. c.row = <<"owner", x, u>> /\ c.kind = "own"
        BY <1>5 DEF OwnerSetting
    <2>2. e = OwnerUpdated(Now, x, u)
        BY <2>1 DEF Inserted
    <2>3. Now.resource[x] = "absent"
        BY <1>0, <2>1 DEF Registered, ResourceRegistered
    <2>4. Write("own", [Now EXCEPT !.resource[x] = "on", !.owner[x] = u])
        BY <2>1, <2>2 DEF OwnerUpdated
    <2>5. <<Now.resource[x], Now.owner[x]>> # <<"on", u>>
        BY <2>3
    <2> QED BY <1>0, <2>4, <2>5 DEF SetResourceOwner
<1> QED BY RequestCases, <1>1, <1>2, <1>3, <1>4, <1>5 DEF Change, ApiChange

LEMMA UpdateIsChange ==
    ASSUME HistoryOK, NEW x \in Resources, NEW u \in Users, Now.app # "absent",
           OwnerUpdated(Now, x, u) # Now, Write("own", OwnerUpdated(Now, x, u))
    PROVE  Change
<1>1. <<Now.resource[x], Now.owner[x]>> # <<"on", u>>
    BY NowIsAState, UpdateFacts
<1>2. Write("own", [Now EXCEPT !.resource[x] = "on", !.owner[x] = u])
    BY DEF OwnerUpdated
<1>3. SetResourceOwner
    BY <1>1, <1>2 DEF SetResourceOwner
<1> QED BY <1>3 DEF Change, ApiChange

-----------------------------------------------------------------------------
(* What other connections do to a call.                                    *)

HistoryStep == UNCHANGED hist \/ Change

CreatedIn(states, row, c) ==
    c > 1 /\ ~Registered(states[c - 1], row) /\ Registered(states[c], row)

\* Committed states stay where they are, and so does what was created in them.
LEMMA HistoryKept ==
    ASSUME HistoryOK, HistoryStep
    PROVE  /\ HistoryOK' /\ RowsKept
           /\ Len(hist) \in Nat \ {0} /\ Len(hist') \in {Len(hist), Len(hist) + 1}
           /\ Len(hist') = Len(hist) => UNCHANGED hist
           /\ \A i \in 1 .. Len(hist) : hist'[i] = hist[i]
           /\ \A row : \A c \in 1 .. Len(hist) :
                 CreatedIn(hist, row, c) => CreatedIn(hist', row, c)
<1>1. CASE UNCHANGED hist
    BY <1>1, NowIsAState DEF HistoryOK, RowsKept, Now
<1>2. CASE Change
    <2>1. Grows /\ Len(hist') = Len(hist) + 1 /\ RowsKept
        BY <1>2, ChangeGrows, ChangeAppends, ChangeKeepsRows
    <2>2. Len(hist) \in Nat \ {0} /\ \A i \in 1 .. Len(hist) : hist'[i] = hist[i]
        BY <2>1, NowIsAState DEF Grows
    <2>3. ASSUME NEW row, NEW c \in 1 .. Len(hist), CreatedIn(hist, row, c)
          PROVE  CreatedIn(hist', row, c)
        <3>1. c > 1 /\ c - 1 \in 1 .. Len(hist)
            BY <2>2, <2>3 DEF CreatedIn
        <3> QED BY <2>2, <2>3, <3>1 DEF CreatedIn
    <2> QED BY <2>1, <2>2, <2>3 DEF Grows
<1> QED BY <1>1, <1>2 DEF HistoryStep

\* What a call needs stays registered; the row it is about to create may appear,
\* in a state that is then the last one.
LEMMA RowsStay ==
    ASSUME HistoryOK, HistoryStep, NEW c \in Requests
    PROVE  /\ \A i \in 1 .. Len(c.needs) :
                 Registered(Now, c.needs[i]) => Registered(Now', c.needs[i])
           /\ c.kind = "own" /\ Registered(Now, c.row) => Registered(Now', c.row)
           /\ ~Registered(Now, c.row) =>
                 \/ ~Registered(Now', c.row)
                 \/ Len(hist') = Len(hist) + 1 /\ CreatedIn(hist', c.row, Len(hist'))
<1>1. RowsKept /\ HistoryOK'
    BY HistoryKept
<1>2. ASSUME NEW r \in Roles, Registered(Now, RoleRow(r))
      PROVE  Registered(Now', RoleRow(r))
    BY <1>1, <1>2 DEF Registered, RoleRow, RoleRegistered, RowsKept
<1>3. ASSUME NEW p \in Perms, Registered(Now, PermissionRow(p))
      PROVE  Registered(Now', PermissionRow(p))
    BY <1>1, <1>3 DEF Registered, PermissionRow, PermissionRegistered, RowsKept
<1>4. ASSUME NEW i \in 1 .. Len(c.needs), Registered(Now, c.needs[i])
      PROVE  Registered(Now', c.needs[i])
    <2> DEFINE S == {RoleRow(r) : r \in Roles} \cup {PermissionRow(p) : p \in Perms}
    <2>1. c.needs[i] \in S
        <3>1. c.needs \in Seq(S)
            BY OwnCalls
        <3> HIDE DEF S
        <3> QED BY <3>1
    <2> QED BY <1>2, <1>3, <1>4, <2>1
<1>5. ASSUME c.kind = "own", Registered(Now, c.row)
      PROVE  Registered(Now', c.row)
    <2>1. PICK x \in Resources : \E u \in Users : c = OwnerSetting(x, u)
        BY <1>5, OwnCalls
    <2>2. c.row[1] = "owner" /\ c.row[2] = x
        BY <2>1 DEF OwnerSetting
    <2> QED BY <1>1, <1>5, <2>2 DEF Registered, ResourceRegistered, RowsKept
<1>6. ASSUME ~Registered(Now, c.row), Registered(Now', c.row)
      PROVE  Len(hist') = Len(hist) + 1 /\ CreatedIn(hist', c.row, Len(hist'))
    <2>1. hist' # hist
        BY <1>6 DEF Now
    <2>2. /\ Len(hist) \in Nat \ {0} /\ Len(hist') = Len(hist) + 1
          /\ hist'[Len(hist)] = hist[Len(hist)]
        BY <2>1, HistoryKept
    <2>3. Now = hist[Len(hist)] /\ Now' = hist'[Len(hist')]
        BY DEF Now
    <2> QED BY <1>6, <2>2, <2>3 DEF CreatedIn
<1> QED BY <1>4, <1>5, <1>6

\* A step of another handler, or of another connection, leaves a call where
\* it is.
Same(h) ==
    /\ pc'[h] = pc[h] /\ call'[h] = call[h] /\ op'[h] = op[h] /\ began'[h] = began[h]
    /\ commit'[h] = commit[h] /\ lost'[h] = lost[h] /\ code'[h] = code[h]

LEMMA CallKept ==
    ASSUME TypeOK, HistoryStep, NEW h \in Handlers, CallInv(h), Same(h)
    PROVE  CallInv(h)'
<1> USE DEF Same
<1>0. HistoryOK /\ began[h] \in Nat /\ commit[h] \in Nat
    BY DEF TypeOK
<1>1. /\ Len(hist) \in Nat \ {0} /\ Len(hist') \in {Len(hist), Len(hist) + 1}
      /\ \A i \in 1 .. Len(hist) : hist'[i] = hist[i]
      /\ Now.app = "absent" => Now'.app = "absent"
    BY <1>0, HistoryKept DEF RowsKept
<1>2. \A row, c : CreatedAt(row, c) <=> CreatedIn(hist, row, c)
    BY DEF CreatedAt, CreatedIn
<1>3. /\ Overtaken(h)' <=>
            \E c \in (began[h] + 1) .. Len(hist') : CreatedIn(hist', call[h].row, c)
      /\ Done(h)' <=>
            /\ commit[h] \in began[h] .. Len(hist')
            /\ InPlace(hist'[commit[h]], call[h].row)
            /\ call[h].kind # "own" => CreatedIn(hist', call[h].row, commit[h])
    BY DEF Overtaken, Done, CreatedAt, CreatedIn
<1>4. Overtaken(h) => Overtaken(h)'
    <2> SUFFICES ASSUME NEW c \in (began[h] + 1) .. Len(hist),
                        CreatedIn(hist, call[h].row, c)
                 PROVE  Overtaken(h)'
        BY <1>2 DEF Overtaken
    <2>1. c \in 1 .. Len(hist) /\ c \in (began[h] + 1) .. Len(hist')
        BY <1>0, <1>1
    <2>2. CreatedIn(hist', call[h].row, c)
        BY <1>0, <2>1, HistoryKept
    <2> QED BY <1>3, <2>1, <2>2
<1>5. Done(h) /\ began[h] > 0 => Done(h)'
    <2> SUFFICES ASSUME Done(h), began[h] > 0 PROVE Done(h)'
        OBVIOUS
    <2>1. commit[h] \in 1 .. Len(hist) /\ commit[h] \in began[h] .. Len(hist')
        BY <1>0, <1>1 DEF Done
    <2>2. InPlace(hist'[commit[h]], call[h].row)
        BY <1>1, <2>1 DEF Done
    <2>3. call[h].kind # "own" => CreatedIn(hist', call[h].row, commit[h])
        BY <1>0, <1>2, <2>1, HistoryKept DEF Done
    <2> QED BY <1>3, <2>1, <2>2, <2>3
<1>6. (Committed(h) <=> Committed(h)') /\ (Unexplained(h) <=> Unexplained(h)')
      /\ (Acked(h) <=> Acked(h)')
    BY DEF Committed, Unexplained, Acked
<1>7. call[h] \in Requests =>
         /\ \A i \in 1 .. Len(call[h].needs) :
               Registered(Now, call[h].needs[i]) => Registered(Now', call[h].needs[i])
         /\ call[h].kind = "own" /\ Registered(Now, call[h].row) =>
               Registered(Now', call[h].row)
         /\ ~Registered(Now, call[h].row) =>
               \/ ~Registered(Now', call[h].row)
               \/ /\ Len(hist') = Len(hist) + 1
                  /\ CreatedIn(hist', call[h].row, Len(hist'))
    BY <1>0, RowsStay
<1>8. ASSUME call[h] \in Requests, began[h] \in 1 .. Len(hist), Writing(h)
      PROVE  Writing(h)'
    <2>1. CASE op[h].found
        BY <1>7, <1>8, <2>1 DEF Writing
    <2>2. CASE ~op[h].found /\ ~lost[h] /\ ~Overtaken(h) /\ Registered(Now', call[h].row)
        <3>1. ~Registered(Now, call[h].row)
            BY <1>8, <2>2 DEF Writing
        <3>2. Len(hist') = Len(hist) + 1 /\ CreatedIn(hist', call[h].row, Len(hist'))
            BY <1>7, <1>8, <2>2, <3>1
        <3>3. Len(hist') \in (began[h] + 1) .. Len(hist')
            BY <1>1, <1>8, <3>2
        <3>4. Overtaken(h)'
            BY <1>3, <3>2, <3>3
        <3> QED BY <1>8, <2>2, <3>4 DEF Writing
    <2>3. CASE ~op[h].found /\ (lost[h] \/ Overtaken(h) \/ ~Registered(Now', call[h].row))
        BY <1>4, <1>8, <2>3 DEF Writing
    <2> QED BY <2>1, <2>2, <2>3
<1>9. ASSUME call[h] \in Requests, op[h].checked <= Len(call[h].needs), Ready(h)
      PROVE  Ready(h)'
    <2>1. op[h].checked \in Nat
        BY DEF TypeOK, Op
    <2>2. Len(call[h].needs) \in Nat
        BY <1>9, OwnCalls
    <2>3. \A i \in 1 .. op[h].checked : Registered(Now', call[h].needs[i])
        BY <1>7, <1>9, <2>1, <2>2 DEF Ready
    <2> QED BY <2>3 DEF Ready
<1>10. pc[h] = "write" => Ready(h)' /\ Writing(h)'
    <2>1. SUFFICES ASSUME pc[h] = "write" PROVE Ready(h)' /\ Writing(h)'
        OBVIOUS
    <2>2. /\ call[h] \in Requests /\ began[h] \in 1 .. Len(hist)
          /\ Ready(h) /\ Writing(h)
        BY <2>1 DEF CallInv, Acting
    <2>3. op[h].checked <= Len(call[h].needs)
        <3>1. CASE op[h].found
            <4>1. op[h].checked = 0 /\ call[h].needs = <<>>
                BY <2>2, <3>1, OwnCalls DEF Writing
            <4> QED BY <4>1
        <3>2. CASE ~op[h].found
            <4>1. op[h].checked = Len(call[h].needs) /\ Len(call[h].needs) \in Nat
                BY <2>2, <3>2, OwnCalls DEF Writing
            <4> QED BY <4>1
        <3> QED BY <3>1, <3>2
    <2> QED BY <1>8, <1>9, <2>2, <2>3
<1>11. pc[h] = "check" =>
          /\ call[h].kind # "own" /\ ~op[h].found /\ Ready(h)'
          /\ op[h].checked <= Len(call[h].needs)
    BY <1>9 DEF CallInv, Acting
<1>12. Committed(h) => Done(h)'
    <2>1. Committed(h) => Done(h) /\ began[h] \in 1 .. Len(hist)
        BY DEF CallInv, Committed, Acting
    <2> QED BY <1>1, <1>5, <2>1
<1>13. Unexplained(h) =>
          \/ Now'.app = "absent"
          \/ Overtaken(h)'
          \/ /\ call[h].kind = "own"
             /\ \E c \in began[h] .. Len(hist') : InPlace(hist'[c], call[h].row)
    <2> SUFFICES ASSUME Unexplained(h), call[h].kind = "own",
                        NEW c \in began[h] .. Len(hist), InPlace(hist[c], call[h].row)
                 PROVE  \E i \in began[h] .. Len(hist') : InPlace(hist'[i], call[h].row)
        BY <1>1, <1>4 DEF CallInv
    <2>1. began[h] \in 1 .. Len(hist)
        BY DEF CallInv
    <2>2. c \in began[h] .. Len(hist') /\ hist'[c] = hist[c]
        BY <1>1, <2>1
    <2> QED BY <2>2
<1>14. /\ pc[h] \in Acting \/ Acked(h) \/ Unexplained(h) =>
             call[h] \in Requests /\ began[h] \in 1 .. Len(hist')
       /\ pc[h] = "login" => call[h] \in LoginCalls
       /\ pc[h] = "auth" =>
             call[h] \in Requests \cup {OtherCall} /\ began[h] \in 1 .. Len(hist')
       /\ pc[h] = "find" => call[h].kind = "own" /\ op[h].checked = 0
    BY <1>1 DEF CallInv
<1> QED BY <1>6, <1>10, <1>11, <1>12, <1>13, <1>14 DEF CallInv, Now

-----------------------------------------------------------------------------
(* What a step of a handler does to its own call.                          *)

WorkTypes ==
    /\ pc \in [Handlers -> Places] /\ call \in [Handlers -> Calls \cup {NoCall}]
    /\ op \in [Handlers -> Op]
    /\ \A h \in Handlers : pc[h] \in Acting => call[h] \in Requests /\ op[h].who \in Admins
    /\ began \in [Handlers -> Nat] /\ commit \in [Handlers -> Nat]
    /\ lost \in [Handlers -> BOOLEAN] /\ code \in [Handlers -> Codes]

\* The call of h is now at p, is c, has o, ...
Becomes(h, p, c, o, b, m, l, e) ==
    /\ pc' = [pc EXCEPT ![h] = p] /\ call' = [call EXCEPT ![h] = c]
    /\ op' = [op EXCEPT ![h] = o] /\ began' = [began EXCEPT ![h] = b]
    /\ commit' = [commit EXCEPT ![h] = m] /\ lost' = [lost EXCEPT ![h] = l]
    /\ code' = [code EXCEPT ![h] = e]

LEMMA BecomesFacts ==
    ASSUME WorkTypes, NEW h \in Handlers,
           NEW p \in Places, NEW c \in Calls \cup {NoCall}, NEW o \in Op, NEW b \in Nat,
           NEW m \in Nat, NEW l \in BOOLEAN, NEW e \in Codes,
           Becomes(h, p, c, o, b, m, l, e),
           p \in Acting => c \in Requests /\ o.who \in Admins
    PROVE  /\ WorkTypes'
           /\ \A g \in Handlers \ {h} : Same(g)
           /\ pc'[h] = p /\ call'[h] = c /\ op'[h] = o /\ began'[h] = b
           /\ commit'[h] = m /\ (lost'[h] <=> l) /\ code'[h] = e
<1>1. /\ pc' \in [Handlers -> Places] /\ call' \in [Handlers -> Calls \cup {NoCall}]
      /\ op' \in [Handlers -> Op]
      /\ began' \in [Handlers -> Nat] /\ commit' \in [Handlers -> Nat]
      /\ lost' \in [Handlers -> BOOLEAN] /\ code' \in [Handlers -> Codes]
    BY DEF Becomes, WorkTypes
<1>2. /\ pc'[h] = p /\ call'[h] = c /\ op'[h] = o /\ began'[h] = b
      /\ commit'[h] = m /\ lost'[h] = l /\ code'[h] = e
    BY DEF Becomes, WorkTypes
<1>3. \A g \in Handlers \ {h} : Same(g)
    BY DEF Becomes, WorkTypes, Same
<1>4. \A g \in Handlers : pc'[g] \in Acting => call'[g] \in Requests /\ op'[g].who \in Admins
    BY <1>2, <1>3 DEF WorkTypes, Same
<1> QED BY <1>1, <1>2, <1>3, <1>4 DEF WorkTypes

\* What a step of h owes to the invariant: the types, its own call, the calls of
\* the others, and a commit of its own if it is now committed.
Keeps(h) ==
    /\ WorkTypes' /\ CallInv(h)'
    /\ \A g \in Handlers \ {h} : Same(g)
    /\ Committed(h)' =>
          \/ Committed(h) /\ call'[h] = call[h] /\ commit'[h] = commit[h]
          \/ commit'[h] > Len(hist)
          \/ call'[h].kind = "own"

LEMMA OpFacts ==
    /\ Nothing \in Op /\ NoCall \notin Requests
    /\ \A t \in Tokens \cup {NoToken} : [Nothing EXCEPT !.token = t] \in Op
    /\ \A o \in Op : \A w \in Session \cup Admins \cup {Nobody} :
          [o EXCEPT !.who = w] \in Op /\ [o EXCEPT !.who = w].who = w
    /\ \A o \in Op : \A f \in BOOLEAN :
          LET n == [o EXCEPT !.found = f] IN
          n \in Op /\ (n.found <=> f) /\ n.checked = o.checked /\ n.who = o.who
    /\ \A o \in Op :
          LET n == [o EXCEPT !.checked = @ + 1] IN
          n \in Op /\ (n.found <=> o.found) /\ n.checked = o.checked + 1 /\ n.who = o.who
<1>1. Nothing \in Op /\ \A t \in Tokens \cup {NoToken} : [Nothing EXCEPT !.token = t] \in Op
    BY DEF Nothing, Op
<1>2. NoCall \notin Requests
    BY RequestsAssumption DEF Calls
<1>3. ASSUME NEW o \in Op, NEW w \in Session \cup Admins \cup {Nobody}
      PROVE  [o EXCEPT !.who = w] \in Op /\ [o EXCEPT !.who = w].who = w
    BY DEF Op
<1>4. ASSUME NEW o \in Op, NEW f \in BOOLEAN
      PROVE  LET n == [o EXCEPT !.found = f] IN
             n \in Op /\ (n.found <=> f) /\ n.checked = o.checked /\ n.who = o.who
    BY DEF Op
<1>5. ASSUME NEW o \in Op
      PROVE  LET n == [o EXCEPT !.checked = @ + 1] IN
             n \in Op /\ (n.found <=> o.found) /\ n.checked = o.checked + 1 /\ n.who = o.who
    BY DEF Op
<1> QED BY <1>1, <1>2, <1>3, <1>4, <1>5

\* The answer of a call that is refused or has lost a statement promises
\* nothing.
LEMMA TurnKeeps ==
    ASSUME TypeOK, NEW h \in Handlers, NEW c \in Codes, Turn(h, c), UNCHANGED commit,
           NEW l \in BOOLEAN, lost' = [lost EXCEPT ![h] = l], c = "INTERNAL_ERROR" => l
    PROVE  Keeps(h) /\ pc'[h] = "done"
<1>1. WorkTypes
    BY DEF TypeOK, WorkTypes
<1>2. commit' = [commit EXCEPT ![h] = commit[h]] /\ commit[h] \in Nat
    BY <1>1 DEF WorkTypes
<1>3. Becomes(h, "done", NoCall, Nothing, 0, commit[h], l, c)
    BY <1>2 DEF Becomes, Turn, Answer, Learn
<1>4. "done" \in Places /\ "done" \notin Acting
    BY DEF Places, Acting
<1>5. /\ WorkTypes' /\ \A g \in Handlers \ {h} : Same(g)
      /\ pc'[h] = "done" /\ call'[h] = NoCall /\ (lost'[h] <=> l) /\ code'[h] = c
    BY <1>1, <1>2, <1>3, <1>4, BecomesFacts, OpFacts
<1>6. ~Acked(h)' /\ ~Unexplained(h)' /\ ~Committed(h)'
    BY <1>5, OpFacts DEF Acked, Unexplained, Committed
<1>7. CallInv(h)'
    BY <1>4, <1>5, <1>6 DEF CallInv
<1> QED BY <1>5, <1>6, <1>7 DEF Keeps

\* Statements of a step that changes neither the tables nor what was committed.
LEMMA Frame ==
    ASSUME TypeOK, NEW h \in Handlers
    PROVE  /\ WorkTypes /\ HistoryOK /\ Len(hist) \in Nat \ {0}
           /\ UNCHANGED call => call' = [call EXCEPT ![h] = call[h]]
           /\ UNCHANGED op => op' = [op EXCEPT ![h] = op[h]]
           /\ UNCHANGED began => began' = [began EXCEPT ![h] = began[h]]
           /\ UNCHANGED commit => commit' = [commit EXCEPT ![h] = commit[h]]
           /\ UNCHANGED lost => lost' = [lost EXCEPT ![h] = lost[h]]
           /\ UNCHANGED code => code' = [code EXCEPT ![h] = code[h]]
           /\ pc[h] \in Places /\ call[h] \in Calls \cup {NoCall} /\ op[h] \in Op
           /\ began[h] \in Nat /\ commit[h] \in Nat /\ lost[h] \in BOOLEAN
           /\ code[h] \in Codes
<1>1. WorkTypes /\ HistoryOK /\ Len(hist) \in Nat \ {0}
    BY NowIsAState DEF TypeOK, WorkTypes
<1> QED BY <1>1 DEF WorkTypes

LEMMA CodeFacts ==
    /\ {"OK", "UNAUTHORIZED", "FORBIDDEN", "INVALID_ARGUMENT", "NOT_FOUND",
        "INTERNAL_ERROR"} \subseteq Codes
    /\ Acting \subseteq Places /\ {"login", "put", "auth", "done"} \subseteq Places
    /\ {"login", "put", "auth", "done"} \cap Acting = {}
BY DEF Codes, Places, Acting

LEMMA ArriveKeeps ==
    ASSUME TypeOK, NEW h \in Handlers, Arrive(h)
    PROVE  Keeps(h) /\ pc'[h] # "put"
<1>1. PICK c \in Calls : \E t \in issued \cup {NoToken} :
         /\ call' = [call EXCEPT ![h] = c]
         /\ Learn(h, [Nothing EXCEPT !.token = t])
         /\ Goto(h, IF c.kind = "login" THEN "login" ELSE "auth")
    BY DEF Arrive
<1>2. PICK t \in issued \cup {NoToken} :
         /\ call' = [call EXCEPT ![h] = c]
         /\ Learn(h, [Nothing EXCEPT !.token = t])
         /\ Goto(h, IF c.kind = "login" THEN "login" ELSE "auth")
    BY <1>1
<1> DEFINE o == [Nothing EXCEPT !.token = t]
           p == IF c.kind = "login" THEN "login" ELSE "auth"
<1>3. Becomes(h, p, c, o, Len(hist), commit[h], lost[h], code[h])
    BY <1>2, Frame DEF Becomes, Learn, Goto, Arrive
<1>4. o \in Op
    BY OpFacts DEF TypeOK
<1>5. p \in {"login", "auth"}
    OBVIOUS
<1>6. p \in Places /\ p \notin Acting
    BY <1>5, CodeFacts
<1>7. /\ c.kind = "login" => c \in LoginCalls
      /\ c.kind # "login" => c \in Requests \cup {OtherCall}
    <2>1. c \in Requests => c.kind # "login"
        BY OwnCalls
    <2>2. c = OtherCall => c.kind # "login"
        BY DEF OtherCall
    <2>3. c \in LoginCalls => c.kind = "login"
        BY DEF LoginCalls
    <2> QED BY <2>1, <2>2, <2>3 DEF Calls
<1> HIDE DEF o
<1>8. /\ WorkTypes' /\ \A g \in Handlers \ {h} : Same(g)
      /\ pc'[h] = p /\ call'[h] = c /\ began'[h] = Len(hist)
    <2> HIDE DEF p
    <2> QED BY <1>3, <1>4, <1>6, Frame, BecomesFacts
<1>9. ~Acked(h)' /\ ~Unexplained(h)' /\ ~Committed(h)'
    BY <1>5, <1>8 DEF Acked, Unexplained, Committed
<1>10. hist' = hist /\ Len(hist) \in 1 .. Len(hist)
    BY NowIsAState DEF Arrive, TypeOK
<1>11. CallInv(h)'
    BY <1>6, <1>7, <1>8, <1>9, <1>10 DEF CallInv
<1> QED BY <1>5, <1>8, <1>9, <1>11 DEF Keeps

LEMMA ReadConsoleUserKeeps ==
    ASSUME TypeOK, NEW h \in Handlers, CallInv(h), ReadConsoleUser(h)
    PROVE  /\ Keeps(h)
           /\ pc'[h] = "put" =>
                 op'[h].who = [admin |-> call[h].admin,
                               super |-> standing[call[h].admin] = "super",
                               seen |-> clock, made |-> clock]
<1> DEFINE a == call[h].admin
           s == [admin |-> a, super |-> standing[a] = "super", seen |-> clock, made |-> clock]
           o == [op[h] EXCEPT !.who = s]
<1>1. a \in Admins
    BY DEF ReadConsoleUser, CallInv, LoginCalls
<1>2. s \in Session
    BY <1>1 DEF TypeOK, Session
<1>3. CASE \E c \in {"INVALID_ARGUMENT", "UNAUTHORIZED", "FORBIDDEN"} : Turn(h, c)
    <2>1. lost' = [lost EXCEPT ![h] = lost[h]] /\ UNCHANGED commit /\ lost[h] \in BOOLEAN
        BY Frame DEF ReadConsoleUser
    <2>2. PICK c \in Codes \ {"INTERNAL_ERROR"} : Turn(h, c)
        BY <1>3, CodeFacts
    <2>3. Keeps(h) /\ pc'[h] = "done"
        BY <2>1, <2>2, TurnKeeps
    <2> QED BY <2>3
<1>4. CASE Learn(h, o) /\ Goto(h, "put") /\ UNCHANGED <<call, began>>
    <2>1. o \in Op /\ o.who = s
        BY <1>2, Frame, OpFacts
    <2> HIDE DEF o, s
    <2>2. Becomes(h, "put", call[h], o, began[h], commit[h], lost[h], code[h])
        BY <1>4, Frame DEF Becomes, Learn, Goto, ReadConsoleUser
    <2>3. /\ WorkTypes' /\ \A g \in Handlers \ {h} : Same(g)
          /\ pc'[h] = "put" /\ op'[h] = o
        <3>1. "put" \in Places /\ "put" \notin Acting
            BY CodeFacts
        <3>2. /\ WorkTypes /\ call[h] \in Calls \cup {NoCall} /\ began[h] \in Nat
              /\ commit[h] \in Nat /\ lost[h] \in BOOLEAN /\ code[h] \in Codes
            BY Frame
        <3> QED BY <2>1, <2>2, <3>1, <3>2, BecomesFacts
    <2>4. ~Acked(h)' /\ ~Unexplained(h)' /\ ~Committed(h)'
        BY <2>3 DEF Acked, Unexplained, Committed
    <2>5. CallInv(h)'
        BY <2>3, <2>4 DEF CallInv, Acting
    <2> QED BY <2>1, <2>3, <2>4, <2>5 DEF Keeps, s
<1> QED BY <1>3, <1>4 DEF ReadConsoleUser

LEMMA PutSessionKeeps ==
    ASSUME TypeOK, NEW h \in Handlers, PutSession(h)
    PROVE  Keeps(h) /\ pc'[h] = "done"
<1>1. /\ lost' = [lost EXCEPT ![h] = lost[h]] /\ UNCHANGED commit /\ lost[h] \in BOOLEAN
      /\ Turn(h, "OK") /\ "OK" \in Codes
    BY Frame, CodeFacts DEF PutSession
<1> QED BY <1>1, TurnKeeps

LEMMA AuthenticateKeeps ==
    ASSUME TypeOK, NEW h \in Handlers, CallInv(h), Authenticate(h)
    PROVE  Keeps(h) /\ pc'[h] # "put"
<1> DEFINE s == sessions[op[h].token]
<1>1. CASE \E c \in {"UNAUTHORIZED", "FORBIDDEN", "OK", "INVALID_ARGUMENT"} : Turn(h, c)
    <2>1. lost' = [lost EXCEPT ![h] = lost[h]] /\ UNCHANGED commit /\ lost[h] \in BOOLEAN
        BY Frame DEF Authenticate
    <2>2. PICK c \in Codes \ {"INTERNAL_ERROR"} : Turn(h, c)
        BY <1>1, CodeFacts
    <2>3. Keeps(h) /\ pc'[h] = "done"
        BY <2>1, <2>2, TurnKeeps
    <2> QED BY <2>3
<1>2. CASE Known(op[h].token) /\ call[h] # OtherCall /\ Accept(h, s.admin)
    <2> DEFINE o == [Nothing EXCEPT !.who = s.admin]
               p == FirstPlace(call[h])
    <2>1. s \in Session /\ s.admin \in Admins
        BY <1>2 DEF Known, TypeOK, Session
    <2>2. o \in Op /\ o.who = s.admin /\ ~o.found /\ o.checked = 0
        BY <2>1, OpFacts DEF Nothing
    <2>3. call[h] \in Requests /\ began[h] \in 1 .. Len(hist)
        BY <1>2 DEF CallInv, Authenticate
    <2>4. /\ p \in {"check", "find"} /\ p \in Places
          /\ p = "find" <=> call[h].kind = "own"
        BY DEF FirstPlace, Places
    <2> HIDE DEF o, p
    <2>5. Becomes(h, p, call[h], o, began[h], commit[h], lost[h], code[h])
        BY <1>2, Frame DEF Becomes, Accept, Learn, Goto, Authenticate, o, p
    <2>6. /\ WorkTypes' /\ \A g \in Handlers \ {h} : Same(g)
          /\ pc'[h] = p /\ call'[h] = call[h] /\ op'[h] = o /\ began'[h] = began[h]
        BY <2>1, <2>2, <2>3, <2>4, <2>5, Frame, BecomesFacts
    <2>7. ~Acked(h)' /\ ~Unexplained(h)' /\ ~Committed(h)'
        BY <2>4, <2>6 DEF Acked, Unexplained, Committed
    <2>8. hist' = hist /\ Len(call[h].needs) \in Nat
        BY <2>3, OwnCalls DEF Authenticate
    <2>9. Ready(h)'
        BY <2>2, <2>6 DEF Ready
    <2>10. CallInv(h)'
        BY <2>2, <2>3, <2>4, <2>6, <2>7, <2>8, <2>9 DEF CallInv
    <2> QED BY <2>4, <2>6, <2>7, <2>10 DEF Keeps
<1> QED BY <1>1, <1>2 DEF Authenticate

LEMMA CheckNeededKeeps ==
    ASSUME TypeOK, NEW h \in Handlers, CallInv(h), CheckNeeded(h)
    PROVE  Keeps(h) /\ pc'[h] # "put"
<1>1. CASE Turn(h, "NOT_FOUND")
    <2>1. /\ lost' = [lost EXCEPT ![h] = lost[h]] /\ UNCHANGED commit
          /\ lost[h] \in BOOLEAN /\ "NOT_FOUND" \in Codes
        BY Frame, CodeFacts DEF CheckNeeded
    <2>2. Keeps(h) /\ pc'[h] = "done"
        BY <1>1, <2>1, TurnKeeps
    <2> QED BY <2>2
<1>2. CASE /\ Registered(Now, call[h].needs[op[h].checked + 1])
           /\ Goto(h, "check") /\ Learn(h, [op[h] EXCEPT !.checked = @ + 1])
           /\ UNCHANGED <<call, began>>
    <2> DEFINE o == [op[h] EXCEPT !.checked = @ + 1]
    <2>1. /\ call[h] \in Requests /\ began[h] \in 1 .. Len(hist)
          /\ call[h].kind # "own" /\ ~op[h].found /\ Ready(h)
          /\ op[h].checked < Len(call[h].needs) /\ op[h].who \in Admins
        BY Frame DEF CallInv, Acting, CheckNeeded, WorkTypes
    <2>2. o \in Op /\ ~o.found /\ o.checked = op[h].checked + 1 /\ o.who = op[h].who
        BY <2>1, Frame, OpFacts
    <2>3. "check" \in Places /\ Len(call[h].needs) \in Nat /\ op[h].checked \in Nat
        BY <2>1, Frame, OwnCalls DEF Places, Op
    <2>4. Becomes(h, "check", call[h], o, began[h], commit[h], lost[h], code[h])
        BY <1>2, Frame DEF Becomes, Learn, Goto, CheckNeeded
    <2> HIDE DEF o
    <2>5. /\ WorkTypes' /\ \A g \in Handlers \ {h} : Same(g)
          /\ pc'[h] = "check" /\ call'[h] = call[h] /\ op'[h] = o /\ began'[h] = began[h]
        <3>1. o.who \in Admins
            BY <2>1, <2>2
        <3>2. /\ WorkTypes /\ call[h] \in Calls \cup {NoCall} /\ began[h] \in Nat
              /\ commit[h] \in Nat /\ lost[h] \in BOOLEAN /\ code[h] \in Codes
            BY Frame
        <3> QED BY <2>1, <2>2, <2>3, <2>4, <3>1, <3>2, BecomesFacts
    <2>6. ~Acked(h)' /\ ~Unexplained(h)' /\ ~Committed(h)' /\ hist' = hist
        BY <2>5 DEF Acked, Unexplained, Committed, CheckNeeded
    <2>7. \A i \in 1 .. o.checked : Registered(Now, call[h].needs[i])
        <3> SUFFICES ASSUME NEW i \in 1 .. o.checked
                     PROVE  Registered(Now, call[h].needs[i])
            OBVIOUS
        <3>1. i \in 1 .. op[h].checked \/ i = op[h].checked + 1
            BY <2>2, <2>3
        <3> QED BY <1>2, <2>1, <3>1 DEF Ready
    <2>8. Ready(h)'
        BY <2>5, <2>6, <2>7 DEF Ready, Now
    <2>9. o.checked <= Len(call[h].needs)
        BY <2>1, <2>2, <2>3
    <2>10. CallInv(h)'
        BY <2>1, <2>2, <2>5, <2>6, <2>8, <2>9 DEF CallInv
    <2> QED BY <2>5, <2>6, <2>10 DEF Keeps
<1> QED BY <1>1, <1>2 DEF CheckNeeded

LEMMA FailedKeeps ==
    ASSUME TypeOK, NEW h \in Handlers, Failed(h), UNCHANGED commit
    PROVE  Keeps(h) /\ pc'[h] = "done"
<1>1. Turn(h, "INTERNAL_ERROR") /\ lost' = [lost EXCEPT ![h] = TRUE]
    BY DEF Failed, Lose
<1>2. "INTERNAL_ERROR" \in Codes
    BY CodeFacts
<1> QED BY <1>1, <1>2, TurnKeeps

LEMMA CheckAbsentKeeps ==
    ASSUME TypeOK, NEW h \in Handlers, CallInv(h), CheckAbsent(h)
    PROVE  Keeps(h) /\ pc'[h] # "put"
<1>1. /\ call[h] \in Requests /\ began[h] \in 1 .. Len(hist)
      /\ ~op[h].found /\ Ready(h) /\ op[h].who \in Admins
      /\ op[h].checked = Len(call[h].needs)
    BY Frame DEF CallInv, Acting, CheckAbsent, WorkTypes
<1>2. CASE Turn(h, call[h].present) /\ UNCHANGED lost
    <2>1. /\ lost' = [lost EXCEPT ![h] = lost[h]] /\ UNCHANGED commit
          /\ lost[h] \in BOOLEAN
        BY <1>2, Frame DEF CheckAbsent
    <2>2. call[h].present \in Codes /\ call[h].present # "INTERNAL_ERROR"
        BY <1>1, OwnCalls
    <2>3. Keeps(h) /\ pc'[h] = "done"
        BY <1>2, <2>1, <2>2, TurnKeeps
    <2> QED BY <2>3
<1>3. CASE /\ Goto(h, "write") /\ UNCHANGED <<call, began, op>>
           /\ IF Registered(Now, call[h].row) THEN Lose(h) ELSE UNCHANGED lost
    <2>1. PICK l \in BOOLEAN :
             lost' = [lost EXCEPT ![h] = l] /\ (Registered(Now, call[h].row) => l)
        BY <1>3, Frame DEF Lose
    <2>2. Becomes(h, "write", call[h], op[h], began[h], commit[h], l, code[h])
        BY <1>3, <2>1, Frame DEF Becomes, Goto, CheckAbsent
    <2>3. "write" \in Places
        BY DEF Places
    <2>4. /\ WorkTypes' /\ \A g \in Handlers \ {h} : Same(g)
          /\ pc'[h] = "write" /\ call'[h] = call[h] /\ op'[h] = op[h]
          /\ began'[h] = began[h] /\ (lost'[h] <=> l)
        <3>1. /\ WorkTypes /\ call[h] \in Calls \cup {NoCall} /\ op[h] \in Op
              /\ began[h] \in Nat /\ commit[h] \in Nat /\ code[h] \in Codes
            BY Frame
        <3> QED BY <1>1, <2>2, <2>3, <3>1, BecomesFacts
    <2>5. ~Acked(h)' /\ ~Unexplained(h)' /\ ~Committed(h)' /\ hist' = hist
        BY <2>4 DEF Acked, Unexplained, Committed, CheckAbsent
    <2>6. Ready(h)' /\ Writing(h)'
        BY <1>1, <2>1, <2>4, <2>5 DEF Ready, Writing, Now
    <2>7. CallInv(h)'
        BY <1>1, <2>4, <2>5, <2>6 DEF CallInv
    <2> QED BY <2>4, <2>5, <2>7 DEF Keeps
<1> QED BY <1>2, <1>3 DEF CheckAbsent

LEMMA FindResourceKeeps ==
    ASSUME TypeOK, NEW h \in Handlers, CallInv(h), FindResource(h)
    PROVE  Keeps(h) /\ pc'[h] # "put"
<1> DEFINE f == Registered(Now, call[h].row)
           o == [op[h] EXCEPT !.found = f]
<1>1. /\ call[h] \in Requests /\ began[h] \in 1 .. Len(hist)
      /\ op[h].who \in Admins /\ call[h].kind = "own" /\ op[h].checked = 0
    BY Frame DEF CallInv, Acting, FindResource, WorkTypes
<1>2. CASE Failed(h)
    BY <1>2, FailedKeeps DEF FindResource
<1>3. CASE Learn(h, o) /\ Goto(h, "write") /\ UNCHANGED <<call, began, lost>>
    <2>1. f \in BOOLEAN
        <3>1. PICK x \in Resources : \E u \in Users : call[h] = OwnerSetting(x, u)
            BY <1>1, OwnCalls
        <3>2. call[h].row[1] = "owner"
            BY <3>1 DEF OwnerSetting
        <3> QED BY <3>2 DEF Registered, ResourceRegistered
    <2>2. o \in Op /\ (o.found <=> f) /\ o.checked = 0 /\ o.who = op[h].who
        <3> HIDE DEF f
        <3> QED BY <1>1, <2>1, Frame, OpFacts
    <2> HIDE DEF o
    <2>3. Becomes(h, "write", call[h], o, began[h], commit[h], lost[h], code[h])
        BY <1>3, Frame DEF Becomes, Goto, Learn, FindResource
    <2>4. "write" \in Places /\ o.who \in Admins
        BY <1>1, <2>2 DEF Places
    <2>5. /\ WorkTypes' /\ \A g \in Handlers \ {h} : Same(g)
          /\ pc'[h] = "write" /\ call'[h] = call[h] /\ op'[h] = o
          /\ began'[h] = began[h] /\ (lost'[h] <=> lost[h])
        BY <1>1, <2>2, <2>3, <2>4, Frame, BecomesFacts
    <2>6. ~Acked(h)' /\ ~Unexplained(h)' /\ ~Committed(h)' /\ hist' = hist
        BY <2>5 DEF Acked, Unexplained, Committed, FindResource
    <2>7. Len(call[h].needs) = 0
        <3>1. call[h].needs = <<>>
            BY <1>1, OwnCalls
        <3> QED BY <3>1
    <2>8. Ready(h)' /\ Writing(h)'
        BY <1>1, <2>2, <2>5, <2>6, <2>7 DEF Ready, Writing, Now
    <2>9. CallInv(h)'
        BY <1>1, <2>5, <2>6, <2>8 DEF CallInv
    <2> QED BY <2>5, <2>6, <2>9 DEF Keeps
<1> QED BY <1>2, <1>3 DEF FindResource

\* A statement that was answered left, or found, what the call asked for.
LEMMA AcknowledgedKeeps ==
    ASSUME TypeOK, HistoryStep, NEW h \in Handlers, pc[h] \in Acting, CallInv(h),
           NEW at \in Nat, at > Len(hist) \/ call[h].kind = "own",
           at \in began[h] .. Len(hist'), InPlace(hist'[at], call[h].row),
           call[h].kind # "own" => CreatedIn(hist', call[h].row, at),
           Acknowledged(h, at)
    PROVE  Keeps(h) /\ pc'[h] # "put"
<1> DEFINE p == IF call[h].kind \in {"create_role", "create_permission"} THEN "id"
                ELSE "audit"
<1>1. CASE Failed(h) /\ UNCHANGED commit
    BY <1>1, FailedKeeps
<1>2. CASE Goto(h, p) /\ commit' = [commit EXCEPT ![h] = at] /\ UNCHANGED <<call, op, began, lost>>
    <2>1. /\ call[h] \in Requests /\ began[h] \in 1 .. Len(hist) /\ op[h].who \in Admins
        BY Frame DEF CallInv, WorkTypes
    <2>2. p \in {"id", "audit"} /\ p \in Places
        BY DEF Places
    <2> HIDE DEF p
    <2>3. Becomes(h, p, call[h], op[h], began[h], at, lost[h], code[h])
        BY <1>2, Frame DEF Becomes, Goto
    <2>4. /\ WorkTypes' /\ \A g \in Handlers \ {h} : Same(g)
          /\ pc'[h] = p /\ call'[h] = call[h] /\ op'[h] = op[h]
          /\ began'[h] = began[h] /\ commit'[h] = at
        BY <2>1, <2>2, <2>3, Frame, BecomesFacts
    <2>5. ~Acked(h)' /\ ~Unexplained(h)'
        BY <2>2, <2>4 DEF Acked, Unexplained
    <2>6. Len(hist) \in Nat \ {0} /\ Len(hist') \in {Len(hist), Len(hist) + 1}
        BY Frame, HistoryKept
    <2>7. began'[h] \in 1 .. Len(hist')
        BY <2>1, <2>4, <2>6
    <2>8. Done(h)'
        BY <2>4 DEF Done, CreatedAt, CreatedIn
    <2>9. CallInv(h)'
        BY <2>1, <2>2, <2>4, <2>5, <2>7, <2>8 DEF CallInv
    <2> QED BY <2>2, <2>4, <2>9 DEF Keeps
<1> QED BY <1>1, <1>2 DEF Acknowledged

\* Why the database may refuse the statement of h.
Refusable(h) ==
    \/ lost[h] \/ Now.app = "absent" \/ Overtaken(h)
    \/ call[h].kind = "own" /\ InPlace(Now, call[h].row)

LEMMA IneffectiveKeeps ==
    ASSUME TypeOK, NEW h \in Handlers, pc[h] \in Acting, CallInv(h), Ineffective(h),
           Refusable(h)
    PROVE  Keeps(h) /\ pc'[h] # "put"
<1>1. call[h] \in Requests /\ began[h] \in 1 .. Len(hist)
    BY DEF CallInv
<1>2. Becomes(h, "done", call[h], Nothing, began[h], commit[h], lost[h], "INTERNAL_ERROR")
    BY Frame DEF Becomes, Ineffective, Answer, Learn
<1>3. "done" \in Places /\ "done" \notin Acting /\ "INTERNAL_ERROR" \in Codes
    BY CodeFacts
<1>4. /\ WorkTypes' /\ \A g \in Handlers \ {h} : Same(g)
      /\ pc'[h] = "done" /\ call'[h] = call[h] /\ began'[h] = began[h]
      /\ (lost'[h] <=> lost[h]) /\ code'[h] = "INTERNAL_ERROR"
    BY <1>2, <1>3, Frame, OpFacts, BecomesFacts
<1>5. ~Acked(h)' /\ ~Committed(h)' /\ hist' = hist
    BY <1>4 DEF Acked, Committed, Ineffective
<1>6. Unexplained(h)' =>
         \/ Now'.app = "absent"
         \/ Overtaken(h)'
         \/ /\ call'[h].kind = "own"
            /\ \E c \in began'[h] .. Len(hist') : InPlace(hist'[c], call'[h].row)
    <2>1. CASE Now.app = "absent"
        BY <1>5, <2>1 DEF Now
    <2>2. CASE Overtaken(h)
        BY <1>4, <1>5, <2>2 DEF Overtaken, CreatedAt
    <2>3. CASE call[h].kind = "own" /\ InPlace(Now, call[h].row)
        <3>1. Len(hist) \in began[h] .. Len(hist)
            BY <1>1, Frame
        <3> QED BY <1>4, <1>5, <2>3, <3>1 DEF Now
    <2>4. CASE lost[h]
        BY <1>4, <2>4 DEF Unexplained
    <2> QED BY <2>1, <2>2, <2>3, <2>4 DEF Refusable
<1>7. CallInv(h)'
    BY <1>1, <1>3, <1>4, <1>5, <1>6 DEF CallInv, Now
<1> QED BY <1>4, <1>5, <1>7 DEF Keeps

LEMMA InsertRowKeeps ==
    ASSUME TypeOK, NEW h \in Handlers, CallInv(h), InsertRow(h)
    PROVE  Keeps(h) /\ pc'[h] # "put" /\ HistoryStep
<1> DEFINE c == call[h]
<1>0. /\ c \in Requests /\ began[h] \in 1 .. Len(hist) /\ Ready(h) /\ pc[h] \in Acting
      /\ op[h].checked = Len(c.needs)
      /\ ~lost[h] => ~Registered(Now, c.row) \/ Overtaken(h)
    BY DEF CallInv, Acting, InsertRow, Writing
<1>1. HistoryOK /\ Now \in PolicyState /\ Len(hist) \in Nat \ {0}
    BY NowIsAState DEF TypeOK
<1>2. CASE /\ CanInsert(Now, c)
           /\ \E d \in Inserted(Now, c.row) : Write(c.kind, d)
           /\ Acknowledged(h, Len(hist'))
    <2>1. PICK d \in Inserted(Now, c.row) : Write(c.kind, d)
        BY <1>2
    <2> HIDE DEF c
    <2>2. Change
        BY <1>0, <1>2, <2>1, InsertIsChange
    <2>3. /\ Now' = d /\ hist' = Append(hist, d) /\ Len(hist') = Len(hist) + 1
        BY <1>1, <2>1, WriteNow
    <2>4. ~Registered(Now, c.row) /\ Registered(d, c.row) /\ InPlace(d, c.row)
        BY <1>0, <1>1, <1>2, <2>1, InsertFacts
    <2>5. hist'[Len(hist')] = d /\ hist'[Len(hist') - 1] = Now
        BY <1>1, <2>3 DEF Now, HistoryOK
    <2>6. Len(hist') > 1 /\ Len(hist') \in began[h] .. Len(hist') /\ Len(hist') > Len(hist)
          /\ Len(hist') \in Nat
        BY <1>0, <1>1, <2>3
    <2>7. CreatedIn(hist', c.row, Len(hist')) /\ InPlace(hist'[Len(hist')], c.row)
        BY <2>4, <2>5, <2>6 DEF CreatedIn
    <2> QED BY <1>0, <1>2, <2>2, <2>6, <2>7, AcknowledgedKeeps DEF HistoryStep, c
<1>3. CASE ~CanInsert(Now, c) /\ Ineffective(h)
    <2>1. /\ Len(c.needs) \in Nat /\ DOMAIN c.needs = 1 .. Len(c.needs)
        BY <1>0, OwnCalls
    <2>2. \A i \in DOMAIN c.needs : Registered(Now, c.needs[i])
        BY <1>0, <2>1 DEF Ready
    <2>3. Now.app = "absent" \/ Registered(Now, c.row)
        BY <1>3, <2>2 DEF CanInsert
    <2>4. lost[h] \/ Now.app = "absent" \/ Overtaken(h)
        BY <1>0, <2>3
    <2>5. HistoryStep
        BY <1>3 DEF HistoryStep, Ineffective
    <2>6. Keeps(h) /\ pc'[h] # "put"
        <3>1. Refusable(h)
            BY <2>4 DEF Refusable
        <3> QED BY <1>0, <1>3, <3>1, IneffectiveKeeps
    <2> QED BY <2>5, <2>6
<1>4. CASE Failed(h) /\ UNCHANGED <<hist, commit>>
    BY <1>4, FailedKeeps DEF HistoryStep
<1> QED BY <1>2, <1>3, <1>4 DEF InsertRow

LEMMA UpdateOwnerKeeps ==
    ASSUME TypeOK, NEW h \in Handlers, CallInv(h), UpdateOwner(h)
    PROVE  Keeps(h) /\ pc'[h] # "put" /\ HistoryStep
<1>0. /\ call[h] \in Requests /\ began[h] \in 1 .. Len(hist) /\ pc[h] \in Acting
      /\ call[h].kind = "own" /\ Registered(Now, call[h].row)
    BY DEF CallInv, Acting, UpdateOwner, Writing
<1>1. HistoryOK /\ Now \in PolicyState /\ Len(hist) \in Nat \ {0}
    BY NowIsAState DEF TypeOK
<1>2. PICK x \in Resources : \E u \in Users : call[h] = OwnerSetting(x, u)
    BY <1>0, OwnCalls
<1>3. PICK u \in Users : call[h] = OwnerSetting(x, u)
    BY <1>2
<1> DEFINE d == OwnerUpdated(Now, x, u)
<1>4. call[h].row = OwnerSetting(x, u).row /\ call[h].row[2] = x /\ call[h].row[3] = u
    BY <1>3 DEF OwnerSetting
<1>5. Now.app # "absent" /\ InPlace(d, call[h].row)
    BY <1>0, <1>1, <1>4, UpdateFacts
<1>6. \/ d # Now /\ Write("own", d) /\ Acknowledged(h, Len(hist'))
      \/ d = Now /\ UNCHANGED hist /\ Acknowledged(h, Len(hist))
      \/ d = Now /\ Ineffective(h)
      \/ Failed(h) /\ UNCHANGED <<hist, commit>>
    BY <1>4 DEF UpdateOwner
<1> HIDE DEF d
<1>7. CASE d # Now /\ Write("own", d) /\ Acknowledged(h, Len(hist'))
    <2>1. HistoryStep
        BY <1>1, <1>5, <1>7, UpdateIsChange DEF d, HistoryStep
    <2>2. hist' = Append(hist, d) /\ Len(hist') = Len(hist) + 1
        BY <1>1, <1>7, WriteNow
    <2>3. /\ hist'[Len(hist')] = d /\ Len(hist') \in Nat
          /\ Len(hist') \in began[h] .. Len(hist')
        BY <1>0, <1>1, <2>2 DEF HistoryOK
    <2> QED BY <1>0, <1>5, <1>7, <2>1, <2>3, AcknowledgedKeeps
<1>8. CASE d = Now /\ UNCHANGED hist /\ Acknowledged(h, Len(hist))
    <2>1. /\ HistoryStep /\ Len(hist) \in began[h] .. Len(hist')
          /\ InPlace(hist'[Len(hist)], call[h].row)
        BY <1>0, <1>1, <1>5, <1>8 DEF HistoryStep, Now
    <2> QED BY <1>0, <1>1, <1>8, <2>1, AcknowledgedKeeps
<1>9. CASE d = Now /\ Ineffective(h)
    BY <1>0, <1>5, <1>9, IneffectiveKeeps DEF HistoryStep, Ineffective, Refusable
<1>10. CASE Failed(h) /\ UNCHANGED <<hist, commit>>
    BY <1>10, FailedKeeps DEF HistoryStep
<1> QED BY <1>6, <1>7, <1>8, <1>9, <1>10

LEMMA ReadIdKeeps ==
    ASSUME TypeOK, NEW h \in Handlers, CallInv(h), ReadId(h)
    PROVE  Keeps(h) /\ pc'[h] # "put"
<1>1. CASE Failed(h)
    BY <1>1, FailedKeeps DEF ReadId
<1>2. CASE Goto(h, "audit") /\ UNCHANGED <<call, op, began, lost>>
    <2>1. /\ call[h] \in Requests /\ began[h] \in 1 .. Len(hist) /\ op[h].who \in Admins
          /\ Committed(h) /\ Done(h)
        BY Frame DEF CallInv, Acting, ReadId, WorkTypes, Committed
    <2>2. Becomes(h, "audit", call[h], op[h], began[h], commit[h], lost[h], code[h])
        BY <1>2, Frame DEF Becomes, Goto, ReadId
    <2>3. "audit" \in Places
        BY DEF Places
    <2>4. /\ WorkTypes' /\ \A g \in Handlers \ {h} : Same(g)
          /\ pc'[h] = "audit" /\ call'[h] = call[h] /\ began'[h] = began[h]
          /\ commit'[h] = commit[h]
        BY <2>1, <2>2, <2>3, Frame, BecomesFacts
    <2>5. ~Acked(h)' /\ ~Unexplained(h)' /\ hist' = hist
        BY <2>4 DEF Acked, Unexplained, ReadId
    <2>6. Done(h)'
        BY <2>1, <2>4, <2>5 DEF Done, CreatedAt
    <2>7. CallInv(h)'
        BY <2>1, <2>4, <2>5, <2>6 DEF CallInv
    <2> QED BY <2>1, <2>4, <2>7 DEF Keeps
<1> QED BY <1>1, <1>2 DEF ReadId

LEMMA WriteAuditLogKeeps ==
    ASSUME TypeOK, NEW h \in Handlers, CallInv(h), WriteAuditLog(h)
    PROVE  Keeps(h) /\ pc'[h] # "put"
<1>1. /\ call[h] \in Requests /\ began[h] \in 1 .. Len(hist)
      /\ Committed(h) /\ Done(h)
    BY DEF CallInv, Acting, WriteAuditLog, Committed
<1>2. Becomes(h, "done", call[h], Nothing, began[h], commit[h], lost[h], "OK")
    BY Frame DEF Becomes, Answer, Learn, WriteAuditLog
<1>3. "done" \in Places /\ "done" \notin Acting /\ "OK" \in Codes
    BY CodeFacts
<1>4. /\ WorkTypes' /\ \A g \in Handlers \ {h} : Same(g)
      /\ pc'[h] = "done" /\ call'[h] = call[h] /\ began'[h] = began[h]
      /\ commit'[h] = commit[h] /\ code'[h] = "OK"
    BY <1>2, <1>3, Frame, OpFacts, BecomesFacts
<1>5. ~Unexplained(h)' /\ hist' = hist
    BY <1>4 DEF Unexplained, WriteAuditLog
<1>6. Done(h)'
    BY <1>1, <1>4, <1>5 DEF Done, CreatedAt
<1>7. CallInv(h)'
    BY <1>1, <1>3, <1>4, <1>5, <1>6 DEF CallInv
<1> QED BY <1>1, <1>4, <1>7 DEF Keeps

\* An answer that was sent, and a process that ends, leave nothing behind.
LEMMA ForgetKeeps ==
    ASSUME TypeOK, NEW S \in SUBSET Handlers, Forget(S)
    PROVE  /\ WorkTypes'
           /\ \A h \in S : CallInv(h)' /\ ~Committed(h)' /\ pc'[h] = "idle"
           /\ \A h \in Handlers \ S : Same(h)
<1>1. WorkTypes
    BY DEF TypeOK, WorkTypes
<1>2. "idle" \in Places /\ "idle" \notin Acting /\ "NONE" \in Codes
    BY DEF Places, Acting, Codes
<1>3. \A h \in S : pc'[h] = "idle" /\ CallInv(h)' /\ ~Committed(h)'
    BY <1>2 DEF Forget, CallInv, Committed, Acked, Unexplained
<1>4. \A h \in Handlers \ S : Same(h)
    BY DEF Forget, Same
<1>5. /\ pc' \in [Handlers -> Places] /\ call' \in [Handlers -> Calls \cup {NoCall}]
      /\ op' \in [Handlers -> Op]
      /\ began' \in [Handlers -> Nat] /\ commit' \in [Handlers -> Nat]
      /\ code' \in [Handlers -> Codes]
    BY <1>1, <1>2, OpFacts DEF Forget, WorkTypes
<1>6. lost' \in [Handlers -> BOOLEAN]
    BY <1>1 DEF Forget, WorkTypes
<1>7. \A h \in Handlers : pc'[h] \in Acting => call'[h] \in Requests /\ op'[h].who \in Admins
    BY <1>1, <1>2, <1>3, <1>4 DEF WorkTypes, Same
<1> QED BY <1>3, <1>4, <1>5, <1>6, <1>7 DEF WorkTypes

\* A call that is now committed was so already, or committed last, or set an
\* owner.
CommitsApart(h) ==
    Committed(h)' =>
        \/ Committed(h) /\ call'[h] = call[h] /\ commit'[h] = commit[h]
        \/ commit'[h] > Len(hist)
        \/ call'[h].kind = "own"

LEMMA StaysDistinct ==
    ASSUME TypeOK, DistinctInv, \A h \in Handlers : CallInv(h),
           NEW h \in Handlers, CommitsApart(h), \A g \in Handlers \ {h} : Same(g)
    PROVE  DistinctInv'
<1>1. ASSUME NEW g \in Handlers \ {h}, Committed(g)'
      PROVE  Committed(g) /\ call'[g] = call[g] /\ commit'[g] = commit[g]
    BY <1>1 DEF Committed, Acked, Same
<1>2. ASSUME NEW g \in Handlers \ {h}, Committed(g)', Committed(h)',
             call'[g].kind # "own", call'[h].kind # "own"
      PROVE  commit'[g] # commit'[h]
    <2>1. Committed(g) /\ call'[g] = call[g] /\ commit'[g] = commit[g]
        BY <1>1, <1>2
    <2>2. CASE Committed(h) /\ call'[h] = call[h] /\ commit'[h] = commit[h]
        BY <1>2, <2>1, <2>2 DEF DistinctInv
    <2>3. CASE commit'[h] > Len(hist)
        <3>1. commit[g] \in began[g] .. Len(hist)
            BY <2>1 DEF CallInv, Done
        <3>2. began[g] \in Nat /\ Len(hist) \in Nat
            BY Frame DEF WorkTypes
        <3> QED BY <2>1, <2>3, <3>1, <3>2
    <2> QED BY <1>2, <2>2, <2>3 DEF CommitsApart
<1>3. ASSUME NEW f \in Handlers \ {h}, NEW g \in Handlers \ {h}, f # g,
             Committed(f)', Committed(g)', call'[f].kind # "own", call'[g].kind # "own"
      PROVE  commit'[f] # commit'[g]
    BY <1>1, <1>3 DEF DistinctInv
<1>4. \A f, g \in Handlers :
         f # g /\ Committed(f)' /\ Committed(g)'
            /\ call'[f].kind # "own" /\ call'[g].kind # "own" => commit'[f] # commit'[g]
    BY <1>2, <1>3
<1> QED BY <1>4 DEF DistinctInv

\* Put together: what a step of h, or of nobody, does to all calls.
LEMMA ServeWork ==
    ASSUME IInv, NEW h \in Handlers, HistoryStep, Keeps(h)
    PROVE  WorkTypes' /\ DistinctInv' /\ \A g \in Handlers : CallInv(g)'
<1>1. \A g \in Handlers \ {h} : CallInv(g)'
    BY CallKept DEF IInv, Keeps
<1>2. DistinctInv'
    BY StaysDistinct DEF IInv, Keeps, CommitsApart
<1> QED BY <1>1, <1>2 DEF Keeps

LEMMA QuietWork ==
    ASSUME IInv, HistoryStep, UNCHANGED workVars
    PROVE  WorkTypes' /\ DistinctInv' /\ \A g \in Handlers : CallInv(g)'
<1>1. WorkTypes /\ \A g \in Handlers : Same(g)
    BY DEF workVars, Same, IInv, TypeOK, WorkTypes
<1>2. WorkTypes'
    BY <1>1 DEF WorkTypes, workVars
<1>3. \A g \in Handlers : CallInv(g)'
    BY <1>1, CallKept DEF IInv
<1>4. DistinctInv'
    BY DEF IInv, DistinctInv, Committed, Acked, workVars
<1> QED BY <1>2, <1>3, <1>4

LEMMA ForgetWork ==
    ASSUME IInv, HistoryStep, NEW S \in SUBSET Handlers, Forget(S)
    PROVE  WorkTypes' /\ DistinctInv' /\ \A g \in Handlers : CallInv(g)'
<1>1. /\ WorkTypes'
      /\ \A h \in S : CallInv(h)' /\ ~Committed(h)'
      /\ \A h \in Handlers \ S : Same(h)
    BY ForgetKeeps DEF IInv
<1>2. \A g \in Handlers : CallInv(g)'
    BY <1>1, CallKept DEF IInv
<1>3. \A g \in Handlers : Committed(g)' =>
         Committed(g) /\ call'[g] = call[g] /\ commit'[g] = commit[g]
    BY <1>1 DEF Committed, Acked, Same
<1>4. \A f, g \in Handlers :
         f # g /\ Committed(f)' /\ Committed(g)'
            /\ call'[f].kind # "own" /\ call'[g].kind # "own" => commit'[f] # commit'[g]
    BY <1>3 DEF IInv, DistinctInv
<1>5. DistinctInv'
    BY <1>4 DEF DistinctInv
<1> QED BY <1>1, <1>2, <1>5

-----------------------------------------------------------------------------
(* Sessions, console users and the audit log.                              *)

ConsoleTypes ==
    /\ standing \in [Admins -> Standings] /\ lostAt \in [Admins -> Nat] /\ clock \in Nat
    /\ DOMAIN sessions \subseteq issued /\ issued \subseteq Tokens
    /\ \A t \in DOMAIN sessions : sessions[t] \in Session

AuditTypes == audits \subseteq [by : Admins, row : {c.row : c \in Requests}, at : Nat]

\* A step that touches neither users nor sessions and reads no user.
LEMMA SessionsUntouched ==
    ASSUME IInv, UNCHANGED <<consoleVars, clock, sessionVars>>,
           \A h \in Handlers : pc'[h] = "put" => pc[h] = "put" /\ op'[h] = op[h]
    PROVE  ConsoleTypes' /\ SessionInv'
<1>1. ConsoleTypes'
    BY DEF ConsoleTypes, IInv, TypeOK, consoleVars, sessionVars
<1>2. SessionInv'
    BY DEF IInv, SessionInv, SessionSound, consoleVars, sessionVars
<1> QED BY <1>1, <1>2

LEMMA ReadConsoleUserSessions ==
    ASSUME IInv, NEW h \in Handlers, ReadConsoleUser(h)
    PROVE  ConsoleTypes' /\ SessionInv'
<1> DEFINE a == call[h].admin
           s == [admin |-> a, super |-> standing[a] = "super", seen |-> clock, made |-> clock]
<1>1. Keeps(h) /\ (pc'[h] = "put" => op'[h].who = s)
    BY ReadConsoleUserKeeps DEF IInv
<1>2. UNCHANGED <<consoleVars, clock, sessionVars>>
    BY DEF ReadConsoleUser
<1>3. ConsoleTypes'
    BY <1>2 DEF ConsoleTypes, IInv, TypeOK, consoleVars, sessionVars
<1>4. a \in Admins /\ clock \in Nat
    BY DEF ReadConsoleUser, CallInv, LoginCalls, IInv, TypeOK
<1>5. s \in Session
    BY <1>4 DEF Session
<1>6. s.seen = clock /\ s.admin = a /\ (s.super <=> standing[a] = "super")
    OBVIOUS
<1>7. s.seen <= clock' /\ (s.super /\ standing'[s.admin] # "super" => s.seen <= lostAt'[s.admin])
    BY <1>2, <1>4, <1>6 DEF consoleVars
<1> HIDE DEF s
<1>8. \A g \in Handlers : pc'[g] = "put" =>
         op'[g].who \in Session /\ SessionSound(op[g].who)'
    <2> SUFFICES ASSUME NEW g \in Handlers, pc'[g] = "put"
                 PROVE  op'[g].who \in Session /\ SessionSound(op[g].who)'
        OBVIOUS
    <2>1. CASE g = h
        BY <1>1, <1>5, <1>7, <2>1 DEF SessionSound
    <2>2. CASE g # h
        <3>1. pc[g] = "put" /\ op'[g] = op[g]
            BY <1>1, <2>2 DEF Keeps, Same
        <3> QED BY <1>2, <3>1 DEF IInv, SessionInv, SessionSound, consoleVars
    <2> QED BY <2>1, <2>2
<1>9. \A t \in DOMAIN sessions' : SessionSound(sessions[t])'
    BY <1>2 DEF IInv, SessionInv, SessionSound, consoleVars, sessionVars
<1> QED BY <1>3, <1>8, <1>9 DEF SessionInv, SessionSound

LEMMA PutSessionSessions ==
    ASSUME IInv, NEW h \in Handlers, PutSession(h)
    PROVE  ConsoleTypes' /\ SessionInv'
<1>1. PICK t \in Tokens \ issued :
         /\ issued' = issued \cup {t}
         /\ sessions' = [s \in DOMAIN sessions \cup {t} |->
               IF s = t THEN [op[h].who EXCEPT !.made = clock] ELSE sessions[s]]
    BY DEF PutSession
<1> DEFINE w == [op[h].who EXCEPT !.made = clock]
<1>2. UNCHANGED <<consoleVars, clock>>
    BY DEF PutSession
<1>3. op[h].who \in Session /\ SessionSound(op[h].who) /\ clock \in Nat
    BY DEF PutSession, IInv, SessionInv, TypeOK
<1>4. w \in Session /\ w.seen = op[h].who.seen /\ w.super = op[h].who.super
      /\ w.admin = op[h].who.admin
    BY <1>3 DEF Session
<1> HIDE DEF w
<1>5. /\ DOMAIN sessions' = DOMAIN sessions \cup {t}
      /\ sessions'[t] = w
      /\ \A s \in DOMAIN sessions \ {t} : sessions'[s] = sessions[s]
    BY <1>1 DEF w
<1>6. ConsoleTypes'
    BY <1>1, <1>2, <1>4, <1>5 DEF ConsoleTypes, IInv, TypeOK, consoleVars
<1>7. w.seen <= clock /\ (w.super /\ standing[w.admin] # "super" => w.seen <= lostAt[w.admin])
    BY <1>3, <1>4 DEF SessionSound
<1>8. \A s \in DOMAIN sessions' :
         /\ sessions'[s].seen <= clock'
         /\ sessions'[s].super /\ standing'[sessions'[s].admin] # "super" =>
               sessions'[s].seen <= lostAt'[sessions'[s].admin]
    BY <1>2, <1>5, <1>7 DEF IInv, SessionInv, SessionSound, consoleVars
<1>9. \A g \in Handlers : pc'[g] = "put" => pc[g] = "put" /\ op'[g] = op[g]
    <2>1. Keeps(h) /\ pc'[h] = "done"
        BY PutSessionKeeps DEF IInv
    <2> QED BY <2>1 DEF Keeps, Same
<1>10. \A g \in Handlers : pc'[g] = "put" =>
          /\ op'[g].who \in Session
          /\ op'[g].who.seen <= clock'
          /\ op'[g].who.super /\ standing'[op'[g].who.admin] # "super" =>
                op'[g].who.seen <= lostAt'[op'[g].who.admin]
    BY <1>2, <1>9 DEF IInv, SessionInv, SessionSound, consoleVars
<1> QED BY <1>6, <1>8, <1>10 DEF SessionInv, SessionSound

\* A user loses his right now, after everything that was read of him.
LEMMA ChangeConsoleUserSessions ==
    ASSUME IInv, NEW a \in Admins, ChangeConsoleUser(a)
    PROVE  ConsoleTypes' /\ SessionInv'
<1>0. /\ standing \in [Admins -> Standings] /\ lostAt \in [Admins -> Nat] /\ clock \in Nat
      /\ UNCHANGED <<clock, sessions, issued, pc, op>>
    BY DEF IInv, TypeOK, ChangeConsoleUser, sessionVars, workVars
<1>1. PICK n \in Standings \ {standing[a]} : standing' = [standing EXCEPT ![a] = n]
    BY DEF ChangeConsoleUser
<1>2. lostAt' = [lostAt EXCEPT ![a] =
         IF standing[a] = "super" THEN clock ELSE IF standing'[a] = "super" THEN 0 ELSE @]
    BY DEF ChangeConsoleUser
<1>3. standing' \in [Admins -> Standings] /\ lostAt' \in [Admins -> Nat]
    BY <1>0, <1>1, <1>2
<1>4. ConsoleTypes'
    BY <1>0, <1>3 DEF IInv, TypeOK, ConsoleTypes
<1>5. ASSUME NEW s \in Session, SessionSound(s) PROVE SessionSound(s)'
    <2>1. /\ s.seen <= clock /\ s.admin \in Admins /\ s.seen \in Nat
          /\ s.super /\ standing[s.admin] # "super" => s.seen <= lostAt[s.admin]
        BY <1>5 DEF SessionSound, Session
    <2>2. CASE s.admin # a
        BY <1>0, <1>1, <1>2, <2>1, <2>2 DEF SessionSound
    <2>3. CASE s.admin = a
        <3>1. standing'[a] = n
            BY <1>0, <1>1
        <3>2. lostAt'[a] = IF standing[a] = "super" THEN clock
                           ELSE IF n = "super" THEN 0 ELSE lostAt[a]
            BY <1>0, <1>2, <3>1
        <3> QED BY <1>0, <2>1, <2>3, <3>1, <3>2 DEF SessionSound
    <2> QED BY <2>2, <2>3
<1>6. /\ \A t \in DOMAIN sessions : sessions[t] \in Session
      /\ SessionInv
    BY DEF IInv, TypeOK
<1>7. /\ \A t \in DOMAIN sessions : SessionSound(sessions[t])'
      /\ \A h \in Handlers : pc[h] = "put" => SessionSound(op[h].who)'
    BY <1>0, <1>5, <1>6 DEF SessionInv, SessionSound
<1> QED BY <1>0, <1>4, <1>6, <1>7 DEF SessionInv, SessionSound

LEMMA AuditsKept ==
    ASSUME IInv, HistoryStep, UNCHANGED audits
    PROVE  AuditTypes' /\ AuditedEditsHappened'
<1>1. HistoryOK /\ AuditTypes
    BY DEF IInv, TypeOK, AuditTypes
<1>2. /\ Len(hist) \in Nat \ {0} /\ Len(hist') \in {Len(hist), Len(hist) + 1}
      /\ \A i \in 1 .. Len(hist) : hist'[i] = hist[i]
      /\ \A row : \A c \in 1 .. Len(hist) :
            CreatedIn(hist, row, c) => CreatedIn(hist', row, c)
    BY <1>1, HistoryKept
<1>3. ASSUME NEW a \in audits
      PROVE  /\ a.at \in 1 .. Len(hist') /\ InPlace(hist'[a.at], a.row)
             /\ a.row[1] # "owner" => CreatedIn(hist', a.row, a.at)
    <2>1. /\ a.at \in 1 .. Len(hist) /\ InPlace(hist[a.at], a.row)
          /\ a.row[1] # "owner" => CreatedIn(hist, a.row, a.at)
        BY DEF IInv, AuditedEditsHappened, CreatedAt, CreatedIn
    <2> QED BY <1>2, <2>1
<1>4. AuditedEditsHappened'
    BY <1>3 DEF AuditedEditsHappened, CreatedAt, CreatedIn
<1> QED BY <1>1, <1>4 DEF AuditTypes

LEMMA AuditWritten ==
    ASSUME IInv, NEW h \in Handlers, WriteAuditLog(h)
    PROVE  AuditTypes' /\ AuditedEditsHappened'
<1> DEFINE a == [by |-> op[h].who, row |-> call[h].row, at |-> commit[h]]
<1>1. CASE UNCHANGED audits
    <2>1. HistoryStep
        BY DEF WriteAuditLog, HistoryStep
    <2> QED BY <1>1, <2>1, AuditsKept
<1>2. CASE audits' = audits \cup {a}
    <2>1. /\ call[h] \in Requests /\ began[h] \in 1 .. Len(hist) /\ Done(h)
          /\ op[h].who \in Admins
        BY DEF IInv, TypeOK, CallInv, Acting, WriteAuditLog, Committed
    <2>2. commit[h] \in 1 .. Len(hist) /\ commit[h] \in Nat
        BY <2>1, Frame DEF IInv, Done
    <2>3. a \in [by : Admins, row : {c.row : c \in Requests}, at : Nat]
        BY <2>1, <2>2
    <2>4. AuditTypes'
        BY <1>2, <2>3 DEF IInv, TypeOK, AuditTypes
    <2>5. call[h].kind = "own" <=> call[h].row[1] = "owner"
        BY <2>1, OwnCalls
    <2>6. /\ a.at \in 1 .. Len(hist) /\ InPlace(hist[a.at], a.row)
          /\ a.row[1] # "owner" => CreatedIn(hist, a.row, a.at)
        BY <2>1, <2>2, <2>5 DEF Done, CreatedAt, CreatedIn
    <2>7. hist' = hist
        BY DEF WriteAuditLog
    <2>8. \A b \in audits :
             /\ b.at \in 1 .. Len(hist) /\ InPlace(hist[b.at], b.row)
             /\ b.row[1] # "owner" => CreatedIn(hist, b.row, b.at)
        BY DEF IInv, AuditedEditsHappened, CreatedAt, CreatedIn
    <2> HIDE DEF a
    <2>9. \A b \in audits' :
             /\ b.at \in 1 .. Len(hist') /\ InPlace(hist'[b.at], b.row)
             /\ b.row[1] # "owner" => CreatedIn(hist', b.row, b.at)
        BY <1>2, <2>6, <2>7, <2>8
    <2> QED BY <2>4, <2>9 DEF AuditedEditsHappened, CreatedAt, CreatedIn
<1> QED BY <1>1, <1>2 DEF WriteAuditLog

-----------------------------------------------------------------------------
(* The invariant and what follows from it.                                 *)

\* The invariant after a step, from its parts.
LEMMA Assemble ==
    ASSUME IInv, HistoryStep, WorkTypes', DistinctInv', \A h \in Handlers : CallInv(h)',
           ConsoleTypes', SessionInv', AuditTypes', AuditedEditsHappened'
    PROVE  IInv'
<1>1. HistoryOK'
    BY HistoryKept DEF IInv, TypeOK
<1>2. TypeOK'
    BY <1>1 DEF TypeOK, WorkTypes, ConsoleTypes, AuditTypes
<1> QED BY <1>2 DEF IInv

\* Steps of a handler that is not at the login and does not write to the log.
LEMMA ServeStep ==
    ASSUME IInv, NEW h \in Handlers, HistoryStep, Keeps(h), pc'[h] # "put",
           UNCHANGED <<consoleVars, clock, sessionVars, audits>>
    PROVE  IInv'
<1>1. WorkTypes' /\ DistinctInv' /\ \A g \in Handlers : CallInv(g)'
    BY ServeWork
<1>2. \A g \in Handlers : pc'[g] = "put" => pc[g] = "put" /\ op'[g] = op[g]
    BY DEF Keeps, Same
<1>3. ConsoleTypes' /\ SessionInv'
    BY <1>2, SessionsUntouched
<1>4. AuditTypes' /\ AuditedEditsHappened'
    BY AuditsKept
<1> QED BY <1>1, <1>3, <1>4, Assemble

\* Steps of nobody's call.
LEMMA QuietStep ==
    ASSUME IInv, HistoryStep, UNCHANGED <<workVars, audits>>, ConsoleTypes', SessionInv'
    PROVE  IInv'
BY QuietWork, AuditsKept, Assemble

LEMMA InitIInv == Init => IInv
<1> SUFFICES ASSUME Init PROVE IInv
    OBVIOUS
<1> USE DEF Init
<1>1. HistoryOK
    BY FirstStateAssumption DEF HistoryOK
<1>2. WorkTypes
    BY OpFacts DEF WorkTypes, Places, Acting, Codes
<1>3. ConsoleTypes /\ AuditTypes
    BY DEF ConsoleTypes, AuditTypes, Standings
<1>4. TypeOK
    BY <1>1, <1>2, <1>3 DEF TypeOK, WorkTypes, ConsoleTypes, AuditTypes
<1>5. \A h \in Handlers : pc[h] = "idle"
    OBVIOUS
<1>6. \A h \in Handlers : CallInv(h) /\ ~Committed(h)
    BY <1>5 DEF CallInv, Committed, Acked, Unexplained, Acting
<1>7. SessionInv /\ AuditedEditsHappened
    BY <1>5 DEF SessionInv, AuditedEditsHappened
<1> QED BY <1>4, <1>6, <1>7 DEF IInv, DistinctInv

LEMMA NextStep == IInv /\ [Next]_vars => IInv' /\ HistoryStep
<1> SUFFICES ASSUME IInv, [Next]_vars PROVE IInv' /\ HistoryStep
    OBVIOUS
<1>0. TypeOK /\ \A h \in Handlers : CallInv(h)
    BY DEF IInv
<1>1. ASSUME NEW h \in Handlers, Arrive(h) PROVE IInv' /\ HistoryStep
    BY <1>0, <1>1, ArriveKeeps, ServeStep DEF Arrive, HistoryStep
<1>2. ASSUME NEW h \in Handlers, ReadConsoleUser(h) PROVE IInv' /\ HistoryStep
    <2>1. HistoryStep /\ UNCHANGED audits
        BY <1>2 DEF ReadConsoleUser, HistoryStep
    <2>2. WorkTypes' /\ DistinctInv' /\ \A g \in Handlers : CallInv(g)'
        BY <1>0, <1>2, <2>1, ReadConsoleUserKeeps, ServeWork
    <2>3. ConsoleTypes' /\ SessionInv'
        BY <1>2, ReadConsoleUserSessions
    <2> QED BY <2>1, <2>2, <2>3, AuditsKept, Assemble
<1>3. ASSUME NEW h \in Handlers, PutSession(h) PROVE IInv' /\ HistoryStep
    <2>1. HistoryStep /\ UNCHANGED audits
        BY <1>3 DEF PutSession, HistoryStep
    <2>2. WorkTypes' /\ DistinctInv' /\ \A g \in Handlers : CallInv(g)'
        BY <1>0, <1>3, <2>1, PutSessionKeeps, ServeWork
    <2>3. ConsoleTypes' /\ SessionInv'
        BY <1>3, PutSessionSessions
    <2> QED BY <2>1, <2>2, <2>3, AuditsKept, Assemble
<1>4. ASSUME NEW h \in Handlers, Authenticate(h) PROVE IInv' /\ HistoryStep
    BY <1>0, <1>4, AuthenticateKeeps, ServeStep DEF Authenticate, HistoryStep
<1>5. ASSUME NEW h \in Handlers, CheckNeeded(h) PROVE IInv' /\ HistoryStep
    BY <1>0, <1>5, CheckNeededKeeps, ServeStep DEF CheckNeeded, HistoryStep
<1>6. ASSUME NEW h \in Handlers, CheckAbsent(h) PROVE IInv' /\ HistoryStep
    BY <1>0, <1>6, CheckAbsentKeeps, ServeStep DEF CheckAbsent, HistoryStep
<1>7. ASSUME NEW h \in Handlers, FindResource(h) PROVE IInv' /\ HistoryStep
    BY <1>0, <1>7, FindResourceKeeps, ServeStep DEF FindResource, HistoryStep
<1>8. ASSUME NEW h \in Handlers, InsertRow(h) PROVE IInv' /\ HistoryStep
    BY <1>0, <1>8, InsertRowKeeps, ServeStep DEF InsertRow
<1>9. ASSUME NEW h \in Handlers, UpdateOwner(h) PROVE IInv' /\ HistoryStep
    BY <1>0, <1>9, UpdateOwnerKeeps, ServeStep DEF UpdateOwner
<1>10. ASSUME NEW h \in Handlers, ReadId(h) PROVE IInv' /\ HistoryStep
    BY <1>0, <1>10, ReadIdKeeps, ServeStep DEF ReadId, HistoryStep
<1>11. ASSUME NEW h \in Handlers, WriteAuditLog(h) PROVE IInv' /\ HistoryStep
    <2>1. HistoryStep /\ UNCHANGED <<consoleVars, clock, sessionVars>>
        BY <1>11 DEF WriteAuditLog, HistoryStep
    <2>2. Keeps(h) /\ pc'[h] # "put"
        BY <1>0, <1>11, WriteAuditLogKeeps
    <2>3. WorkTypes' /\ DistinctInv' /\ \A g \in Handlers : CallInv(g)'
        BY <2>1, <2>2, ServeWork
    <2>4. ConsoleTypes' /\ SessionInv'
        BY <2>1, <2>2, SessionsUntouched DEF Keeps, Same
    <2>5. AuditTypes' /\ AuditedEditsHappened'
        BY <1>11, AuditWritten
    <2> QED BY <2>1, <2>3, <2>4, <2>5, Assemble
<1>12. ASSUME NEW S \in SUBSET Handlers, Forget(S), ConsoleTypes', SessionInv',
              UNCHANGED <<hist, audits>>
       PROVE  IInv' /\ HistoryStep
    <2>1. HistoryStep
        BY <1>12 DEF HistoryStep
    <2>2. WorkTypes' /\ DistinctInv' /\ \A g \in Handlers : CallInv(g)'
        BY <1>12, <2>1, ForgetWork
    <2> QED BY <1>12, <2>1, <2>2, AuditsKept, Assemble
<1>13. ASSUME NEW h \in Handlers, Respond(h) PROVE IInv' /\ HistoryStep
    <2>1. \A g \in Handlers : pc'[g] = "put" => pc[g] = "put" /\ op'[g] = op[g]
        <3>1. /\ \A g \in {h} : pc'[g] = "idle"
              /\ \A g \in Handlers \ {h} : Same(g)
            BY <1>0, <1>13, ForgetKeeps DEF Respond
        <3> QED BY <3>1 DEF Same
    <2>2. ConsoleTypes' /\ SessionInv'
        BY <1>13, <2>1, SessionsUntouched DEF Respond
    <2> QED BY <1>12, <1>13, <2>2 DEF Respond
<1>14. CASE Restart
    <2>1. \A h \in Handlers : pc'[h] = "idle"
        BY <1>0, <1>14, ForgetKeeps DEF Restart
    <2>2. DOMAIN sessions' = {}
        BY <1>14 DEF Restart
    <2>3. ConsoleTypes' /\ SessionInv'
        BY <1>0, <1>14, <2>1, <2>2 DEF ConsoleTypes, SessionInv, TypeOK, Restart, consoleVars
    <2> QED BY <1>12, <1>14, <2>3 DEF Restart
<1>15. ASSUME NEW t \in Tokens, DropSession(t) PROVE IInv' /\ HistoryStep
    <2>1. /\ DOMAIN sessions' = DOMAIN sessions \ {t}
          /\ \A s \in DOMAIN sessions' : sessions'[s] = sessions[s]
          /\ UNCHANGED <<consoleVars, clock, issued, pc, op>>
        BY <1>15 DEF DropSession, workVars
    <2>2. ConsoleTypes' /\ SessionInv'
        BY <1>0, <2>1 DEF ConsoleTypes, IInv, SessionInv, SessionSound, TypeOK, consoleVars
    <2> QED BY <1>15, <2>2, QuietStep DEF DropSession, HistoryStep
<1>16. ASSUME NEW a \in Admins, ChangeConsoleUser(a) PROVE IInv' /\ HistoryStep
    BY <1>16, ChangeConsoleUserSessions, QuietStep DEF ChangeConsoleUser, HistoryStep
<1>17. CASE Tick
    <2>1. /\ clock \in Nat /\ clock' = clock + 1
          /\ UNCHANGED <<consoleVars, sessionVars, pc, op>>
        BY <1>0, <1>17 DEF Tick, TypeOK, workVars
    <2>2. \A s \in Session : SessionSound(s) => SessionSound(s)'
        BY <2>1 DEF Session, SessionSound, consoleVars
    <2>3. ConsoleTypes' /\ \A t \in DOMAIN sessions : sessions[t] \in Session
        BY <1>0, <2>1 DEF ConsoleTypes, TypeOK, consoleVars, sessionVars
    <2>4. SessionInv'
        BY <2>1, <2>2, <2>3 DEF IInv, SessionInv, SessionSound, sessionVars
    <2> QED BY <1>17, <2>3, <2>4, QuietStep DEF Tick, HistoryStep
<1>18. CASE Administer
    <2>1. HistoryStep
        BY <1>18 DEF Administer, HistoryStep, Change
    <2>2. ConsoleTypes' /\ SessionInv'
        BY <1>18, SessionsUntouched DEF Administer, workVars
    <2> QED BY <1>18, <2>1, <2>2, QuietStep DEF Administer
<1>19. CASE UNCHANGED vars
    <2>1. HistoryStep
        BY <1>19 DEF HistoryStep, vars
    <2>2. ConsoleTypes' /\ SessionInv'
        BY <1>19, SessionsUntouched DEF vars, workVars
    <2> QED BY <1>19, <2>1, <2>2, QuietStep DEF vars
<1> QED BY <1>1, <1>2, <1>3, <1>4, <1>5, <1>6, <1>7, <1>8, <1>9, <1>10, <1>11, <1>13,
           <1>14, <1>15, <1>16, <1>17, <1>18, <1>19 DEF Next, Serve

\* The invariant above holds of every reachable state.
THEOREM Invariance == Spec => []IInv
<1>1. IInv /\ [Next]_vars => IInv'
    BY NextStep
<1> QED BY InitIInv, <1>1, PTL DEF Spec

\* Calls, sessions, console users and audit rows keep their types, and only a
\* request of an identified administrator gets to the tables.
THEOREM TypeCorrect == Spec => []TypeOK
<1>1. IInv => TypeOK
    BY DEF IInv
<1> QED BY <1>1, Invariance, PTL

\* A call answered OK has made its change while it ran, and no two creations
\* answered OK share one.
THEOREM EditsAcknowledgedAreDone == Spec => []AcknowledgedEditDone
<1>1. IInv => AcknowledgedEditDone
    <2> SUFFICES ASSUME IInv PROVE AcknowledgedEditDone
        OBVIOUS
    <2>1. \A h \in Handlers : Acked(h) => Done(h)
        BY DEF IInv, CallInv, Committed
    <2>2. \A g, h \in Handlers :
             g # h /\ Acked(g) /\ Acked(h) /\ call[g].kind # "own" /\ call[h].kind # "own"
                => commit[g] # commit[h]
        BY DEF IInv, DistinctInv, Committed
    <2> QED BY <2>1, <2>2 DEF AcknowledgedEditDone, Done
<1> QED BY <1>1, Invariance, PTL

\* Every row of the audit log names a state that holds what the row says, and,
\* if the row was created, the state that it was created in.
THEOREM AuditsTellTheTruth == Spec => []AuditedEditsHappened
<1>1. IInv => AuditedEditsHappened
    BY DEF IInv
<1> QED BY <1>1, Invariance, PTL

\* Without a failed statement an internal error means a race that was lost, a
\* resource that had its owner already, or an unknown application: what was
\* checked before cannot have gone away.
THEOREM ErrorsExplained == Spec => []InternalErrorExplained
<1>1. IInv => InternalErrorExplained
    BY DEF IInv, CallInv, Unexplained, Overtaken, InternalErrorExplained
<1> QED BY <1>1, Invariance, PTL

\* The statements of a call, put together, are one change of PolicyStore.
THEOREM StoreChangesOnly == Spec => EditsAreStoreChanges
<1>1. IInv /\ [Next]_vars => [hist' # hist => Change]_hist
    BY NextStep DEF HistoryStep
<1> QED BY <1>1, Invariance, PTL DEF Spec, EditsAreStoreChanges

\* An administrator who was disabled or demoted does not pass authenticateOperator
\* for longer than a session lives after that, whatever the other threads do.
THEOREM LockedOut == Spec => LockedOutByTtl
<1> DEFINE In(h) == pc[h] = "auth" /\ pc'[h] \in Acting
           Late(h) == LET s == sessions[op[h].token] IN
                      \/ standing[s.admin] = "super"
                      \/ clock <= lostAt[s.admin] + Ttl + (s.made - s.seen)
<1>1. ASSUME IInv, [Next]_vars, NEW h \in Handlers, In(h)
      PROVE  Authenticate(h)
    <2>1. pc[h] = "auth" /\ pc'[h] # "auth" /\ pc'[h] # "idle" /\ pc'[h] # "done"
        BY <1>1 DEF Acting
    <2>2. ~Same(h) /\ ~UNCHANGED pc
        BY <2>1 DEF Same
    <2>3. ASSUME NEW g \in Handlers, Serve(g), g # h PROVE Same(h)
        <3>1. TypeOK /\ CallInv(g)
            BY <1>1 DEF IInv
        <3>2. Keeps(g) \/ Respond(g)
            BY <2>3, <3>1, ArriveKeeps, ReadConsoleUserKeeps, PutSessionKeeps,
               AuthenticateKeeps, CheckNeededKeeps, CheckAbsentKeeps, FindResourceKeeps,
               InsertRowKeeps, UpdateOwnerKeeps, ReadIdKeeps, WriteAuditLogKeeps DEF Serve
        <3>3. Respond(g) => Same(h)
            BY <2>3, <3>1, ForgetKeeps DEF Respond
        <3> QED BY <2>3, <3>2, <3>3 DEF Keeps
    <2>4. ~\E g \in Handlers \ {h} : Serve(g)
        BY <2>2, <2>3
    <2>5. ~Restart
        BY <1>1, <2>1, ForgetKeeps DEF Restart, IInv
    <2>6. \/ Serve(h)
          \/ UNCHANGED pc
        BY <1>1, <2>4, <2>5 DEF Next, vars, workVars, DropSession, ChangeConsoleUser,
                                Tick, Administer
    <2> QED BY <2>1, <2>2, <2>6
            DEF Serve, Arrive, ReadConsoleUser, PutSession, CheckNeeded, CheckAbsent,
                FindResource, InsertRow, UpdateOwner, ReadId, WriteAuditLog, Respond
<1>2. ASSUME IInv, NEW h \in Handlers, Authenticate(h), In(h)
      PROVE  Late(h)
    <2> DEFINE s == sessions[op[h].token]
    <2>1. ~\E c : Turn(h, c)
        <3>1. pc'[h] # "done"
            BY <1>2 DEF Acting
        <3>2. pc \in [Handlers -> Places]
            BY <1>2 DEF IInv, TypeOK
        <3> QED BY <3>1, <3>2 DEF Turn, Answer
    <2>2. Known(op[h].token) /\ s.super
        BY <1>2, <2>1 DEF Authenticate
    <2>3. s \in Session /\ SessionSound(s) /\ clock <= s.made + Ttl
        BY <1>2, <2>2 DEF Known, IInv, TypeOK, SessionInv
    <2>4. /\ s.admin \in Admins /\ s.made \in Nat /\ s.seen \in Nat /\ clock \in Nat
          /\ lostAt[s.admin] \in Nat /\ Ttl \in Nat
        BY <1>2, <2>3, TimeAssumption DEF IInv, TypeOK, Session
    <2>5. standing[s.admin] # "super" => s.seen <= lostAt[s.admin]
        BY <2>2, <2>3 DEF SessionSound
    <2> HIDE DEF s
    <2>6. \/ standing[s.admin] = "super"
          \/ clock <= lostAt[s.admin] + Ttl + (s.made - s.seen)
        BY <2>3, <2>4, <2>5
    <2> QED BY <2>6 DEF s
<1>3. IInv /\ [Next]_vars => \A h \in Handlers : In(h) => Late(h)
    BY <1>1, <1>2
<1>4. IInv /\ [Next]_vars => [\A h \in Handlers : In(h) => Late(h)]_vars
    BY <1>3
<1> QED BY <1>4, Invariance, PTL DEF Spec, LockedOutByTtl
=============================================================================
