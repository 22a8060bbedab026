----------------------- MODULE PolicySnapshot_proofs -----------------------
(***************************************************************************)
(* A snapshot that is written as JSON and read back is the snapshot that   *)
(* was taken, and the agent decides from its index what the centre decides *)
(* from the tables.                                                        *)
(***************************************************************************)
EXTENDS PolicySnapshot, TLAPS

-----------------------------------------------------------------------------
(* The document.                                                           *)

\* An array of objects is read as the objects written.
LEMMA ItemsOfArray ==
    ASSUME NEW root, NEW key \in DOMAIN root, NEW S,
           root[key] = Array({Object(fields) : fields \in S})
    PROVE  Items(root, key) = S
<1> DEFINE written == {Object(fields) : fields \in S}
<1>1. root[key].type = "array" /\ root[key].value = written
    BY DEF Array, Value
<1>2. Field(root, key, "array", {}) = written
    BY <1>1 DEF Field
<1>3. \A i \in written : i.type = "object"
    BY DEF Object, Value
<1>4. Items(root, key) = {item.value : item \in written}
    <2> HIDE DEF written
    <2> QED BY <1>2, <1>3 DEF Items
<1>5. \A fields : Object(fields).value = fields
    BY DEF Object, Value
<1> QED BY <1>4, <1>5

\* Reading the fields of a row gives the row.
LEMMA RowsBack ==
    /\ \A r : r = [role_key |-> r.role_key, enabled |-> r.enabled]
              => ReadRole(RoleFields(r)) = r
    /\ \A p : p = [perm_key |-> p.perm_key, resource_type |-> p.resource_type,
                   owner_shortcut_enabled |-> p.owner_shortcut_enabled,
                   enabled |-> p.enabled]
              => ReadPermission(PermissionFields(p)) = p
    /\ \A b : b = [role_key |-> b.role_key, perm_key |-> b.perm_key]
              => ReadBinding(BindingFields(b)) = b
    /\ \A g : g = [user_id |-> g.user_id, role_key |-> g.role_key]
              => ReadGrant(GrantFields(g)) = g
    /\ \A x : x = [resource_id |-> x.resource_id, owner_user_id |-> x.owner_user_id,
                   enabled |-> x.enabled]
              => ReadOwner(OwnerFields(x)) = x
    /\ \A i, a, v : i = [app_code |-> i.app_code, enabled |-> i.enabled,
                         policy_version |-> i.policy_version]
                    => ReadApp(AppFields(i), a, v) = i
<1> USE DEF StringField, BoolField, Field, String, Bool, Value
<1>1. ASSUME NEW r, r = [role_key |-> r.role_key, enabled |-> r.enabled]
      PROVE  ReadRole(RoleFields(r)) = r
    BY <1>1 DEF ReadRole, RoleFields
<1>2. ASSUME NEW p, p = [perm_key |-> p.perm_key, resource_type |-> p.resource_type,
                         owner_shortcut_enabled |-> p.owner_shortcut_enabled,
                         enabled |-> p.enabled]
      PROVE  ReadPermission(PermissionFields(p)) = p
    BY <1>2 DEF ReadPermission, PermissionFields
<1>3. ASSUME NEW b, b = [role_key |-> b.role_key, perm_key |-> b.perm_key]
      PROVE  ReadBinding(BindingFields(b)) = b
    BY <1>3 DEF ReadBinding, BindingFields
<1>4. ASSUME NEW g, g = [user_id |-> g.user_id, role_key |-> g.role_key]
      PROVE  ReadGrant(GrantFields(g)) = g
    BY <1>4 DEF ReadGrant, GrantFields
<1>5. ASSUME NEW x, x = [resource_id |-> x.resource_id, owner_user_id |-> x.owner_user_id,
                         enabled |-> x.enabled]
      PROVE  ReadOwner(OwnerFields(x)) = x
    BY <1>5 DEF ReadOwner, OwnerFields
<1>6. ASSUME NEW i, NEW a, NEW v,
             i = [app_code |-> i.app_code, enabled |-> i.enabled,
                  policy_version |-> i.policy_version]
      PROVE  ReadApp(AppFields(i), a, v) = i
    BY <1>6 DEF ReadApp, AppFields, Number
<1> QED BY <1>1, <1>2, <1>3, <1>4, <1>5, <1>6

\* What BuildSnapshotJsonText writes for a state of the tables,
\* deserializeSnapshotFromJson reads back, whatever the columns of the row say:
\* no default is ever taken and no flag is lost.
THEOREM SnapshotReadBack ==
    ASSUME NEW app, NEW version, NEW d \in PolicyState, NEW a, NEW v
    PROVE  ReadSnapshotJson(BuildSnapshotJson(SelectPolicy(app, version, d)), a, v) =
               SelectPolicy(app, version, d)
<1> DEFINE s == SelectPolicy(app, version, d)
           doc == BuildSnapshotJson(s)
<1>1. ReadApp(Field(doc, "app_info", "object", NoFields), a, v) = s.app_info
    <2>1. Field(doc, "app_info", "object", NoFields) = AppFields(s.app_info)
        BY DEF BuildSnapshotJson, Field, Object, Value
    <2>2. s.app_info = [app_code |-> s.app_info.app_code, enabled |-> s.app_info.enabled,
                        policy_version |-> s.app_info.policy_version]
        BY DEF SelectPolicy
    <2> HIDE DEF doc, s
    <2> QED BY <2>1, <2>2, RowsBack
<1>2. {ReadRole(o) : o \in Items(doc, "roles")} = s.roles
    <2> DEFINE written == {RoleFields(r) : r \in s.roles}
    <2>1. /\ "roles" \in DOMAIN doc
          /\ doc["roles"] = Array({Object(o) : o \in written})
        BY DEF BuildSnapshotJson
    <2>2. Items(doc, "roles") = written
        <3> HIDE DEF written, doc
        <3> QED BY <2>1, ItemsOfArray
    <2>3. \A r \in s.roles :
             r = [role_key |-> r.role_key, enabled |-> r.enabled]
        BY DEF SelectPolicy
    <2> HIDE DEF s, doc
    <2>4. \A r \in s.roles : ReadRole(RoleFields(r)) = r
        BY <2>3, RowsBack
    <2>5. {ReadRole(o) : o \in written} = s.roles
        BY <2>4
    <2> QED BY <2>2, <2>5
<1>3. {ReadPermission(o) : o \in Items(doc, "permissions")} = s.permissions
    <2> DEFINE written == {PermissionFields(p) : p \in s.permissions}
    <2>1. /\ "permissions" \in DOMAIN doc
          /\ doc["permissions"] = Array({Object(o) : o \in written})
        BY DEF BuildSnapshotJson
    <2>2. Items(doc, "permissions") = written
        <3> HIDE DEF written, doc
        <3> QED BY <2>1, ItemsOfArray
    <2>3. \A p \in s.permissions :
             p = [perm_key |-> p.perm_key, resource_type |-> p.resource_type,
                 owner_shortcut_enabled |-> p.owner_shortcut_enabled, enabled |-> p.enabled]
        BY DEF SelectPolicy
    <2> HIDE DEF s, doc
    <2>4. \A p \in s.permissions : ReadPermission(PermissionFields(p)) = p
        BY <2>3, RowsBack
    <2>5. {ReadPermission(o) : o \in written} = s.permissions
        BY <2>4
    <2> QED BY <2>2, <2>5
<1>4. {ReadBinding(o) : o \in Items(doc, "role_permission_bindings")} = s.role_permission_bindings
    <2> DEFINE written == {BindingFields(b) : b \in s.role_permission_bindings}
    <2>1. /\ "role_permission_bindings" \in DOMAIN doc
          /\ doc["role_permission_bindings"] = Array({Object(o) : o \in written})
        BY DEF BuildSnapshotJson
    <2>2. Items(doc, "role_permission_bindings") = written
        <3> HIDE DEF written, doc
        <3> QED BY <2>1, ItemsOfArray
    <2>3. \A b \in s.role_permission_bindings :
             b = [role_key |-> b.role_key, perm_key |-> b.perm_key]
        BY DEF SelectPolicy
    <2> HIDE DEF s, doc
    <2>4. \A b \in s.role_permission_bindings : ReadBinding(BindingFields(b)) = b
        BY <2>3, RowsBack
    <2>5. {ReadBinding(o) : o \in written} = s.role_permission_bindings
        BY <2>4
    <2> QED BY <2>2, <2>5
<1>5. {ReadGrant(o) : o \in Items(doc, "user_role_bindings")} = s.user_role_bindings
    <2> DEFINE written == {GrantFields(g) : g \in s.user_role_bindings}
    <2>1. /\ "user_role_bindings" \in DOMAIN doc
          /\ doc["user_role_bindings"] = Array({Object(o) : o \in written})
        BY DEF BuildSnapshotJson
    <2>2. Items(doc, "user_role_bindings") = written
        <3> HIDE DEF written, doc
        <3> QED BY <2>1, ItemsOfArray
    <2>3. \A g \in s.user_role_bindings :
             g = [user_id |-> g.user_id, role_key |-> g.role_key]
        BY DEF SelectPolicy
    <2> HIDE DEF s, doc
    <2>4. \A g \in s.user_role_bindings : ReadGrant(GrantFields(g)) = g
        BY <2>3, RowsBack
    <2>5. {ReadGrant(o) : o \in written} = s.user_role_bindings
        BY <2>4
    <2> QED BY <2>2, <2>5
<1>6. {ReadOwner(o) : o \in Items(doc, "resource_owners")} = s.resource_owners
    <2> DEFINE written == {OwnerFields(x) : x \in s.resource_owners}
    <2>1. /\ "resource_owners" \in DOMAIN doc
          /\ doc["resource_owners"] = Array({Object(o) : o \in written})
        BY DEF BuildSnapshotJson
    <2>2. Items(doc, "resource_owners") = written
        <3> HIDE DEF written, doc
        <3> QED BY <2>1, ItemsOfArray
    <2>3. \A x \in s.resource_owners :
             x = [resource_id |-> x.resource_id, owner_user_id |-> x.owner_user_id,
                 enabled |-> x.enabled]
        BY DEF SelectPolicy
    <2> HIDE DEF s, doc
    <2>4. \A x \in s.resource_owners : ReadOwner(OwnerFields(x)) = x
        BY <2>3, RowsBack
    <2>5. {ReadOwner(o) : o \in written} = s.resource_owners
        BY <2>4
    <2> QED BY <2>2, <2>5
<1>7. s = [app_info |-> s.app_info, roles |-> s.roles, permissions |-> s.permissions,
           role_permission_bindings |-> s.role_permission_bindings,
           user_role_bindings |-> s.user_role_bindings,
           resource_owners |-> s.resource_owners]
    BY DEF SelectPolicy
<1> HIDE DEF s, doc
<1>8. ReadSnapshotJson(doc, a, v) = s
    BY <1>1, <1>2, <1>3, <1>4, <1>5, <1>6, <1>7 DEF ReadSnapshotJson
<1> QED BY <1>8 DEF s, doc

\* What a pull hands out, the snapshot it has read written as JSON once more by
\* AgentServiceImpl's own copy of the writer, is the document that is stored.
THEOREM PayloadIsDocument ==
    ASSUME NEW app, NEW version, NEW d \in PolicyState
    PROVE  LET json == BuildSnapshotJson(SelectPolicy(app, version, d)) IN
           BuildSnapshotJson(ReadSnapshotJson(json, app, version)) = json
BY SnapshotReadBack

-----------------------------------------------------------------------------
(* The index.                                                              *)

\* A row whose key no other row has is found under it.
LEMMA RowFound ==
    ASSUME NEW rows, NEW key, NEW row \in rows,
           \A other \in rows : other[key] = row[key] => other = row
    PROVE  /\ row[key] \in DOMAIN RowByKey(rows, key)
           /\ RowByKey(rows, key)[row[key]] = row
<1>1. (CHOOSE other \in rows : other[key] = row[key]) = row
    OBVIOUS
<1> QED BY <1>1 DEF RowByKey

\* The roles of the index are those of the tables, with their status.
LEMMA IndexedRoles ==
    ASSUME NEW app, NEW version, NEW d \in PolicyState
    PROVE  LET index == BuildIndexedSnapshot(SelectPolicy(app, version, d)) IN
           \A r : RoleEnabled(index, r) <=> r \in Roles /\ d.role[r] = "on"
<1> DEFINE s == SelectPolicy(app, version, d)
           Row(r) == [role_key |-> r, enabled |-> d.role[r] = "on"]
           map == RowByKey(s.roles, "role_key")
<1>1. s.roles = {Row(r) : r \in Present(d.role)}
    BY DEF SelectPolicy
<1>2. \A r : Row(r)["role_key"] = r /\ (Row(r).enabled <=> d.role[r] = "on")
    OBVIOUS
<1>3. ASSUME NEW r \in Present(d.role)
      PROVE  r \in DOMAIN map /\ map[r] = Row(r)
    <2>1. Row(r) \in s.roles
        BY <1>1
    <2>2. \A o \in s.roles : o["role_key"] = Row(r)["role_key"] => o = Row(r)
        BY <1>1, <1>2
    <2> HIDE DEF s, Row
    <2> QED BY <1>2, <2>1, <2>2, RowFound
<1>4. DOMAIN map = Present(d.role)
    <2> HIDE DEF Row, s
    <2> QED BY <1>1, <1>2 DEF RowByKey
<1>5. BuildIndexedSnapshot(s).role_key_to_role = map
    BY DEF BuildIndexedSnapshot
<1>6. \A r : r \in Present(d.role) <=> r \in Roles /\ d.role[r] # "absent"
    BY DEF Present, PolicyState
<1> HIDE DEF s, map, Row
<1>7. \A r : RoleEnabled(BuildIndexedSnapshot(s), r) <=> r \in Roles /\ d.role[r] = "on"
    BY <1>2, <1>3, <1>4, <1>5, <1>6 DEF RoleEnabled
<1> QED BY <1>7 DEF s

\* So are the permissions, with their flags and types.
LEMMA IndexedPermissions ==
    ASSUME NEW app, NEW version, NEW d \in PolicyState
    PROVE  LET index == BuildIndexedSnapshot(SelectPolicy(app, version, d))
               map == index.perm_key_to_permission
           IN  /\ \A p : FindPermission(index, p) <=> p \in Perms /\ d.perm[p] = "on"
               /\ \A p : FindPermission(index, p) =>
                     /\ map[p].owner_shortcut_enabled <=> p \in d.shortcut
                     /\ map[p].resource_type = PermType[p]
<1> DEFINE s == SelectPolicy(app, version, d)
           Row(p) == [perm_key |-> p, resource_type |-> PermType[p],
                      owner_shortcut_enabled |-> p \in d.shortcut,
                      enabled |-> d.perm[p] = "on"]
           map == RowByKey(s.permissions, "perm_key")
<1>1. s.permissions = {Row(p) : p \in Present(d.perm)}
    BY DEF SelectPolicy
<1>2. \A p : /\ Row(p)["perm_key"] = p
             /\ Row(p).enabled <=> d.perm[p] = "on"
             /\ Row(p).owner_shortcut_enabled <=> p \in d.shortcut
             /\ Row(p).resource_type = PermType[p]
    OBVIOUS
<1>3. ASSUME NEW p \in Present(d.perm)
      PROVE  p \in DOMAIN map /\ map[p] = Row(p)
    <2>1. Row(p) \in s.permissions
        BY <1>1
    <2>2. \A o \in s.permissions : o["perm_key"] = Row(p)["perm_key"] => o = Row(p)
        BY <1>1, <1>2
    <2> HIDE DEF s, Row
    <2> QED BY <1>2, <2>1, <2>2, RowFound
<1>4. DOMAIN map = Present(d.perm)
    <2> HIDE DEF Row, s
    <2> QED BY <1>1, <1>2 DEF RowByKey
<1>5. BuildIndexedSnapshot(s).perm_key_to_permission = map
    BY DEF BuildIndexedSnapshot
<1>6. \A p : p \in Present(d.perm) <=> p \in Perms /\ d.perm[p] # "absent"
    BY DEF Present, PolicyState
<1> HIDE DEF s, map, Row
<1>7. \A p : FindPermission(BuildIndexedSnapshot(s), p) <=> p \in Perms /\ d.perm[p] = "on"
    BY <1>2, <1>3, <1>4, <1>5, <1>6 DEF FindPermission
<1>8. \A p : FindPermission(BuildIndexedSnapshot(s), p) =>
                /\ map[p].owner_shortcut_enabled <=> p \in d.shortcut
                /\ map[p].resource_type = PermType[p]
    BY <1>2, <1>3, <1>4, <1>5 DEF FindPermission
<1> QED BY <1>5, <1>7, <1>8 DEF s

\* And the resources, with their owners.
LEMMA IndexedResources ==
    ASSUME NEW app, NEW version, NEW d \in PolicyState
    PROVE  LET index == BuildIndexedSnapshot(SelectPolicy(app, version, d)) IN
           /\ \A x : FindResource(index, x) <=> x \in Resources /\ d.resource[x] = "on"
           /\ \A x : FindResource(index, x) =>
                        index.resource_to_detail[x].owner_user_id = d.owner[x]
<1> DEFINE s == SelectPolicy(app, version, d)
           Row(x) == [resource_id |-> x, owner_user_id |-> d.owner[x],
                      enabled |-> d.resource[x] = "on"]
           map == RowByKey(s.resource_owners, "resource_id")
<1>1. s.resource_owners = {Row(x) : x \in Present(d.resource)}
    BY DEF SelectPolicy
<1>2. \A x : /\ Row(x)["resource_id"] = x
             /\ Row(x).enabled <=> d.resource[x] = "on"
             /\ Row(x).owner_user_id = d.owner[x]
    OBVIOUS
<1>3. ASSUME NEW x \in Present(d.resource)
      PROVE  x \in DOMAIN map /\ map[x] = Row(x)
    <2>1. Row(x) \in s.resource_owners
        BY <1>1
    <2>2. \A o \in s.resource_owners : o["resource_id"] = Row(x)["resource_id"] => o = Row(x)
        BY <1>1, <1>2
    <2> HIDE DEF s, Row
    <2> QED BY <1>2, <2>1, <2>2, RowFound
<1>4. DOMAIN map = Present(d.resource)
    <2> HIDE DEF Row, s
    <2> QED BY <1>1, <1>2 DEF RowByKey
<1>5. BuildIndexedSnapshot(s).resource_to_detail = map
    BY DEF BuildIndexedSnapshot
<1>6. \A x : x \in Present(d.resource) <=> x \in Resources /\ d.resource[x] # "absent"
    BY DEF Present, PolicyState
<1> HIDE DEF s, map, Row
<1>7. \A x : FindResource(BuildIndexedSnapshot(s), x) <=> x \in Resources /\ d.resource[x] = "on"
    BY <1>2, <1>3, <1>4, <1>5, <1>6 DEF FindResource
<1>8. \A x : FindResource(BuildIndexedSnapshot(s), x) => map[x].owner_user_id = d.owner[x]
    BY <1>2, <1>3, <1>4, <1>5 DEF FindResource
<1> QED BY <1>5, <1>7, <1>8 DEF s

\* The permission sets of the roles hold the bindings of registered rows.
LEMMA IndexedBindings ==
    ASSUME NEW app, NEW version, NEW d \in PolicyState
    PROVE  LET index == BuildIndexedSnapshot(SelectPolicy(app, version, d))
               table == index.role_to_permissions
           IN  \A r, p : r \in DOMAIN table /\ p \in table[r]
                         <=> <<r, p>> \in d.binds \cap (Present(d.role) \X Present(d.perm))
<1> DEFINE s == SelectPolicy(app, version, d)
           rows == s.role_permission_bindings
           kept == d.binds \cap (Present(d.role) \X Present(d.perm))
           table == [r \in {b.role_key : b \in rows} |->
                        {b.perm_key : b \in {c \in rows : c.role_key = r}}]
<1>1. rows = {[role_key |-> b[1], perm_key |-> b[2]] : b \in kept}
    BY DEF SelectPolicy
<1>2. ASSUME NEW r, NEW p
      PROVE  (\E b \in rows : b.role_key = r /\ b.perm_key = p) <=> <<r, p>> \in kept
    <2>1. \A b \in kept : b = <<b[1], b[2]>>
        BY DEF PolicyState
    <2> HIDE DEF rows, kept
    <2>2. ASSUME <<r, p>> \in kept
          PROVE  \E b \in rows : b.role_key = r /\ b.perm_key = p
        <3>1. [role_key |-> <<r, p>>[1], perm_key |-> <<r, p>>[2]] \in rows
            BY <1>1, <2>2
        <3> QED BY <3>1
    <2>3. ASSUME NEW b \in rows, b.role_key = r, b.perm_key = p
          PROVE  <<r, p>> \in kept
        <3>1. PICK k \in kept : b = [role_key |-> k[1], perm_key |-> k[2]]
            BY <1>1
        <3>2. k = <<r, p>>
            BY <2>1, <2>3, <3>1
        <3> QED BY <3>2
    <2> QED BY <2>2, <2>3
<1>3. BuildIndexedSnapshot(s).role_to_permissions = table
    BY DEF BuildIndexedSnapshot
<1>4. ASSUME NEW r, NEW p
      PROVE  r \in DOMAIN table /\ p \in table[r]
             <=> \E b \in rows : b.role_key = r /\ b.perm_key = p
    <2> HIDE DEF rows
    <2> QED OBVIOUS
<1> HIDE DEF s, table
<1> QED BY <1>2, <1>3, <1>4 DEF s

\* The role sets of the users hold the grants of registered roles.
LEMMA IndexedGrants ==
    ASSUME NEW app, NEW version, NEW d \in PolicyState
    PROVE  LET index == BuildIndexedSnapshot(SelectPolicy(app, version, d))
               table == index.user_to_roles
           IN  \A u, r : u \in DOMAIN table /\ r \in table[u]
                         <=> <<u, r>> \in d.grants /\ r \in Present(d.role)
<1> DEFINE s == SelectPolicy(app, version, d)
           rows == s.user_role_bindings
           kept == {g \in d.grants : g[2] \in Present(d.role)}
           table == [u \in {g.user_id : g \in rows} |->
                        {g.role_key : g \in {h \in rows : h.user_id = u}}]
<1>1. rows = {[user_id |-> g[1], role_key |-> g[2]] : g \in kept}
    BY DEF SelectPolicy
<1>2. ASSUME NEW u, NEW r
      PROVE  (\E g \in rows : g.user_id = u /\ g.role_key = r) <=> <<u, r>> \in kept
    <2>1. \A g \in kept : g = <<g[1], g[2]>>
        BY DEF PolicyState
    <2> HIDE DEF rows, kept
    <2>2. ASSUME <<u, r>> \in kept
          PROVE  \E g \in rows : g.user_id = u /\ g.role_key = r
        <3>1. [user_id |-> <<u, r>>[1], role_key |-> <<u, r>>[2]] \in rows
            BY <1>1, <2>2
        <3> QED BY <3>1
    <2>3. ASSUME NEW g \in rows, g.user_id = u, g.role_key = r
          PROVE  <<u, r>> \in kept
        <3>1. PICK k \in kept : g = [user_id |-> k[1], role_key |-> k[2]]
            BY <1>1
        <3>2. k = <<u, r>>
            BY <2>1, <2>3, <3>1
        <3> QED BY <3>2
    <2> QED BY <2>2, <2>3
<1>3. BuildIndexedSnapshot(s).user_to_roles = table
    BY DEF BuildIndexedSnapshot
<1>4. ASSUME NEW u, NEW r
      PROVE  u \in DOMAIN table /\ r \in table[u]
             <=> \E g \in rows : g.user_id = u /\ g.role_key = r
    <2> HIDE DEF rows
    <2> QED OBVIOUS
<1>5. \A u, r : <<u, r>> \in kept <=> <<u, r>> \in d.grants /\ r \in Present(d.role)
    OBVIOUS
<1> HIDE DEF s, table, kept
<1> QED BY <1>2, <1>3, <1>4, <1>5 DEF s

-----------------------------------------------------------------------------
(* The helpers of LocalSnapshotEngine against the queries of PermissionDAO. *)

\* getUserRoles: bound roles that exist and are enabled, on both sides.
LEMMA UserRolesAgree ==
    ASSUME NEW app, NEW version, NEW d \in PolicyState, d.app = "on", NEW u \in Users
    PROVE  GetUserRoles(BuildIndexedSnapshot(SelectPolicy(app, version, d)), u) =
               UserRoles(d, u)
<1> DEFINE index == BuildIndexedSnapshot(SelectPolicy(app, version, d))
           table == index.user_to_roles
<1>1. \A r : RoleEnabled(index, r) <=> r \in Roles /\ d.role[r] = "on"
    BY IndexedRoles
<1>2. \A r : u \in DOMAIN table /\ r \in table[u]
             <=> <<u, r>> \in d.grants /\ r \in Present(d.role)
    BY IndexedGrants
<1>3. \A r \in Roles : d.role[r] = "on" => r \in Present(d.role)
    BY DEF Present, PolicyState
<1> HIDE DEF index
<1>4. \A r : r \in GetUserRoles(index, u)
             <=> u \in DOMAIN table /\ r \in table[u] /\ RoleEnabled(index, r)
    BY DEF GetUserRoles
<1>5. \A r : r \in GetUserRoles(index, u) <=> r \in UserRoles(d, u)
    BY <1>1, <1>2, <1>3, <1>4 DEF UserRoles
<1>6. GetUserRoles(index, u) = UserRoles(d, u)
    BY <1>5
<1> QED BY <1>6 DEF index

\* getPermissionsByRoles of the user's roles against getUserPermissions.
LEMMA PermissionsAgree ==
    ASSUME NEW app, NEW version, NEW d \in PolicyState, d.app = "on", NEW u \in Users
    PROVE  GetPermissionsByRoles(BuildIndexedSnapshot(SelectPolicy(app, version, d)),
                                 UserRoles(d, u)) = UserPermissions(d, u)
<1> DEFINE index == BuildIndexedSnapshot(SelectPolicy(app, version, d))
           table == index.role_to_permissions
<1>1. \A p : FindPermission(index, p) <=> p \in Perms /\ d.perm[p] = "on"
    BY IndexedPermissions
<1>2. \A r, p : r \in DOMAIN table /\ p \in table[r]
                <=> <<r, p>> \in d.binds \cap (Present(d.role) \X Present(d.perm))
    BY IndexedBindings
<1>3. /\ \A r \in UserRoles(d, u) : r \in Present(d.role)
      /\ \A p \in Perms : d.perm[p] = "on" => p \in Present(d.perm)
    BY DEF Present, PolicyState, UserRoles
<1> HIDE DEF index
<1>4. \A p : p \in GetPermissionsByRoles(index, UserRoles(d, u))
             <=> /\ \E r \in UserRoles(d, u) : r \in DOMAIN table /\ p \in table[r]
                 /\ FindPermission(index, p)
    BY DEF GetPermissionsByRoles
<1>5. \A p : p \in GetPermissionsByRoles(index, UserRoles(d, u)) <=> p \in UserPermissions(d, u)
    BY <1>1, <1>2, <1>3, <1>4 DEF UserPermissions
<1>6. GetPermissionsByRoles(index, UserRoles(d, u)) = UserPermissions(d, u)
    BY <1>5
<1> QED BY <1>6 DEF index

\* getRolesWithPermission, the candidates for the matched roles.
LEMMA RolesWithPermissionAgree ==
    ASSUME NEW app, NEW version, NEW d \in PolicyState, d.app = "on", NEW p \in Perms
    PROVE  GetRolesWithPermission(BuildIndexedSnapshot(SelectPolicy(app, version, d)), p) =
               RolesWithPermission(d, p)
<1> DEFINE index == BuildIndexedSnapshot(SelectPolicy(app, version, d))
           table == index.role_to_permissions
<1>1. FindPermission(index, p) <=> d.perm[p] = "on"
    BY IndexedPermissions
<1>2. \A r : RoleEnabled(index, r) <=> r \in Roles /\ d.role[r] = "on"
    BY IndexedRoles
<1>3. \A r : r \in DOMAIN table /\ p \in table[r]
             <=> <<r, p>> \in d.binds \cap (Present(d.role) \X Present(d.perm))
    BY IndexedBindings
<1>4. /\ \A r \in Roles : d.role[r] = "on" => r \in Present(d.role)
      /\ d.perm[p] = "on" => p \in Present(d.perm)
    BY DEF Present, PolicyState
<1> HIDE DEF index
<1>5. \A r : r \in GetRolesWithPermission(index, p)
             <=> /\ r \in DOMAIN table /\ p \in table[r]
                 /\ FindPermission(index, p) /\ RoleEnabled(index, r)
    BY DEF GetRolesWithPermission
<1>6. \A r : r \in GetRolesWithPermission(index, p) <=> r \in RolesWithPermission(d, p)
    BY <1>1, <1>2, <1>3, <1>4, <1>5 DEF RolesWithPermission
<1>7. GetRolesWithPermission(index, p) = RolesWithPermission(d, p)
    BY <1>6
<1> QED BY <1>7 DEF index

\* tryOwnerShortcut against isOwnerShortcutEnabled and isResourceOwner.
LEMMA OwnersAgree ==
    ASSUME NEW app, NEW version, NEW d \in PolicyState, d.app = "on",
           NEW r \in Requests, r.resource # NoResource
    PROVE  TryOwnerShortcut(BuildIndexedSnapshot(SelectPolicy(app, version, d)), r) <=>
               OwnerShortcutEnabled(d, r.perm) /\ IsResourceOwner(d, r.resource, r.user)
<1> DEFINE index == BuildIndexedSnapshot(SelectPolicy(app, version, d))
<1>1. r.perm \in Perms /\ r.resource \in Resources
    BY DEF Requests
<1>2. /\ FindPermission(index, r.perm) <=> d.perm[r.perm] = "on"
      /\ FindPermission(index, r.perm) =>
            (index.perm_key_to_permission[r.perm].owner_shortcut_enabled
                <=> r.perm \in d.shortcut)
    BY <1>1, IndexedPermissions
<1>3. /\ FindResource(index, r.resource) <=> d.resource[r.resource] = "on"
      /\ FindResource(index, r.resource) =>
            index.resource_to_detail[r.resource].owner_user_id = d.owner[r.resource]
    BY <1>1, IndexedResources
<1> HIDE DEF index
<1>4. TryOwnerShortcut(index, r) <=>
          OwnerShortcutEnabled(d, r.perm) /\ IsResourceOwner(d, r.resource, r.user)
    BY <1>2, <1>3 DEF TryOwnerShortcut, OwnerShortcutEnabled, PermissionExists,
                      IsResourceOwner, ResourceEnabled
<1> QED BY <1>4 DEF index

\* A local decision on a snapshot is the decision of the centre on the tables
\* it was taken of: code, matched roles and owner shortcut, for every policy
\* (local_snapshot_engine.cpp against decision_engine.cpp).
LEMMA IndexDecides ==
    ASSUME NEW app, NEW version, NEW d \in PolicyState, d.app = "on", NEW r \in Requests
    PROVE  LocalDecision(BuildIndexedSnapshot(SelectPolicy(app, version, d)), app, r) =
               Decision(d, r)
<1> DEFINE index == BuildIndexedSnapshot(SelectPolicy(app, version, d))
<1>1. r.user \in Users /\ r.perm \in Perms /\ r.resource \in Resources \cup {NoResource}
    BY DEF Requests
<1>2. index.snapshot.app_info.app_code = app /\ index.snapshot.app_info.enabled
    BY DEF BuildIndexedSnapshot, SelectPolicy
<1>3. /\ GetUserRoles(index, r.user) = UserRoles(d, r.user)
      /\ GetPermissionsByRoles(index, UserRoles(d, r.user)) = UserPermissions(d, r.user)
      /\ GetRolesWithPermission(index, r.perm) = RolesWithPermission(d, r.perm)
    BY <1>1, UserRolesAgree, PermissionsAgree, RolesWithPermissionAgree
<1>4. /\ FindPermission(index, r.perm) <=> PermissionExists(d, r.perm)
      /\ r.resource # NoResource =>
            (FindResource(index, r.resource) <=> ResourceEnabled(d, r.resource))
    BY <1>1, IndexedPermissions, IndexedResources DEF PermissionExists, ResourceEnabled
<1>5. FindPermission(index, r.perm) => (LocalMismatch(index, r) <=> Mismatch(r))
    BY IndexedPermissions DEF LocalMismatch, Mismatch
<1>6. EvaluateByRbac(index, r, UserRoles(d, r.user), UserPermissions(d, r.user)) =
          RbacDecision(d, r)
    BY <1>3 DEF EvaluateByRbac, RbacDecision
<1>7. /\ r.resource = NoResource => ~TryOwnerShortcut(index, r)
      /\ r.resource # NoResource =>
            (TryOwnerShortcut(index, r) <=>
                OwnerShortcutEnabled(d, r.perm) /\ IsResourceOwner(d, r.resource, r.user))
    BY OwnersAgree DEF TryOwnerShortcut
<1> HIDE DEF index
<1>8. LocalDecision(index, app, r) =
        IF ~FindPermission(index, r.perm) THEN Denial("PERMISSION_NOT_FOUND")
        ELSE IF LocalMismatch(index, r) THEN Denial("PERMISSION_DENIED")
        ELSE IF r.resource # NoResource /\ ~FindResource(index, r.resource)
             THEN Denial("RESOURCE_NOT_FOUND")
        ELSE IF TryOwnerShortcut(index, r) THEN OwnerPermit
        ELSE RbacDecision(d, r)
    BY <1>2, <1>3, <1>6 DEF LocalDecision
<1>9. LocalDecision(index, app, r) = Decision(d, r)
    BY <1>4, <1>5, <1>7, <1>8 DEF Decision
<1> QED BY <1>9 DEF index

\* The whole way: a policy that is published, stored as JSON, read back,
\* indexed and asked answers as the tables did, for every policy of an enabled
\* application, every version and every request.
THEOREM LocalAgrees ==
    ASSUME NEW app, NEW version, NEW d \in PolicyState, d.app = "on", NEW r \in Requests
    PROVE  LET json == BuildSnapshotJson(SelectPolicy(app, version, d)) IN
           LocalDecision(BuildIndexedSnapshot(ReadSnapshotJson(json, app, version)), app, r) =
               Decision(d, r)
BY SnapshotReadBack, IndexDecides

\* A permit of an undisturbed evaluation is explained: by an owner or by a role.
LEMMA PermitsExplained ==
    ASSUME NEW d \in PolicyState, NEW r \in Requests, Decision(d, r).code = "OK"
    PROVE  Decision(d, r).owner \/ Decision(d, r).matched # {}
<1>1. r.user \in Users /\ r.perm \in Perms
    BY DEF Requests
<1>2. Decision(d, r) \in {OwnerPermit, RbacDecision(d, r)}
    BY DEF Decision, Denial
<1>3. r.perm \in UserPermissions(d, r.user) =>
         UserRoles(d, r.user) \cap RolesWithPermission(d, r.perm) # {}
    BY <1>1 DEF UserPermissions, UserRoles, RolesWithPermission
<1> QED BY <1>2, <1>3 DEF OwnerPermit, RbacDecision, Permit, Denial

\* A permit of the agent names what it rests on: the owner shortcut or a matched
\* role (fillLocalCheckResponse returns both).
THEOREM LocalPermitsExplained ==
    ASSUME NEW app, NEW version, NEW d \in PolicyState, d.app = "on", NEW r \in Requests
    PROVE  LET json == BuildSnapshotJson(SelectPolicy(app, version, d))
               answer == LocalDecision(
                   BuildIndexedSnapshot(ReadSnapshotJson(json, app, version)), app, r) IN
           answer.code = "OK" => answer.owner \/ answer.matched # {}
BY LocalAgrees, PermitsExplained
=============================================================================
