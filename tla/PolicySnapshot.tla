--------------------------- MODULE PolicySnapshot ---------------------------
(***************************************************************************)
(* The way of a policy into the agent: the rows a publication selects, the *)
(* JSON document it stores, the reader of that document, the index built   *)
(* from what was read, and LocalSnapshotEngine::Check on that index.       *)
(*                                                                         *)
(* Of the columns those a decision depends on are kept.  A JSON object is  *)
(* a function from field names to typed values; a vector of rows is a set, *)
(* since the rows have unique keys and nothing depends on their order.     *)
(***************************************************************************)
EXTENDS PolicyDecision

-----------------------------------------------------------------------------
(* The five SELECTs of a publication.                                      *)

Present(column) == {k \in DOMAIN column : column[k] # "absent"}

\* Disabled rows are selected with their flag; the bindings and the grants are
\* joined with the rows they name.
SelectPolicy(app, version, d) ==
    [app_info |-> [app_code |-> app, enabled |-> d.app = "on", policy_version |-> version],
     roles |-> {[role_key |-> r, enabled |-> d.role[r] = "on"] : r \in Present(d.role)},
     permissions |->
        {[perm_key |-> p, resource_type |-> PermType[p],
          owner_shortcut_enabled |-> p \in d.shortcut, enabled |-> d.perm[p] = "on"] :
            p \in Present(d.perm)},
     role_permission_bindings |->
        {[role_key |-> b[1], perm_key |-> b[2]] :
            b \in d.binds \cap (Present(d.role) \X Present(d.perm))},
     user_role_bindings |->
        {[user_id |-> g[1], role_key |-> g[2]] :
            g \in {h \in d.grants : h[2] \in Present(d.role)}},
     resource_owners |->
        {[resource_id |-> x, owner_user_id |-> d.owner[x], enabled |-> d.resource[x] = "on"] :
            x \in Present(d.resource)}]

-----------------------------------------------------------------------------
(* The document: BuildSnapshotJsonText, of which SnapshotDAO and           *)
(* AgentServiceImpl have a copy each, with the same fields.                *)

Value(type, x) == [type |-> type, value |-> x]
String(x) == Value("string", x)
Number(x) == Value("number", x)
Bool(x) == Value("bool", x)
Object(fields) == Value("object", fields)
Array(items) == Value("array", items)

RoleFields(r) == [role_key |-> String(r.role_key), enabled |-> Bool(r.enabled)]
PermissionFields(p) ==
    [perm_key |-> String(p.perm_key), resource_type |-> String(p.resource_type),
     owner_shortcut_enabled |-> Bool(p.owner_shortcut_enabled), enabled |-> Bool(p.enabled)]
BindingFields(b) == [role_key |-> String(b.role_key), perm_key |-> String(b.perm_key)]
GrantFields(g) == [user_id |-> String(g.user_id), role_key |-> String(g.role_key)]
OwnerFields(x) ==
    [resource_id |-> String(x.resource_id), owner_user_id |-> String(x.owner_user_id),
     enabled |-> Bool(x.enabled)]
AppFields(a) ==
    [app_code |-> String(a.app_code), enabled |-> Bool(a.enabled),
     policy_version |-> Number(a.policy_version)]

BuildSnapshotJson(s) ==
    [app_info |-> Object(AppFields(s.app_info)),
     roles |-> Array({Object(RoleFields(r)) : r \in s.roles}),
     permissions |-> Array({Object(PermissionFields(p)) : p \in s.permissions}),
     role_permission_bindings |->
        Array({Object(BindingFields(b)) : b \in s.role_permission_bindings}),
     user_role_bindings |-> Array({Object(GrantFields(g)) : g \in s.user_role_bindings}),
     resource_owners |-> Array({Object(OwnerFields(x)) : x \in s.resource_owners})]

-----------------------------------------------------------------------------
(* Its reader: deserializeSnapshotFromJson, with the columns of the row.   *)

\* Get..FieldOrDefault: a field that is missing or of another type is not an
\* error.
Field(object, key, type, default) ==
    IF key \in DOMAIN object /\ object[key].type = type THEN object[key].value ELSE default

StringField(object, key) == Field(object, key, "string", "")
BoolField(object, key, default) == Field(object, key, "bool", default)

\* The objects in an array; the items of other types are skipped.
Items(object, key) ==
    {item.value : item \in {i \in Field(object, key, "array", {}) : i.type = "object"}}

NoFields == [key \in {} |-> {}]

ReadRole(o) ==
    [role_key |-> StringField(o, "role_key"), enabled |-> BoolField(o, "enabled", TRUE)]
ReadPermission(o) ==
    [perm_key |-> StringField(o, "perm_key"), resource_type |-> StringField(o, "resource_type"),
     owner_shortcut_enabled |-> BoolField(o, "owner_shortcut_enabled", FALSE),
     enabled |-> BoolField(o, "enabled", TRUE)]
ReadBinding(o) ==
    [role_key |-> StringField(o, "role_key"), perm_key |-> StringField(o, "perm_key")]
ReadGrant(o) ==
    [user_id |-> StringField(o, "user_id"), role_key |-> StringField(o, "role_key")]
ReadOwner(o) ==
    [resource_id |-> StringField(o, "resource_id"),
     owner_user_id |-> StringField(o, "owner_user_id"),
     enabled |-> BoolField(o, "enabled", TRUE)]
ReadApp(o, app, version) ==
    [app_code |-> Field(o, "app_code", "string", app), enabled |-> BoolField(o, "enabled", TRUE),
     policy_version |-> Field(o, "policy_version", "number", version)]

\* app and version are columns of the row, for want of better; they also replace
\* an empty code and a version <= 0, which no writer writes.
ReadSnapshotJson(root, app, version) ==
    [app_info |-> ReadApp(Field(root, "app_info", "object", NoFields), app, version),
     roles |-> {ReadRole(o) : o \in Items(root, "roles")},
     permissions |-> {ReadPermission(o) : o \in Items(root, "permissions")},
     role_permission_bindings |->
        {ReadBinding(o) : o \in Items(root, "role_permission_bindings")},
     user_role_bindings |-> {ReadGrant(o) : o \in Items(root, "user_role_bindings")},
     resource_owners |-> {ReadOwner(o) : o \in Items(root, "resource_owners")}]

-----------------------------------------------------------------------------
(* The index of a snapshot and the helpers of LocalSnapshotEngine.         *)

\* A map filled row by row: the row that has the key.
RowByKey(rows, key) ==
    [k \in {row[key] : row \in rows} |-> CHOOSE row \in rows : row[key] = k]

BuildIndexedSnapshot(s) ==
    [snapshot |-> s,
     role_key_to_role |-> RowByKey(s.roles, "role_key"),
     perm_key_to_permission |-> RowByKey(s.permissions, "perm_key"),
     role_to_permissions |->
        [r \in {b.role_key : b \in s.role_permission_bindings} |->
            {b.perm_key : b \in {c \in s.role_permission_bindings : c.role_key = r}}],
     user_to_roles |->
        [u \in {g.user_id : g \in s.user_role_bindings} |->
            {g.role_key : g \in {h \in s.user_role_bindings : h.user_id = u}}],
     resource_to_detail |-> RowByKey(s.resource_owners, "resource_id")]

\* The role definition exists and is enabled.
RoleEnabled(index, r) ==
    r \in DOMAIN index.role_key_to_role /\ index.role_key_to_role[r].enabled

GetUserRoles(index, u) ==
    {r \in UNION {index.user_to_roles[v] : v \in {u} \cap DOMAIN index.user_to_roles} :
        RoleEnabled(index, r)}

\* findPermission returns a permission that is not a null pointer.
FindPermission(index, p) ==
    /\ p \in DOMAIN index.perm_key_to_permission
    /\ index.perm_key_to_permission[p].enabled

GetPermissionsByRoles(index, roles) ==
    {p \in UNION {index.role_to_permissions[r] :
                     r \in roles \cap DOMAIN index.role_to_permissions} :
        FindPermission(index, p)}

GetRolesWithPermission(index, p) ==
    {r \in DOMAIN index.role_to_permissions :
        /\ FindPermission(index, p)
        /\ p \in index.role_to_permissions[r]
        /\ RoleEnabled(index, r)}

\* The resource is in the snapshot and enabled.
FindResource(index, x) ==
    x \in DOMAIN index.resource_to_detail /\ index.resource_to_detail[x].enabled

TryOwnerShortcut(index, r) ==
    /\ r.resource # NoResource
    /\ FindPermission(index, r.perm)
    /\ index.perm_key_to_permission[r.perm].owner_shortcut_enabled
    /\ FindResource(index, r.resource)
    /\ index.resource_to_detail[r.resource].owner_user_id = r.user

EvaluateByRbac(index, r, roles, permissions) ==
    IF roles = {} THEN Denial("USER_HAS_NO_ROLE")
    ELSE IF r.perm \in permissions
         THEN Permit(roles \cap GetRolesWithPermission(index, r.perm))
    ELSE Denial("PERMISSION_DENIED")

\* The permission found is for resources of another type.
LocalMismatch(index, r) ==
    /\ r.resource # NoResource
    /\ index.perm_key_to_permission[r.perm].resource_type
          \notin {AnyType, ResourceType[r.resource]}

\* Check of a request for the application app.
LocalDecision(index, app, r) ==
    LET roles == GetUserRoles(index, r.user)
        permissions == GetPermissionsByRoles(index, roles)
    IN  IF index.snapshot.app_info.app_code # app THEN Denial("APP_NOT_FOUND")
        ELSE IF ~index.snapshot.app_info.enabled THEN Denial("APP_DISABLED")
        ELSE IF ~FindPermission(index, r.perm) THEN Denial("PERMISSION_NOT_FOUND")
        ELSE IF LocalMismatch(index, r) THEN Denial("PERMISSION_DENIED")
        ELSE IF r.resource # NoResource /\ ~FindResource(index, r.resource)
             THEN Denial("RESOURCE_NOT_FOUND")
        ELSE IF TryOwnerShortcut(index, r) THEN OwnerPermit
        ELSE EvaluateByRbac(index, r, roles, permissions)
=============================================================================
