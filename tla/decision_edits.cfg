SPECIFICATION LiveSpec
CONSTANTS
    Users = {u}
    Roles = {r1, r2}
    Perms = {p, q}
    Resources = {x}
    NoUser = NoUser
    NoResource = NoResource
    NoRequest = NoRequest
    Types = {t1, t2}
    AnyType = AnyType
    PermType <- MCPermType
    ResourceType <- MCResourceType
    Workers = {w1}
    FirstState <- Started
    Edits = {"create_role", "create_permission", "bind", "grant", "own", "publish", "switch_app", "switch_role", "switch_permission", "switch_resource", "revoke", "switch_shortcut"}
    MaxCommits = 3
    Failures = FALSE
INVARIANTS
    UndisturbedAnswerExact
PROPERTIES
    CacheConverges
