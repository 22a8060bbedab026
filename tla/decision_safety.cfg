SPECIFICATION Spec
CONSTANTS
    Users = {u}
    Roles = {r}
    Perms = {p}
    Resources = {}
    NoUser = NoUser
    NoResource = NoResource
    NoRequest = NoRequest
    Types = {t}
    AnyType = AnyType
    PermType <- MCPermType
    ResourceType <- MCResourceType
    Workers = {w1, w2}
    FirstState <- Granted
    Edits = {"publish", "revoke", "switch_app"}
    MaxCommits = 2
    Failures = TRUE
SYMMETRY WorkerSymmetry
INVARIANTS
    TypeOK
    CacheSound
    AnswerJustified
    NoRoleNoAccess
