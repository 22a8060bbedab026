SPECIFICATION Spec
CONSTANTS
    Users = {u1, u2}
    Roles = {r1, r2}
    Perms = {p, q}
    Resources = {x}
    NoUser = NoUser
    NoResource = NoResource
    NoRequest = NoRequest
    Incomplete = Incomplete
    Types = {t1, t2}
    AnyType = AnyType
    PermType <- MCPermType
    ResourceType <- MCResourceType
    FirstState <- OneDisabled
    Edits = {"bind", "grant", "own", "switch_role", "switch_resource"}
    MaxCommits = 2
    MaxGrants = 1
    MaxBindings = 1
    MaxOverrides = 1
INVARIANTS
    TypeOK
    PredictionExact
    PermitHolds
    DenialOnlyMissesGrantedRoles
