SPECIFICATION Spec
CONSTANTS
    Users = {u1, u2}
    Roles = {r1, r2}
    Perms = {p}
    Resources = {x}
    NoUser = NoUser
    NoResource = NoResource
    NoRequest = NoRequest
    Incomplete = Incomplete
    Types = {t}
    AnyType = AnyType
    PermType <- MCPermType
    ResourceType <- MCResourceType
    FirstState <- OneDisabled
    Edits = {"bind", "grant", "own"}
    MaxCommits = 0
    MaxGrants = 1
    MaxBindings = 0
    MaxOverrides = 0
INVARIANTS
    SimulatedGrantPredicts
