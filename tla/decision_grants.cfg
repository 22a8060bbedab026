SPECIFICATION Spec
CONSTANTS
    Users = {u1, u2}
    Roles = {r1, r2}
    Perms = {p}
    Resources = {x}
    NoUser = NoUser
    NoResource = NoResource
    NoRequest = NoRequest
    Types = {t}
    AnyType = AnyType
    PermType <- MCPermType
    ResourceType <- MCResourceType
    Workers = {w1, w2}
    FirstState <- Separate
    Edits = {"publish", "grant", "own"}
    MaxCommits = 2
    Failures = FALSE
SYMMETRY ThreadUserSymmetry
INVARIANTS
    MatchedRolesNonEmpty
    PublishedGrantsHonoured
    OwnerAllowJustified
