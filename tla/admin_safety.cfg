SPECIFICATION Spec
CONSTANTS
    Users = {"u1", "u2"}
    Roles = {"r1", "r2"}
    Perms = {"p1", "p2"}
    Resources = {"x1", "x2"}
    NoUser = NoUser
    FirstState <- HalfOfThem
    Edits = {"create_role", "create_permission", "bind", "grant", "own", "switch_role"}
    MaxCommits = 1
    Handlers = {h1, h2}
    Admins = {a}
    Tokens = {t1}
    NoToken = NoToken
    Nobody = Nobody
    NoCall = NoCall
    Requests <- OneOfEach
    Ttl = 1
    MaxTime = 2
SYMMETRY HandlerSymmetry
INVARIANTS
    TypeOK
    AcknowledgedEditDone
    AuditedEditsHappened
    InternalErrorExplained
PROPERTIES
    LockedOutByTtl
    EditsAreStoreChanges
