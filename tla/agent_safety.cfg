SPECIFICATION Spec
CONSTANTS
    Users = {u}
    Roles = {r}
    Perms = {p, q}
    Resources = {x}
    NoUser = NoUser
    NoResource = NoResource
    Types = {t}
    AnyType = AnyType
    PermType <- MCPermType
    ResourceType <- MCResourceType
    Apps = {a, b}
    NoApp = NoApp
    Policies <- TwoPolicies
    Handlers = {h1, h2}
    Kinds = {"pull_latest", "pull_version", "activate_latest", "activate_version", "check", "status"}
    Checks <- EveryPermission
    BootApp = a
    Failures = TRUE
    MaxVersion = 2
    MaxLoads = 1
    NoSnapshot = NoSnapshot
    NoJob = NoJob
SYMMETRY HandlerSymmetry
INVARIANTS
    TypeOK
    LatestIsFresh
    ActivationTookPlace
    LocalAnswerIsCentral
    ReadyStaysReady
    StatusNamesSnapshot
