--------------------------- MODULE DecisionEngine ---------------------------
(***************************************************************************)
(* DecisionEngine::Evaluate, run by any number of handler threads at once  *)
(* against the tables of PolicyStore and one shared LocalCache.            *)
(*                                                                         *)
(* Each query of the DAO, each operation of the cache and the insertion of *)
(* the decision log is a step of its own; the tables may change between    *)
(* any two of them.  A query that fails does not stop the evaluation: the  *)
(* DAO swallows the error and returns nothing, or what it had read so far. *)
(***************************************************************************)
EXTENDS PolicyStore, PolicyDecision

CONSTANTS
    Workers,      \* the handler threads of AuthService
    Failures,     \* whether queries can fail
    NoRequest

\* The key app_code:user_id:policy_version, for the one application modelled.
Keys == Users \X Nat
BuildPermissionCacheKey(u, v) == <<u, v>>

ASSUME RequestAssumption == NoRequest \notin Requests /\ Failures \in BOOLEAN

VARIABLES
    cache,     \* the unexpired entries of the LocalCache: key -> permissions
    pc,        \* the next step of each worker
    req,       \* the request it works on
    began,     \* Len(hist) when the request arrived
    version,   \* result.policy_version
    perms,     \* user_permissions
    roles,     \* result.current_roles
    source,    \* result.decision_source
    answer,    \* result.deny_code, matched_roles and owner_shortcut_used
    logged     \* whether the decision log has the row of this decision

workVars == <<pc, req, began, version, perms, roles, source, answer, logged>>
vars == <<hist, cache, workVars>>

Places == {"idle", "app", "exists", "info", "resource", "shortcut", "owner",
           "ownerroles", "cache", "load", "put", "roles", "decide", "log",
           "missingroles", "done"}

TypeOK ==
    /\ HistoryOK
    /\ DOMAIN cache \subseteq Keys
    /\ \A k \in DOMAIN cache : cache[k] \subseteq Perms
    /\ pc \in [Workers -> Places]
    /\ req \in [Workers -> Requests \cup {NoRequest}]
    /\ \A w \in Workers : pc[w] \notin {"idle", "done"} => req[w] \in Requests
    /\ began \in [Workers -> Nat]
    /\ version \in [Workers -> Nat]
    /\ perms \in [Workers -> SUBSET Perms]
    /\ roles \in [Workers -> SUBSET Roles]
    /\ source \in [Workers -> {"UNKNOWN", "CACHE", "DB"}]
    /\ answer \in [Workers -> Answer]
    /\ logged \in [Workers -> BOOLEAN]

Init ==
    /\ hist = <<FirstState>>
    /\ cache = [k \in {} |-> {}]
    /\ pc = [w \in Workers |-> "idle"]
    /\ req = [w \in Workers |-> NoRequest]
    /\ began = [w \in Workers |-> 0]
    /\ version = [w \in Workers |-> 0]
    /\ perms = [w \in Workers |-> {}]
    /\ roles = [w \in Workers |-> {}]
    /\ source = [w \in Workers |-> "UNKNOWN"]
    /\ answer = [w \in Workers |-> NoAnswer]
    /\ logged = [w \in Workers |-> FALSE]

-----------------------------------------------------------------------------
(* Queries and moves.                                                      *)

\* What a query may return: the value, or the DAO's answer when it fails.
Result(value, failed) == {value} \cup (IF Failures THEN {failed} ELSE {})

\* A list query that fails half way returns the rows it had fetched.
Rows(set) == IF Failures THEN SUBSET set ELSE {set}

Goto(w, place) == pc' = [pc EXCEPT ![w] = place]

Decide(w, code, matched) ==
    answer' = [answer EXCEPT ![w] =
                  [code |-> code, matched |-> matched, owner |-> FALSE]]

\* A denial that ends the evaluation, or only waits for the current roles.
Deny(w, code, place) == Decide(w, code, {}) /\ Goto(w, place)

-----------------------------------------------------------------------------
(* Evaluate, in the order of its code.                                     *)

\* A request arrives; validateRequest finds it complete.
Receive(w) ==
    /\ pc[w] = "idle"
    /\ \E r \in Requests : req' = [req EXCEPT ![w] = r]
    /\ began' = [began EXCEPT ![w] = Len(hist)]
    /\ Goto(w, "app")
    /\ UNCHANGED <<hist, cache, version, perms, roles, source, answer, logged>>

\* Variant: the result of validateRequest is not looked at.
ReceiveIncomplete_Goes(w) ==
    /\ pc[w] = "idle"
    /\ began' = [began EXCEPT ![w] = Len(hist)]
    /\ Deny(w, "INVALID_ARGUMENT", "app")
    /\ UNCHANGED <<hist, cache, req, version, perms, roles, source, logged>>

\* A field is empty, or only one of resource_type and resource_id is given.
ReceiveIncomplete(w) ==
    /\ pc[w] = "idle"
    /\ began' = [began EXCEPT ![w] = Len(hist)]
    /\ Deny(w, "INVALID_ARGUMENT", "done")
    /\ UNCHANGED <<hist, cache, req, version, perms, roles, source, logged>>

\* getAppInfo: status and version in one query; an error reads as "no such app".
ReadApp(w) ==
    /\ pc[w] = "app"
    /\ \E status \in Result(Now.app, "absent") :
          \/ /\ status = "absent"
             /\ version' = [version EXCEPT ![w] = 1]
             /\ Deny(w, "APP_NOT_FOUND", "done")
          \/ /\ status = "off"
             /\ version' = [version EXCEPT ![w] = Now.version]
             /\ Deny(w, "APP_DISABLED", "done")
          \/ /\ status = "on"
             /\ version' = [version EXCEPT ![w] = Now.version]
             /\ Goto(w, "exists") /\ UNCHANGED answer
    /\ UNCHANGED <<hist, cache, req, began, perms, roles, source, logged>>

\* permissionExists
CheckPermission(w) ==
    /\ pc[w] = "exists"
    /\ \E found \in Result(PermissionExists(Now, req[w].perm), FALSE) :
          \/ found /\ Goto(w, "info") /\ UNCHANGED answer
          \/ ~found /\ Deny(w, "PERMISSION_NOT_FOUND", "missingroles")
    /\ UNCHANGED <<hist, cache, req, began, version, perms, roles, source, logged>>

\* getPermissionInfo, and the type check of a request that names a resource.
ReadPermission(w) ==
    /\ pc[w] = "info"
    /\ \E found \in Result(PermissionExists(Now, req[w].perm), FALSE) :
          \/ ~found /\ Deny(w, "PERMISSION_NOT_FOUND", "missingroles")
          \/ found /\ Mismatch(req[w]) /\ Deny(w, "PERMISSION_DENIED", "done")
          \/ /\ found /\ ~Mismatch(req[w])
             /\ Goto(w, IF req[w].resource = NoResource THEN "cache" ELSE "resource")
             /\ UNCHANGED answer
    /\ UNCHANGED <<hist, cache, req, began, version, perms, roles, source, logged>>

\* The current roles that explain a PERMISSION_NOT_FOUND.
ReadRolesOfMissing(w) ==
    /\ pc[w] = "missingroles"
    /\ \E rs \in Rows(UserRoles(Now, req[w].user)) : roles' = [roles EXCEPT ![w] = rs]
    /\ Goto(w, "done")
    /\ UNCHANGED <<hist, cache, req, began, version, perms, source, answer, logged>>

\* getResourceInfo
ReadResource(w) ==
    /\ pc[w] = "resource"
    /\ \E found \in Result(ResourceEnabled(Now, req[w].resource), FALSE) :
          \/ found /\ Goto(w, "shortcut") /\ UNCHANGED answer
          \/ ~found /\ Deny(w, "RESOURCE_NOT_FOUND", "done")
    /\ UNCHANGED <<hist, cache, req, began, version, perms, roles, source, logged>>

\* tryOwnerShortcut: the flag of the permission, then the owner.
ReadShortcut(w) ==
    /\ pc[w] = "shortcut"
    /\ \E flag \in Result(OwnerShortcutEnabled(Now, req[w].perm), FALSE) :
          Goto(w, IF flag THEN "owner" ELSE "cache")
    /\ UNCHANGED <<hist, cache, req, began, version, perms, roles, source, answer, logged>>

\* Variant: owners are remembered, and nobody forgets them.
ReadOwner_Remembered(w) ==
    /\ pc[w] = "owner"
    /\ \E owns \in {\E c \in 1 .. Len(hist) :
                       IsResourceOwner(hist[c], req[w].resource, req[w].user)} :
          \/ /\ owns
             /\ source' = [source EXCEPT ![w] = "DB"]
             /\ answer' = [answer EXCEPT ![w] = OwnerPermit]
             /\ Goto(w, "ownerroles")
          \/ ~owns /\ Goto(w, "cache") /\ UNCHANGED <<answer, source>>
    /\ UNCHANGED <<hist, cache, req, began, version, perms, roles, logged>>

ReadOwner(w) ==
    /\ pc[w] = "owner"
    /\ \E owns \in Result(IsResourceOwner(Now, req[w].resource, req[w].user), FALSE) :
          \/ /\ owns
             /\ source' = [source EXCEPT ![w] = "DB"]
             /\ answer' = [answer EXCEPT ![w] = OwnerPermit]
             /\ Goto(w, "ownerroles")
          \/ ~owns /\ Goto(w, "cache") /\ UNCHANGED <<answer, source>>
    /\ UNCHANGED <<hist, cache, req, began, version, perms, roles, logged>>

ReadOwnerRoles(w) ==
    /\ pc[w] = "ownerroles"
    /\ \E rs \in Rows(UserRoles(Now, req[w].user)) : roles' = [roles EXCEPT ![w] = rs]
    /\ Goto(w, "log")
    /\ UNCHANGED <<hist, cache, req, began, version, perms, source, answer, logged>>

-----------------------------------------------------------------------------
(* loadUserPermissions.                                                    *)

Key(w) == BuildPermissionCacheKey(req[w].user, version[w])

\* Variant: the key is app_code:user_id, without the policy version.
GetCached_AnyVersion(w) ==
    /\ pc[w] = "cache"
    /\ LET Hits == {k \in DOMAIN cache : k[1] = req[w].user} IN
       \/ \E k \in Hits :
             /\ perms' = [perms EXCEPT ![w] = cache[k]]
             /\ source' = [source EXCEPT ![w] = "CACHE"]
             /\ Goto(w, "roles")
       \/ Hits = {} /\ Goto(w, "load") /\ UNCHANGED <<perms, source>>
    /\ UNCHANGED <<hist, cache, req, began, version, roles, answer, logged>>

GetCached(w) ==
    /\ pc[w] = "cache"
    /\ \/ /\ Key(w) \in DOMAIN cache
          /\ perms' = [perms EXCEPT ![w] = cache[Key(w)]]
          /\ source' = [source EXCEPT ![w] = "CACHE"]
          /\ Goto(w, "roles")
       \/ /\ Key(w) \notin DOMAIN cache
          /\ Goto(w, "load")
          /\ UNCHANGED <<perms, source>>
    /\ UNCHANGED <<hist, cache, req, began, version, roles, answer, logged>>

\* Variant: a pooled connection whose first read view is never closed.
LoadPermissions_OldView(w) ==
    /\ pc[w] = "load"
    /\ \E ps \in Rows(UserPermissions(hist[1], req[w].user)) :
          perms' = [perms EXCEPT ![w] = ps]
    /\ Goto(w, "put")
    /\ UNCHANGED <<hist, cache, req, began, version, roles, source, answer, logged>>

LoadPermissions(w) ==
    /\ pc[w] = "load"
    /\ \E ps \in Rows(UserPermissions(Now, req[w].user)) :
          perms' = [perms EXCEPT ![w] = ps]
    /\ Goto(w, "put")
    /\ UNCHANGED <<hist, cache, req, began, version, roles, source, answer, logged>>

\* Variant: the key of the entry is made with a version read again.
PutCached_CurrentVersion(w) ==
    /\ pc[w] = "put"
    /\ LET key == BuildPermissionCacheKey(req[w].user, Now.version) IN
       cache' = [k \in DOMAIN cache \cup {key} |->
                    IF k = key THEN perms[w] ELSE cache[k]]
    /\ source' = [source EXCEPT ![w] = "DB"]
    /\ Goto(w, "roles")
    /\ UNCHANGED <<hist, req, began, version, perms, roles, answer, logged>>

PutCached(w) ==
    /\ pc[w] = "put"
    /\ cache' = [k \in DOMAIN cache \cup {Key(w)} |->
                    IF k = Key(w) THEN perms[w] ELSE cache[k]]
    /\ source' = [source EXCEPT ![w] = "DB"]
    /\ Goto(w, "roles")
    /\ UNCHANGED <<hist, req, began, version, perms, roles, answer, logged>>

\* The LocalCache drops an entry: its TTL is over, or there was no room.
DropCached(k) ==
    /\ k \in DOMAIN cache
    /\ cache' = [j \in DOMAIN cache \ {k} |-> cache[j]]
    /\ UNCHANGED <<hist, workVars>>

-----------------------------------------------------------------------------
(* evaluateByRbac, the log and the answer.                                 *)

\* Variant: the roles are read when the request arrives, before the permissions.
ReadRoles_AtArrival(w) ==
    /\ pc[w] = "roles"
    /\ \E rs \in Rows(UserRoles(hist[began[w]], req[w].user)) :
          roles' = [roles EXCEPT ![w] = rs]
    /\ Goto(w, "decide")
    /\ UNCHANGED <<hist, cache, req, began, version, perms, source, answer, logged>>

ReadRoles(w) ==
    /\ pc[w] = "roles"
    /\ \E rs \in Rows(UserRoles(Now, req[w].user)) : roles' = [roles EXCEPT ![w] = rs]
    /\ Goto(w, "decide")
    /\ UNCHANGED <<hist, cache, req, began, version, perms, source, answer, logged>>

\* Variant: a user without roles is not turned away first.
DecideByRbac_NoRoleCheck(w) ==
    /\ pc[w] = "decide"
    /\ \E candidates \in Rows(RolesWithPermission(Now, req[w].perm)) :
          \/ /\ req[w].perm \in perms[w]
             /\ Decide(w, "OK", roles[w] \cap candidates)
          \/ /\ req[w].perm \notin perms[w]
             /\ Decide(w, "PERMISSION_DENIED", {})
    /\ Goto(w, "log")
    /\ UNCHANGED <<hist, cache, req, began, version, perms, roles, source, logged>>

\* getRolesWithPermission, then the decision: no role, permission held, denied.
DecideByRbac(w) ==
    /\ pc[w] = "decide"
    /\ \E candidates \in Rows(RolesWithPermission(Now, req[w].perm)) :
          \/ /\ roles[w] = {}
             /\ Decide(w, "USER_HAS_NO_ROLE", {})
          \/ /\ roles[w] # {} /\ req[w].perm \in perms[w]
             /\ Decide(w, "OK", roles[w] \cap candidates)
          \/ /\ roles[w] # {} /\ req[w].perm \notin perms[w]
             /\ Decide(w, "PERMISSION_DENIED", {})
    /\ Goto(w, "log")
    /\ UNCHANGED <<hist, cache, req, began, version, perms, roles, source, logged>>

\* insertDecisionLog; its failure is ignored.
InsertDecisionLog(w) ==
    /\ pc[w] = "log"
    /\ \E written \in Result(TRUE, FALSE) : logged' = [logged EXCEPT ![w] = written]
    /\ Goto(w, "done")
    /\ UNCHANGED <<hist, cache, req, began, version, perms, roles, source, answer>>

\* The response is sent; the thread takes the next request.
Respond(w) ==
    /\ pc[w] = "done"
    /\ Goto(w, "idle")
    /\ req' = [req EXCEPT ![w] = NoRequest]
    /\ began' = [began EXCEPT ![w] = 0]
    /\ version' = [version EXCEPT ![w] = 0]
    /\ perms' = [perms EXCEPT ![w] = {}]
    /\ roles' = [roles EXCEPT ![w] = {}]
    /\ source' = [source EXCEPT ![w] = "UNKNOWN"]
    /\ answer' = [answer EXCEPT ![w] = NoAnswer]
    /\ logged' = [logged EXCEPT ![w] = FALSE]
    /\ UNCHANGED <<hist, cache>>

-----------------------------------------------------------------------------
Proceed(w) ==
    \/ ReadApp(w) \/ CheckPermission(w) \/ ReadPermission(w) \/ ReadRolesOfMissing(w)
    \/ ReadResource(w) \/ ReadShortcut(w) \/ ReadOwner(w) \/ ReadOwnerRoles(w)
    \/ GetCached(w) \/ LoadPermissions(w) \/ PutCached(w) \/ ReadRoles(w)
    \/ DecideByRbac(w) \/ InsertDecisionLog(w) \/ Respond(w)

Administer == Change /\ UNCHANGED <<cache, workVars>>

Next ==
    \/ \E w \in Workers : Receive(w) \/ ReceiveIncomplete(w) \/ Proceed(w)
    \/ \E k \in DOMAIN cache : DropCached(k)
    \/ Administer

Spec == Init /\ [][Next]_vars

\* A handler thread that has begun goes on, and an entry that is not refreshed
\* outlives its TTL: no entry stays for ever.
LiveSpec ==
    /\ Spec
    /\ \A w \in Workers : WF_vars(Proceed(w))
    /\ \A u \in Users, v \in 0 .. (FirstState.version + MaxCommits) :
          WF_vars(DropCached(<<u, v>>))

-----------------------------------------------------------------------------
(* Properties.                                                             *)

\* `set' is what a query of the permissions of u may have read in state c.
ReadIn(set, c, u) ==
    /\ set \subseteq UserPermissions(hist[c], u)
    /\ ~Failures => set = UserPermissions(hist[c], u)

\* Whatever the interleaving of readers, edits and publications, an entry kept
\* under version v was read in a state of version v or later: a slow reader
\* never files permissions older than the version of the key it files them
\* under (decision_engine.cpp reads the version first and the rows later).
CacheSound ==
    \A k \in DOMAIN cache :
        \E c \in 1 .. Len(hist) : hist[c].version >= k[2] /\ ReadIn(cache[k], c, k[1])

Concluded(w) == pc[w] \in {"log", "done"}

\* The answer came from evaluateByRbac: loadUserPermissions has set the source.
ByRbac(w) == Concluded(w) /\ source[w] # "UNKNOWN" /\ ~answer[w].owner

\* An RBAC answer is right in some state no older than the version that was
\* current when the request arrived, and in a state of the request's own
\* lifetime when it comes from the database rather than the cache.
AnswerJustified ==
    \A w \in Workers : ByRbac(w) =>
        \E c \in 1 .. Len(hist) :
            /\ hist[c].version >= hist[began[w]].version
            /\ source[w] = "DB" => c >= began[w]
            /\ answer[w].code = "OK" =>
                  req[w].perm \in UserPermissions(hist[c], req[w].user)
            /\ answer[w].code = "PERMISSION_DENIED" /\ ~Failures =>
                  req[w].perm \notin UserPermissions(hist[c], req[w].user)

\* The nine queries put together give the decision of the policy: a request
\* during which nothing was changed, nothing failed and no cached set was used
\* is answered with Decision of the current state, explanation included.
UndisturbedAnswerExact ==
    \A w \in Workers :
        /\ pc[w] \in {"missingroles", "ownerroles", "log", "done"}
        /\ answer[w].code # "INVALID_ARGUMENT" /\ source[w] # "CACHE"
        /\ began[w] = Len(hist) /\ ~Failures
        => answer[w] = Decision(Now, req[w])

\* A cached permission is of no use to a user whose roles were all gone before
\* the request arrived: the roles are read afresh in every evaluation.
NoRoleNoAccess ==
    \A w \in Workers : ByRbac(w) /\ answer[w].code = "OK" =>
        \E c \in began[w] .. Len(hist) : UserRoles(hist[c], req[w].user) # {}

\* When only the AdminService changes the tables, an owner shortcut is right in
\* one single state of the request's lifetime, although permission, resource,
\* flag and owner are read by five queries.
OwnerAllowJustified ==
    \A w \in Workers : pc[w] # "idle" /\ answer[w].owner =>
        \E c \in began[w] .. Len(hist) :
            /\ OwnerShortcutEnabled(hist[c], req[w].perm)
            /\ IsResourceOwner(hist[c], req[w].resource, req[w].user)

\* When only the AdminService changes the tables and no query fails, an RBAC
\* permit names a role that explains it, although permissions, current roles
\* and candidate roles are read at three different times, or from the cache.
MatchedRolesNonEmpty ==
    \A w \in Workers : ByRbac(w) /\ answer[w].code = "OK" => answer[w].matched # {}

\* README, "策略版本与缓存自动切换": once a publication has made a grant part of a
\* version, no later request is denied what the grant gives.  (AdminService
\* only, no failing query.)
PublishedGrantsHonoured ==
    \A w \in Workers :
        ByRbac(w) /\ answer[w].code # "OK" =>
            \A c \in 1 .. Len(hist) :
                hist[c].version < hist[began[w]].version =>
                    req[w].perm \notin UserPermissions(hist[c], req[w].user)

\* Without a publication a change still reaches every cached set in the end,
\* once the changes stop and no query fails.
CacheCurrent ==
    \A k \in DOMAIN cache : k[2] = Now.version => cache[k] = UserPermissions(Now, k[1])
CacheConverges == <>[]CacheCurrent

\* decision_engine.cpp:266 says that what is written back to the cache is the
\* result of the database: a set the user had in some state of the tables.
CachedReadsAreWhole ==
    \A k \in DOMAIN cache :
        \E c \in 1 .. Len(hist) : cache[k] = UserPermissions(hist[c], k[1])
=============================================================================
