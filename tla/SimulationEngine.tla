-------------------------- MODULE SimulationEngine --------------------------
(***************************************************************************)
(* SimulationEngine::Simulate, query by query, against the tables of       *)
(* PolicyStore as they change: what would be decided if some grants,       *)
(* bindings and owners were added to the policy.                           *)
(*                                                                         *)
(* The engine keeps nothing between two calls and writes nothing, so one   *)
(* simulation at a time is all there is to see.  Any query may fail; the   *)
(* DAO then answers that there is no such row, or with the rows it has.    *)
(***************************************************************************)
EXTENDS PolicyStore, PolicyDecision

CONSTANTS
    Incomplete,      \* a simulated row with an empty field
    NoRequest,
    MaxGrants, MaxBindings, MaxOverrides  \* bounds on the simulated rows

ASSUME MarkersAssumption ==
    /\ NoRequest \notin Requests
    /\ Incomplete \notin (Users \X Roles) \cup (Roles \X Perms) \cup (Resources \X Users)
ASSUME ListsAssumption == MaxGrants \in Nat /\ MaxBindings \in Nat /\ MaxOverrides \in Nat

\* The lists of at most n rows of a set.
Lists(S, n) == UNION {[1 .. k -> S] : k \in 0 .. n}
Listed(list) == {list[i] : i \in DOMAIN list}

\* simulated_grants, simulated_bindings and simulated_owner_overrides.
Simulated ==
    [grants : Lists((Users \X Roles) \cup {Incomplete}, MaxGrants),
     bindings : Lists((Roles \X Perms) \cup {Incomplete}, MaxBindings),
     overrides : Lists((Resources \X Users) \cup {Incomplete}, MaxOverrides)]
NothingSimulated == [grants |-> <<>>, bindings |-> <<>>, overrides |-> <<>>]

SimulationCodes == Codes \cup {"NOT_FOUND"}
SimulationAnswer == [code : SimulationCodes, matched : SUBSET Roles, owner : BOOLEAN]

VARIABLES
    pc,        \* the next step of Simulate
    req,       \* user, permission and resource asked about
    sim,       \* the simulated rows
    todo,      \* the checks of the simulated rows still to be made
    began,     \* Len(hist) when the request arrived
    lost,      \* whether a query of this simulation has failed
    roles,     \* effective_roles
    perms,     \* effective_permissions
    answer

workVars == <<pc, req, sim, todo, began, lost, roles, perms, answer>>
vars == <<hist, workVars>>

Places == {"idle", "app", "exists", "info", "resource", "check", "roles", "perms",
           "shortcut", "owner", "decide", "done"}

\* A check of the validation loops: a row that must be registered, or a row
\* found incomplete without asking the database.
Checks == ({"role"} \X Roles) \cup ({"permission"} \X Perms) \cup {Incomplete}

TypeOK ==
    /\ HistoryOK
    /\ pc \in Places
    /\ req \in Requests \cup {NoRequest}
    /\ pc \notin {"idle", "done"} => req \in Requests
    /\ sim \in Simulated
    /\ todo \in Seq(Checks)
    /\ began \in Nat
    /\ lost \in BOOLEAN
    /\ roles \subseteq Roles /\ perms \subseteq Perms
    /\ answer \in SimulationAnswer

Init ==
    /\ hist = <<FirstState>>
    /\ pc = "idle" /\ req = NoRequest /\ sim = NothingSimulated /\ todo = <<>>
    /\ began = 0 /\ lost = FALSE
    /\ roles = {} /\ perms = {} /\ answer = NoAnswer

-----------------------------------------------------------------------------
(* Queries, denials.                                                       *)

\* A query of one row answers the truth, or "no" when it fails.
Asked(truth, found) ==
    \/ found = truth /\ UNCHANGED lost
    \/ found = FALSE /\ lost' = TRUE

\* A query of a list that fails answers the rows it had fetched.
Fetched(rows, list) ==
    \/ list = rows /\ UNCHANGED lost
    \/ lost' = TRUE

\* A request that fails a check is denied with the check's code.
Require(found, place, code) ==
    \/ found /\ pc' = place /\ UNCHANGED answer
    \/ ~found /\ pc' = "done" /\ answer' = Denial(code)

-----------------------------------------------------------------------------
(* Simulate, in the order of its code.                                     *)

\* The validation loops over the three lists, flattened.
GrantChecks(s) ==
    [i \in DOMAIN s.grants |->
        IF s.grants[i] = Incomplete THEN Incomplete ELSE <<"role", s.grants[i][2]>>]

\* Two checks for each simulated binding: its role, then its permission.
BindingChecks(s) ==
    [i \in 1 .. 2 * Len(s.bindings) |->
        LET b == s.bindings[(i + 1) \div 2] IN
        IF b = Incomplete THEN Incomplete
        ELSE IF i % 2 = 1 THEN <<"role", b[1]>> ELSE <<"permission", b[2]>>]

\* A complete override asks no query; the first incomplete one ends the loop.
OverrideChecks(s) ==
    IF Incomplete \in Listed(s.overrides) THEN <<Incomplete>> ELSE <<>>

ChecksOf(s) == GrantChecks(s) \o BindingChecks(s) \o OverrideChecks(s)

Receive ==
    /\ pc = "idle"
    /\ req' \in Requests
    /\ sim' \in Simulated
    /\ began' = Len(hist)
    /\ pc' = "app"
    /\ UNCHANGED <<hist, todo, lost, roles, perms, answer>>

\* Variant: the result of validateRequest is not looked at.
ReceiveIncomplete_Goes ==
    /\ pc = "idle"
    /\ began' = Len(hist)
    /\ pc' = "app" /\ answer' = Denial("INVALID_ARGUMENT")
    /\ UNCHANGED <<hist, req, sim, todo, lost, roles, perms>>

\* validateRequest: a field is empty, or half of the resource is.
ReceiveIncomplete ==
    /\ pc = "idle"
    /\ began' = Len(hist)
    /\ pc' = "done" /\ answer' = Denial("INVALID_ARGUMENT")
    /\ UNCHANGED <<hist, req, sim, todo, lost, roles, perms>>

\* getAppInfo
ReadApp ==
    /\ pc = "app"
    /\ \E known \in BOOLEAN :
          /\ Asked(Now.app # "absent", known)
          /\ \/ ~known /\ Require(FALSE, "exists", "APP_NOT_FOUND")
             \/ known /\ Require(Now.app = "on", "exists", "APP_DISABLED")
    /\ UNCHANGED <<hist, req, sim, todo, began, roles, perms>>

\* permissionExists
CheckPermission ==
    /\ pc = "exists"
    /\ \E found \in BOOLEAN :
          /\ Asked(PermissionExists(Now, req.perm), found)
          /\ Require(found, "info", "PERMISSION_NOT_FOUND")
    /\ UNCHANGED <<hist, req, sim, todo, began, roles, perms>>

\* getPermissionInfo and the resource type; without a resource the simulated
\* rows come next.
ReadPermission ==
    /\ pc = "info"
    /\ \E found \in BOOLEAN :
          /\ Asked(PermissionExists(Now, req.perm), found)
          /\ \/ ~found /\ Require(FALSE, "check", "PERMISSION_NOT_FOUND")
             \/ found /\ Mismatch(req) /\ Require(FALSE, "check", "PERMISSION_DENIED")
             \/ /\ found /\ ~Mismatch(req)
                /\ pc' = IF req.resource = NoResource THEN "check" ELSE "resource"
                /\ UNCHANGED answer
    /\ todo' = ChecksOf(sim)
    /\ UNCHANGED <<hist, req, sim, began, roles, perms>>

\* getResourceInfo
ReadResource ==
    /\ pc = "resource"
    /\ \E found \in BOOLEAN :
          /\ Asked(ResourceEnabled(Now, req.resource), found)
          /\ Require(found, "check", "RESOURCE_NOT_FOUND")
    /\ UNCHANGED <<hist, req, sim, todo, began, roles, perms>>

\* Whether the row of a check is registered, enabled or not.
Registered(check) ==
    IF check[1] = "role" THEN RoleRegistered(Now, check[2])
    ELSE PermissionRegistered(Now, check[2])

\* The next check of the validation loops.
CheckSimulated ==
    /\ pc = "check" /\ todo # <<>>
    /\ \/ /\ Head(todo) = Incomplete
          /\ Require(FALSE, "check", "INVALID_ARGUMENT")
          /\ UNCHANGED lost
       \/ /\ Head(todo) # Incomplete
          /\ \E found \in BOOLEAN :
                Asked(Registered(Head(todo)), found) /\ Require(found, "check", "NOT_FOUND")
    /\ todo' = Tail(todo)
    /\ UNCHANGED <<hist, req, sim, began, roles, perms>>

\* The roles that the simulated grants give the user asked about.
GrantedRoles(s, u) == {g[2] : g \in {h \in Listed(s.grants) : h # Incomplete /\ h[1] = u}}

\* Variant: the simulated grants are left out of the effective roles.
ReadRoles_NoGrants ==
    /\ pc = "check" /\ todo = <<>>
    /\ \E real \in SUBSET UserRoles(Now, req.user) :
          Fetched(UserRoles(Now, req.user), real) /\ roles' = real
    /\ pc' = "perms"
    /\ UNCHANGED <<hist, req, sim, todo, began, perms, answer>>

\* buildEffectiveRoles
ReadRoles ==
    /\ pc = "check" /\ todo = <<>>
    /\ \E real \in SUBSET UserRoles(Now, req.user) :
          /\ Fetched(UserRoles(Now, req.user), real)
          /\ roles' = real \cup GrantedRoles(sim, req.user)
    /\ pc' = "perms"
    /\ UNCHANGED <<hist, req, sim, todo, began, perms, answer>>

\* Variant: a simulated binding counts whether or not the user has its role.
ReadPermissions_AnyRole ==
    /\ pc = "perms"
    /\ \E real \in SUBSET UserPermissions(Now, req.user) :
          /\ Fetched(UserPermissions(Now, req.user), real)
          /\ perms' = real \cup {b[2] : b \in Listed(sim.bindings)}
    /\ pc' = IF req.resource = NoResource THEN "decide" ELSE "shortcut"
    /\ UNCHANGED <<hist, req, sim, todo, began, roles, answer>>

\* buildEffectivePermssions: the real permissions of the user, and those bound
\* by the simulation to an effective role.
ReadPermissions ==
    /\ pc = "perms"
    /\ \E real \in SUBSET UserPermissions(Now, req.user) :
          /\ Fetched(UserPermissions(Now, req.user), real)
          /\ perms' = real \cup {b[2] : b \in {c \in Listed(sim.bindings) : c[1] \in roles}}
    /\ pc' = IF req.resource = NoResource THEN "decide" ELSE "shortcut"
    /\ UNCHANGED <<hist, req, sim, todo, began, roles, answer>>

\* tryOwnerShortcut: isOwnerShortcutEnabled
ReadShortcut ==
    /\ pc = "shortcut"
    /\ \E flag \in BOOLEAN :
          /\ Asked(OwnerShortcutEnabled(Now, req.perm), flag)
          /\ pc' = IF flag THEN "owner" ELSE "decide"
    /\ UNCHANGED <<hist, req, sim, todo, began, roles, perms, answer>>

Overridden(s, x) == \E o \in Listed(s.overrides) : o[1] = x

\* findSimulatedOwnerOverride: the first override of the resource.
SimulatedOwner(s, x) ==
    s.overrides[CHOOSE i \in DOMAIN s.overrides :
                    /\ s.overrides[i][1] = x
                    /\ \A j \in 1 .. (i - 1) : s.overrides[j][1] # x][2]

\* resolveEffectiveOwner: an override asks no query.
ReadOwner ==
    /\ pc = "owner"
    /\ \E owns \in BOOLEAN :
          /\ \/ /\ Overridden(sim, req.resource)
                /\ owns = (SimulatedOwner(sim, req.resource) = req.user)
                /\ UNCHANGED lost
             \/ /\ ~Overridden(sim, req.resource)
                /\ Asked(RegisteredOwner(Now, req.resource) = req.user, owns)
          /\ \/ owns /\ pc' = "done" /\ answer' = OwnerPermit
             \/ ~owns /\ pc' = "decide" /\ UNCHANGED answer
    /\ UNCHANGED <<hist, req, sim, todo, began, roles, perms>>

\* Variant: the roles bound by the simulation are no candidates.
DecideByRbac_RealCandidates ==
    /\ pc = "decide"
    /\ \E real \in SUBSET RolesWithPermission(Now, req.perm) :
          /\ Fetched(RolesWithPermission(Now, req.perm), real)
          /\ answer' = IF roles = {} THEN Denial("USER_HAS_NO_ROLE")
                       ELSE IF req.perm \in perms THEN Permit(roles \cap real)
                       ELSE Denial("PERMISSION_DENIED")
    /\ pc' = "done"
    /\ UNCHANGED <<hist, req, sim, todo, began, roles, perms>>

\* evaluateByRbac: the candidates are the real ones and the simulated ones.
DecideByRbac ==
    /\ pc = "decide"
    /\ \E real \in SUBSET RolesWithPermission(Now, req.perm) :
          /\ Fetched(RolesWithPermission(Now, req.perm), real)
          /\ LET candidates ==
                    real \cup {b[1] : b \in {c \in Listed(sim.bindings) : c[2] = req.perm}}
             IN  answer' = IF roles = {} THEN Denial("USER_HAS_NO_ROLE")
                           ELSE IF req.perm \in perms THEN Permit(roles \cap candidates)
                           ELSE Denial("PERMISSION_DENIED")
    /\ pc' = "done"
    /\ UNCHANGED <<hist, req, sim, todo, began, roles, perms>>

\* The answer is sent; the next request starts with nothing.
Respond ==
    /\ pc = "done"
    /\ pc' = "idle" /\ req' = NoRequest /\ sim' = NothingSimulated /\ todo' = <<>>
    /\ began' = 0 /\ lost' = FALSE
    /\ roles' = {} /\ perms' = {} /\ answer' = NoAnswer
    /\ UNCHANGED hist

-----------------------------------------------------------------------------
Simulate ==
    \/ Receive \/ ReceiveIncomplete \/ ReadApp \/ CheckPermission \/ ReadPermission
    \/ ReadResource \/ CheckSimulated \/ ReadRoles \/ ReadPermissions
    \/ ReadShortcut \/ ReadOwner \/ DecideByRbac \/ Respond

Administer == Change /\ UNCHANGED workVars

Next == Simulate \/ Administer

Spec == Init /\ [][Next]_vars

-----------------------------------------------------------------------------
(* Properties.                                                             *)

\* The policy d if the simulated rows were really there.
Hypothetical(d, s) ==
    [d EXCEPT !.grants = @ \cup Listed(s.grants),
              !.binds = @ \cup Listed(s.bindings),
              !.owner = [x \in Resources |-> IF Overridden(s, x) THEN SimulatedOwner(s, x)
                                             ELSE d.owner[x]]]

\* A simulation that reached its decision: valid input, nothing changed
\* meanwhile and no query failed.
Undisturbed ==
    /\ pc = "done" /\ answer.code \notin {"INVALID_ARGUMENT", "NOT_FOUND"}
    /\ \A list \in {sim.grants, sim.bindings, sim.overrides} : Incomplete \notin Listed(list)
    /\ began = Len(hist) /\ ~lost

\* The roles simulated for the user asked about are enabled.
GrantsEnabled == \A r \in GrantedRoles(sim, req.user) : Now.role[r] = "on"

\* Simulated bindings, owners and grants to other users are predicted to the
\* letter: the answer is the one DecisionEngine::Evaluate would give on the
\* changed tables, code, matched roles and owner flag included.
PredictionExact ==
    Undisturbed /\ GrantedRoles(sim, req.user) = {} =>
        answer = Decision(Hypothetical(Now, sim), req)

\* While only the AdminService changes the tables, a simulated permit is a real
\* permit on the changed tables of one moment of the simulation, even if
\* queries fail and several changes fall between them.
PermitHolds ==
    /\ pc = "done" /\ answer.code = "OK" /\ GrantsEnabled
    /\ \A c \in began .. Len(hist) - 1 : OnlyAdds(hist[c], hist[c + 1])
    => \E c \in began .. Len(hist) : Decision(Hypothetical(hist[c], sim), req).code = "OK"

\* A simulated denial is wrong for one reason only: a role granted by the
\* simulation holds the permission in the real tables, which
\* buildEffectivePermssions does not look up.
DenialOnlyMissesGrantedRoles ==
    /\ Undisturbed /\ answer.code # "OK"
    /\ Decision(Hypothetical(Now, sim), req).code = "OK"
    => \E r \in GrantedRoles(sim, req.user) : <<r, req.perm>> \in Now.binds

\* src/README.md, 7, says that the simulation tells whether a role granted
\* temporarily would let the request pass.
SimulatedGrantPredicts ==
    Undisturbed /\ GrantsEnabled =>
        (answer.code = "OK") = (Decision(Hypothetical(Now, sim), req).code = "OK")
=============================================================================
