----------------------- MODULE DecisionEngine_proofs -----------------------
(***************************************************************************)
(* Proofs about DecisionEngine, for any tables, any number of threads, any *)
(* changes, and whether or not queries fail.                               *)
(*                                                                         *)
(* What makes a cached or answered permission set right is the order of    *)
(* the reads: the version first, the rows later.  WorkInv carries it from  *)
(* step to step: the version a worker holds lies between the version of    *)
(* the arrival of its request and the present one, and the rows it holds   *)
(* were read in a state at least as new as that version.                   *)
(***************************************************************************)
EXTENDS DecisionEngine, PolicyStore_proofs

\* Places after getAppInfo found the application enabled.
Later == Places \ {"idle", "app", "done"}

\* The rows were read in a state no older than the version they go with.
ReadSince(set, v, u) ==
    \E c \in 1 .. Len(hist) : hist[c].version >= v /\ ReadIn(set, c, u)

\* The same, in a state of the request's lifetime.
ReadDuring(set, v, u, first) ==
    \E c \in first .. Len(hist) : hist[c].version >= v /\ ReadIn(set, c, u)

HadRole(u, first) == \E c \in first .. Len(hist) : UserRoles(hist[c], u) # {}

Justified(w) ==
    \E c \in 1 .. Len(hist) :
        /\ hist[c].version >= hist[began[w]].version
        /\ source[w] = "DB" => c >= began[w]
        /\ answer[w].code = "OK" =>
              req[w].perm \in UserPermissions(hist[c], req[w].user)
        /\ answer[w].code = "PERMISSION_DENIED" /\ ~Failures =>
              req[w].perm \notin UserPermissions(hist[c], req[w].user)

WorkInv(w) ==
    /\ pc[w] # "idle" => began[w] \in 1 .. Len(hist)
    /\ pc[w] \in Later =>
          hist[began[w]].version <= version[w] /\ version[w] <= Now.version
    /\ pc[w] \in {"roles", "decide"} <=> source[w] # "UNKNOWN" /\ ~Concluded(w)
                                             /\ pc[w] # "ownerroles"
    /\ answer[w].owner => pc[w] \in {"ownerroles", "log", "done"}
    /\ pc[w] = "ownerroles" => answer[w].owner
    /\ pc[w] = "put" =>
          ReadDuring(perms[w], version[w], req[w].user, began[w])
    /\ pc[w] \in {"roles", "decide"} =>
          /\ ReadSince(perms[w], version[w], req[w].user)
          /\ source[w] = "DB" =>
                ReadDuring(perms[w], version[w], req[w].user, began[w])
    /\ pc[w] = "decide" /\ roles[w] # {} => HadRole(req[w].user, began[w])
    /\ ByRbac(w) => Justified(w)
    /\ ByRbac(w) /\ answer[w].code = "OK" => HadRole(req[w].user, began[w])

VersionsGrow ==
    \A i, j \in 1 .. Len(hist) : i <= j => hist[i].version <= hist[j].version

IInv ==
    /\ TypeOK
    /\ VersionsGrow
    /\ CacheSound
    /\ \A w \in Workers : WorkInv(w)
-----------------------------------------------------------------------------
(* Types.                                                                  *)

\* The registers of worker w stand still.
Still(w) ==
    /\ pc'[w] = pc[w] /\ req'[w] = req[w] /\ began'[w] = began[w]
    /\ version'[w] = version[w] /\ perms'[w] = perms[w] /\ roles'[w] = roles[w]
    /\ source'[w] = source[w] /\ answer'[w] = answer[w]

\* The actions of a worker, one by one.
WorkerStep(w) == Receive(w) \/ ReceiveIncomplete(w) \/ Proceed(w)

LEMMA RowsFacts ==
    ASSUME NEW S, NEW set \in SUBSET S, NEW rows \in Rows(set)
    PROVE  rows \in SUBSET S /\ rows \subseteq set /\ (~Failures => rows = set)
BY RequestAssumption DEF Rows

LEMMA QueryTypes ==
    ASSUME NEW d, NEW u
    PROVE  UserRoles(d, u) \in SUBSET Roles /\ UserPermissions(d, u) \in SUBSET Perms
BY DEF UserRoles, UserPermissions

LEMMA DecideTypes ==
    ASSUME answer \in [Workers -> Answer], NEW w \in Workers, NEW code \in Codes,
           NEW matched \in SUBSET Roles, Decide(w, code, matched)
    PROVE  answer' \in [Workers -> Answer]
BY DEF Decide, Answer

LEMMA TypeStep == TypeOK /\ [Next]_vars => TypeOK'
<1> SUFFICES ASSUME TypeOK, [Next]_vars PROVE TypeOK'
    OBVIOUS
<1>0. /\ HistoryOK /\ Len(hist) \in Nat /\ Now.version \in Nat
      /\ DOMAIN cache \subseteq Keys /\ \A k \in DOMAIN cache : cache[k] \subseteq Perms
    BY NowIsAState DEF TypeOK
<1> DEFINE Regs ==
        /\ pc \in [Workers -> Places]
        /\ req \in [Workers -> Requests \cup {NoRequest}]
        /\ \A w \in Workers : pc[w] \notin {"idle", "done"} => req[w] \in Requests
        /\ began \in [Workers -> Nat]
        /\ version \in [Workers -> Nat]
        /\ perms \in [Workers -> SUBSET Perms]
        /\ roles \in [Workers -> SUBSET Roles]
        /\ source \in [Workers -> {"UNKNOWN", "CACHE", "DB"}]
        /\ answer \in [Workers -> Answer]
        /\ logged \in [Workers -> BOOLEAN]
<1>1. Regs
    BY DEF TypeOK
<1>2. ASSUME Regs', UNCHANGED <<hist, cache>> PROVE TypeOK'
    BY <1>0, <1>2 DEF TypeOK, HistoryOK
<1> USE DEF Goto, Places
<1>3. ASSUME NEW w \in Workers, Receive(w) PROVE TypeOK'
    BY <1>0, <1>1, <1>2, <1>3 DEF Receive
<1>4. ASSUME NEW w \in Workers, ReceiveIncomplete(w) PROVE TypeOK'
    <2>1. UNCHANGED answer \/ \E code \in Codes : Decide(w, code, {})
        BY <1>4 DEF ReceiveIncomplete, Deny, Codes
    <2>2. answer' \in [Workers -> Answer]
        BY <1>1, <2>1, DecideTypes
    <2> QED BY <1>0, <1>1, <1>2, <1>4, <2>2 DEF ReceiveIncomplete, Deny
<1>5. ASSUME NEW w \in Workers, ReadApp(w) PROVE TypeOK'
    <2>1. UNCHANGED answer \/ \E code \in Codes : Decide(w, code, {})
        BY <1>5 DEF ReadApp, Deny, Codes
    <2>2. answer' \in [Workers -> Answer]
        BY <1>1, <2>1, DecideTypes
    <2>3. PICK v \in Nat : version' = [version EXCEPT ![w] = v]
        BY <1>0, <1>5 DEF ReadApp
    <2>4. \E place \in {"done", "exists"} : Goto(w, place)
        BY <1>5 DEF ReadApp, Deny
    <2>5. /\ version' \in [Workers -> Nat] /\ pc' \in [Workers -> Places]
          /\ \A x \in Workers : pc'[x] \notin {"idle", "done"} => pc[x] \notin {"idle", "done"}
        BY <1>1, <1>5, <2>3, <2>4 DEF ReadApp
    <2> QED BY <1>0, <1>1, <1>2, <1>5, <2>2, <2>5 DEF ReadApp
<1>6. ASSUME NEW w \in Workers, CheckPermission(w) PROVE TypeOK'
    <2>1. UNCHANGED answer \/ \E code \in Codes : Decide(w, code, {})
        BY <1>6 DEF CheckPermission, Deny, Codes
    <2>2. answer' \in [Workers -> Answer]
        BY <1>1, <2>1, DecideTypes
    <2> QED BY <1>0, <1>1, <1>2, <1>6, <2>2 DEF CheckPermission, Deny
<1>7. ASSUME NEW w \in Workers, ReadPermission(w) PROVE TypeOK'
    <2>1. UNCHANGED answer \/ \E code \in Codes : Decide(w, code, {})
        BY <1>7 DEF ReadPermission, Deny, Codes
    <2>2. answer' \in [Workers -> Answer]
        BY <1>1, <2>1, DecideTypes
    <2> QED BY <1>0, <1>1, <1>2, <1>7, <2>2 DEF ReadPermission, Deny
<1>8. ASSUME NEW w \in Workers,
             ReadRolesOfMissing(w) \/ ReadOwnerRoles(w) \/ ReadRoles(w)
      PROVE  TypeOK'
    <2>1. PICK rs \in Rows(UserRoles(Now, req[w].user)) :
             roles' = [roles EXCEPT ![w] = rs]
        BY <1>8 DEF ReadRolesOfMissing, ReadOwnerRoles, ReadRoles
    <2>2. rs \in SUBSET Roles
        BY RowsFacts, QueryTypes
    <2> QED BY <1>0, <1>1, <1>2, <1>8, <2>1, <2>2
               DEF ReadRolesOfMissing, ReadOwnerRoles, ReadRoles
<1>9. ASSUME NEW w \in Workers, ReadResource(w) PROVE TypeOK'
    <2>1. UNCHANGED answer \/ \E code \in Codes : Decide(w, code, {})
        BY <1>9 DEF ReadResource, Deny, Codes
    <2>2. answer' \in [Workers -> Answer]
        BY <1>1, <2>1, DecideTypes
    <2> QED BY <1>0, <1>1, <1>2, <1>9, <2>2 DEF ReadResource, Deny
<1>10. ASSUME NEW w \in Workers, ReadShortcut(w) PROVE TypeOK'
    BY <1>0, <1>1, <1>2, <1>10 DEF ReadShortcut
<1>11. ASSUME NEW w \in Workers, ReadOwner(w) PROVE TypeOK'
    <2>1. answer' = answer \/ answer' = [answer EXCEPT ![w] = OwnerPermit]
        BY <1>11 DEF ReadOwner
    <2>2. OwnerPermit \in Answer
        BY DEF OwnerPermit, Answer, Codes
    <2>3. answer' \in [Workers -> Answer]
        BY <1>1, <2>1, <2>2
    <2> QED BY <1>0, <1>1, <1>2, <1>11, <2>3 DEF ReadOwner
<1>12. ASSUME NEW w \in Workers, GetCached(w) PROVE TypeOK'
    BY <1>0, <1>1, <1>2, <1>12 DEF GetCached
<1>13. ASSUME NEW w \in Workers, LoadPermissions(w) PROVE TypeOK'
    <2>1. PICK ps \in Rows(UserPermissions(Now, req[w].user)) :
             perms' = [perms EXCEPT ![w] = ps]
        BY <1>13 DEF LoadPermissions
    <2>2. ps \in SUBSET Perms
        BY RowsFacts, QueryTypes
    <2> QED BY <1>0, <1>1, <1>2, <1>13, <2>1, <2>2 DEF LoadPermissions
<1>14. ASSUME NEW w \in Workers, PutCached(w) PROVE TypeOK'
    <2>1. Key(w) \in Keys /\ perms[w] \subseteq Perms
        BY <1>1, <1>14 DEF PutCached, Key, BuildPermissionCacheKey, Keys, Requests
    <2>2. Regs'
        BY <1>1, <1>14 DEF PutCached
    <2>3. cache' = [k \in DOMAIN cache \cup {Key(w)} |->
                       IF k = Key(w) THEN perms[w] ELSE cache[k]]
        BY <1>14 DEF PutCached
    <2>4. DOMAIN cache' \subseteq Keys /\ \A k \in DOMAIN cache' : cache'[k] \subseteq Perms
        BY <1>0, <2>1, <2>3
    <2>5. HistoryOK'
        BY <1>0, <1>14 DEF PutCached, HistoryOK
    <2> QED BY <2>2, <2>4, <2>5 DEF TypeOK
<1>15. ASSUME NEW w \in Workers, DecideByRbac(w) PROVE TypeOK'
    <2>1. roles[w] \in SUBSET Roles
        BY <1>1
    <2>2. PICK code \in Codes, matched \in SUBSET Roles : Decide(w, code, matched)
        BY <1>15, <2>1 DEF DecideByRbac, Codes
    <2> QED BY <1>0, <1>1, <1>2, <1>15, <2>2 DEF DecideByRbac, Decide, Answer
<1>16. ASSUME NEW w \in Workers, InsertDecisionLog(w) PROVE TypeOK'
    BY <1>0, <1>1, <1>2, <1>16 DEF InsertDecisionLog, Result
<1>17. ASSUME NEW w \in Workers, Respond(w) PROVE TypeOK'
    BY <1>0, <1>1, <1>2, <1>17 DEF Respond, NoAnswer, Answer, Codes
<1>18. ASSUME NEW k \in DOMAIN cache, DropCached(k) PROVE TypeOK'
    BY <1>0, <1>1, <1>18 DEF DropCached, workVars, TypeOK, HistoryOK
<1>19. CASE Administer
    BY <1>0, <1>1, <1>19, ChangeGrows DEF Administer, workVars, TypeOK, Grows
<1>20. CASE UNCHANGED vars
    BY <1>0, <1>1, <1>20 DEF vars, workVars, TypeOK, HistoryOK
<1> QED
    BY <1>3, <1>4, <1>5, <1>6, <1>7, <1>8, <1>9, <1>10, <1>11, <1>12, <1>13, <1>14,
       <1>15, <1>16, <1>17, <1>18, <1>19, <1>20 DEF Next, Proceed
-----------------------------------------------------------------------------
(* The history grows, and what a worker knows of it stays true.            *)

\* No step of a worker changes the tables.
LEMMA WorkerKeepsHistory ==
    ASSUME NEW w \in Workers, WorkerStep(w)
    PROVE  UNCHANGED hist
<1>1. CASE Receive(w) \/ ReceiveIncomplete(w) \/ ReadApp(w) \/ CheckPermission(w)
           \/ ReadPermission(w) \/ ReadRolesOfMissing(w) \/ ReadResource(w)
    BY <1>1 DEF Receive, ReceiveIncomplete, ReadApp, CheckPermission,
        ReadPermission, ReadRolesOfMissing, ReadResource
<1>2. CASE ReadShortcut(w) \/ ReadOwner(w) \/ ReadOwnerRoles(w) \/ GetCached(w)
           \/ LoadPermissions(w) \/ PutCached(w)
    BY <1>2 DEF ReadShortcut, ReadOwner, ReadOwnerRoles, GetCached,
        LoadPermissions, PutCached
<1>3. CASE ReadRoles(w) \/ DecideByRbac(w) \/ InsertDecisionLog(w) \/ Respond(w)
    BY <1>3 DEF ReadRoles, DecideByRbac, InsertDecisionLog, Respond
<1> QED BY <1>1, <1>2, <1>3 DEF WorkerStep, Proceed

LEMMA HistoryStep == TypeOK /\ [Next]_vars => Grows
<1> SUFFICES ASSUME TypeOK, [Next]_vars PROVE Grows
    OBVIOUS
<1>0. HistoryOK /\ Len(hist) \in Nat /\ Now.version \in Nat
    BY NowIsAState DEF TypeOK
<1>1. CASE UNCHANGED hist
    BY <1>0, <1>1 DEF Grows, HistoryOK, Now
<1>2. CASE Administer
    BY <1>0, <1>2, ChangeGrows DEF Administer
<1>3. ASSUME NEW w \in Workers, WorkerStep(w) PROVE UNCHANGED hist
    BY <1>3, WorkerKeepsHistory
<1>4. CASE UNCHANGED vars \/ \E k \in DOMAIN cache : DropCached(k)
    BY <1>1, <1>4 DEF vars, DropCached
<1> QED BY <1>1, <1>2, <1>3, <1>4 DEF Next, WorkerStep

LEMMA HistoryFacts ==
    ASSUME TypeOK, Grows
    PROVE  /\ Len(hist) \in Nat /\ Len(hist') \in Nat /\ Len(hist) <= Len(hist')
           /\ \A i \in 1 .. Len(hist) : i \in 1 .. Len(hist') /\ hist'[i] = hist[i]
           /\ \A i \in 1 .. Len(hist) : hist[i].version \in Nat
           /\ \A i \in 1 .. Len(hist') : hist'[i].version \in Nat
           /\ Now.version \in Nat /\ Now'.version \in Nat /\ Now.version <= Now'.version
<1>1. HistoryOK /\ HistoryOK'
    BY DEF TypeOK, Grows
<1>2. Len(hist) \in Nat /\ Len(hist') \in Nat /\ Len(hist) <= Len(hist')
    BY <1>1 DEF HistoryOK, Grows
<1>3. \A i \in 1 .. Len(hist) : i \in 1 .. Len(hist') /\ hist'[i] = hist[i]
    BY <1>2 DEF Grows
<1>4. \A i \in 1 .. Len(hist) : hist[i].version \in Nat
    <2>1. \A i \in 1 .. Len(hist) : hist[i] \in PolicyState
        BY <1>1 DEF HistoryOK
    <2> QED BY <2>1 DEF PolicyState
<1>5. \A i \in 1 .. Len(hist') : hist'[i].version \in Nat
    <2>1. \A i \in 1 .. Len(hist') : hist'[i] \in PolicyState
        BY <1>1 DEF HistoryOK
    <2> QED BY <2>1 DEF PolicyState
<1>6. Now.version \in Nat /\ Now'.version \in Nat
    BY <1>1, <1>2, <1>4, <1>5 DEF Now, HistoryOK
<1> QED BY <1>2, <1>3, <1>4, <1>5, <1>6 DEF Grows

LEMMA StillKeeps ==
    ASSUME TypeOK, Grows, NEW w \in Workers, WorkInv(w), Still(w)
    PROVE  WorkInv(w)'
<1>1. /\ Len(hist) \in Nat /\ Len(hist') \in Nat /\ Len(hist) <= Len(hist')
      /\ \A i \in 1 .. Len(hist) : i \in 1 .. Len(hist') /\ hist'[i] = hist[i]
      /\ Now.version \in Nat /\ Now'.version \in Nat /\ Now.version <= Now'.version
    BY HistoryFacts
<1>2. began[w] \in Nat /\ version[w] \in Nat
    BY DEF TypeOK
<1>3. /\ pc'[w] # "idle" => began'[w] \in 1 .. Len(hist')
      /\ pc'[w] \in Later =>
            hist'[began'[w]].version <= version'[w] /\ version'[w] <= Now'.version
    <2>1. pc[w] # "idle" => began[w] \in 1 .. Len(hist)
        BY DEF WorkInv
    <2>2. pc[w] \in Later => pc[w] # "idle"
        BY DEF Later
    <2>3. pc[w] \in Later =>
             hist[began[w]].version <= version[w] /\ version[w] <= Now.version
        BY DEF WorkInv
    <2> QED BY <1>1, <1>2, <2>1, <2>2, <2>3 DEF Still
<1>4. ASSUME ReadSince(perms[w], version[w], req[w].user)
      PROVE  ReadSince(perms[w], version[w], req[w].user)'
    BY <1>1, <1>4 DEF ReadSince, ReadIn, Still
<1>5. ASSUME ReadDuring(perms[w], version[w], req[w].user, began[w]),
             began[w] \in 1 .. Len(hist)
      PROVE  ReadDuring(perms[w], version[w], req[w].user, began[w])'
    BY <1>1, <1>5 DEF ReadDuring, ReadIn, Still
<1>6. ASSUME HadRole(req[w].user, began[w]), began[w] \in 1 .. Len(hist)
      PROVE  HadRole(req[w].user, began[w])'
    <2>1. PICK c \in began[w] .. Len(hist) : UserRoles(hist[c], req[w].user) # {}
        BY <1>6 DEF HadRole
    <2>2. c \in 1 .. Len(hist) /\ c \in began'[w] .. Len(hist')
        BY <1>1, <1>2, <1>6 DEF Still
    <2>3. UserRoles(hist'[c], req'[w].user) # {}
        BY <1>1, <2>1, <2>2 DEF Still
    <2> QED BY <2>2, <2>3 DEF HadRole
<1>7. ASSUME Justified(w), began[w] \in 1 .. Len(hist)
      PROVE  Justified(w)'
    BY <1>1, <1>7 DEF Justified, Still
<1>8. /\ ByRbac(w)' <=> ByRbac(w)
      /\ Concluded(w)' <=> Concluded(w)
    BY DEF ByRbac, Concluded, Still
<1>9. pc[w] \in {"put", "roles", "decide"} \/ ByRbac(w) => began[w] \in 1 .. Len(hist)
    BY DEF WorkInv, ByRbac, Concluded
<1> QED BY <1>3, <1>4, <1>5, <1>6, <1>7, <1>8, <1>9 DEF WorkInv, Still
-----------------------------------------------------------------------------
(* What each step of a worker makes of its own registers.                  *)

\* Before loadUserPermissions nothing has been read that must be justified.
Early(w) ==
    /\ source[w] = "UNKNOWN" /\ ~answer[w].owner
    /\ pc[w] \notin {"put", "roles", "decide", "ownerroles"}

\* The steps up to loadUserPermissions, and the response.
LEMMA EarlyStep ==
    ASSUME IInv, NEW w \in Workers,
           \/ Receive(w) \/ ReceiveIncomplete(w) \/ ReadApp(w) \/ CheckPermission(w)
           \/ ReadPermission(w) \/ ReadRolesOfMissing(w) \/ ReadResource(w)
           \/ ReadShortcut(w) \/ Respond(w)
    PROVE  WorkInv(w)'
<1>0. /\ Len(hist) \in Nat /\ Len(hist) \in 1 .. Len(hist) /\ Now.version \in Nat
      /\ WorkInv(w) /\ TypeOK /\ VersionsGrow
    BY NowIsAState DEF IInv, TypeOK
<1>1. pc[w] \in {"idle", "app", "exists", "info", "missingroles", "resource", "shortcut"}
         => Early(w)
    BY <1>0 DEF WorkInv, Early, Concluded, TypeOK
<1>2. ASSUME Early(w)', pc'[w] # "idle" => began'[w] \in 1 .. Len(hist'),
             pc'[w] \in Later =>
                hist'[began'[w]].version <= version'[w] /\ version'[w] <= Now'.version
      PROVE  WorkInv(w)'
    BY <1>2 DEF WorkInv, Early, ByRbac, Concluded
<1>3. ASSUME UNCHANGED <<hist, began, version>>, Early(w)', pc[w] \in Later
      PROVE  WorkInv(w)'
    BY <1>0, <1>2, <1>3 DEF WorkInv, Later, Now
<1> USE DEF Goto
<1>4. CASE Receive(w) \/ ReceiveIncomplete(w)
    <2>1. Early(w)
        BY <1>1, <1>4 DEF Receive, ReceiveIncomplete
    <2>2. Early(w)'
        BY <1>0, <1>4, <2>1
           DEF Receive, ReceiveIncomplete, Early, Deny, Decide, TypeOK, Answer
    <2>3. hist' = hist /\ began'[w] = Len(hist) /\ pc'[w] \in {"app", "done"}
        BY <1>0, <1>4 DEF Receive, ReceiveIncomplete, Deny, TypeOK
    <2> QED BY <1>0, <1>2, <2>2, <2>3 DEF Later
<1>5. CASE ReadApp(w)
    <2>1. Early(w) /\ began[w] \in 1 .. Len(hist)
        BY <1>0, <1>1, <1>5 DEF ReadApp, WorkInv
    <2>2. Early(w)'
        BY <1>0, <1>5, <2>1 DEF ReadApp, Early, Deny, Decide, TypeOK
    <2>3. /\ hist' = hist /\ began' = began
          /\ pc'[w] \in Later => version'[w] = Now.version
        BY <1>0, <1>5 DEF ReadApp, Deny, TypeOK, Later
    <2>4. hist[began[w]].version <= Now.version
        BY <1>0, <2>1 DEF VersionsGrow, Now
    <2> QED BY <1>0, <1>2, <2>1, <2>2, <2>3, <2>4 DEF Now
<1>6. CASE CheckPermission(w) \/ ReadPermission(w) \/ ReadResource(w)
    <2>1. Early(w) /\ pc[w] \in Later
        BY <1>1, <1>6 DEF CheckPermission, ReadPermission, ReadResource, Later, Places
    <2>2. UNCHANGED answer \/ \E code \in Codes : Decide(w, code, {})
        BY <1>6 DEF CheckPermission, ReadPermission, ReadResource, Deny, Codes
    <2>3. ~answer'[w].owner
        BY <1>0, <2>1, <2>2 DEF Early, Decide, TypeOK
    <2>4. pc'[w] \in {"info", "missingroles", "cache", "resource", "shortcut", "done"}
        BY <1>0, <1>6 DEF CheckPermission, ReadPermission, ReadResource, Deny, TypeOK
    <2>5. UNCHANGED <<hist, began, version, source>>
        BY <1>6 DEF CheckPermission, ReadPermission, ReadResource
    <2> QED BY <1>3, <2>1, <2>3, <2>4, <2>5 DEF Early
<1>7. CASE ReadRolesOfMissing(w) \/ ReadShortcut(w)
    <2>1. Early(w) /\ pc[w] \in Later
        BY <1>1, <1>7 DEF ReadRolesOfMissing, ReadShortcut, Later, Places
    <2>2. pc'[w] \in {"done", "owner", "cache"}
        BY <1>0, <1>7 DEF ReadRolesOfMissing, ReadShortcut, TypeOK
    <2>3. UNCHANGED <<hist, began, version, source, answer>>
        BY <1>7 DEF ReadRolesOfMissing, ReadShortcut
    <2> QED BY <1>3, <2>1, <2>2, <2>3 DEF Early
<1>8. CASE Respond(w)
    BY <1>0, <1>2, <1>8 DEF Respond, NoAnswer, Early, TypeOK, Later
<1> QED BY <1>4, <1>5, <1>6, <1>7, <1>8

\* The owner shortcut, and what comes after it.
LEMMA OwnerStep ==
    ASSUME IInv, NEW w \in Workers,
           ReadOwner(w) \/ ReadOwnerRoles(w) \/ InsertDecisionLog(w)
    PROVE  WorkInv(w)'
<1>0. WorkInv(w) /\ TypeOK
    BY DEF IInv
<1>1. /\ UNCHANGED <<hist, req, began, version, perms>>
      /\ pc[w] \in Later /\ pc[w] \in {"owner", "ownerroles", "log"}
    BY DEF ReadOwner, ReadOwnerRoles, InsertDecisionLog, Later, Places
<1>2. /\ began'[w] \in 1 .. Len(hist')
      /\ hist'[began'[w]].version <= version'[w] /\ version'[w] <= Now'.version
    BY <1>0, <1>1 DEF WorkInv, Later, Now
<1> USE DEF Goto
<1>3. CASE ReadOwner(w)
    <2>1. source[w] = "UNKNOWN" /\ ~answer[w].owner
        BY <1>0, <1>3 DEF ReadOwner, WorkInv, Concluded, TypeOK
    <2>2. \/ /\ pc'[w] = "ownerroles" /\ answer'[w].owner /\ source'[w] = "DB"
          \/ /\ pc'[w] = "cache" /\ ~answer'[w].owner /\ source'[w] = "UNKNOWN"
        BY <1>0, <1>3, <2>1 DEF ReadOwner, TypeOK, OwnerPermit
    <2> QED BY <1>2, <2>2 DEF WorkInv, ByRbac, Concluded
<1>4. CASE ReadOwnerRoles(w)
    <2>1. pc'[w] = "log" /\ answer'[w].owner
        BY <1>0, <1>4 DEF ReadOwnerRoles, WorkInv, TypeOK
    <2> QED BY <1>2, <2>1 DEF WorkInv, ByRbac, Concluded
<1>5. CASE InsertDecisionLog(w)
    <2>1. /\ pc[w] = "log" /\ pc'[w] = "done"
          /\ UNCHANGED <<hist, req, began, version, perms, roles, source, answer>>
        BY <1>0, <1>5 DEF InsertDecisionLog, TypeOK
    <2>2. ByRbac(w)' => ByRbac(w)
        BY <2>1 DEF ByRbac, Concluded
    <2>3. Justified(w) => Justified(w)'
        BY <2>1 DEF Justified
    <2>4. HadRole(req[w].user, began[w]) => HadRole(req[w].user, began[w])'
        BY <2>1 DEF HadRole
    <2> QED BY <1>0, <1>2, <2>1, <2>2, <2>3, <2>4 DEF WorkInv, Concluded
<1> QED BY <1>3, <1>4, <1>5
-----------------------------------------------------------------------------
(* loadUserPermissions and evaluateByRbac.                                 *)

\* What every step of this part may rely on.
LEMMA RbacFacts ==
    ASSUME IInv, NEW w \in Workers, pc[w] \in {"cache", "load", "put", "roles", "decide"}
    PROVE  /\ Len(hist) \in Nat /\ Len(hist) \in 1 .. Len(hist)
           /\ \A c \in 1 .. Len(hist) : hist[c].version \in Nat
           /\ began[w] \in 1 .. Len(hist) /\ began[w] \in Nat
           /\ version[w] \in Nat /\ req[w] \in Requests
           /\ hist[began[w]].version <= version[w] /\ version[w] <= Now.version
           /\ ~answer[w].owner
           /\ WorkInv(w) /\ TypeOK
<1>1. TypeOK /\ WorkInv(w) /\ pc[w] \in Later
    BY DEF IInv, Later, Places
<1>2. HistoryOK /\ req[w] \in Requests /\ began[w] \in Nat /\ version[w] \in Nat
    BY <1>1 DEF TypeOK
<1>3. \A c \in 1 .. Len(hist) : hist[c] \in PolicyState
    BY <1>2 DEF HistoryOK
<1>4. \A c \in 1 .. Len(hist) : hist[c].version \in Nat
    BY <1>3 DEF PolicyState
<1> QED BY <1>1, <1>2, <1>4, NowIsAState DEF WorkInv

LEMMA LoadStep ==
    ASSUME IInv, NEW w \in Workers,
           GetCached(w) \/ LoadPermissions(w) \/ PutCached(w)
    PROVE  WorkInv(w)'
<1> USE DEF Goto
<1>1. pc[w] \in {"cache", "load", "put"}
    BY DEF GetCached, LoadPermissions, PutCached
<1>2. UNCHANGED <<hist, req, began, version, roles, answer>>
    BY DEF GetCached, LoadPermissions, PutCached
<1>3. /\ Len(hist) \in Nat /\ Len(hist) \in 1 .. Len(hist)
      /\ began[w] \in 1 .. Len(hist) /\ began[w] \in Nat
      /\ version[w] \in Nat /\ req[w] \in Requests
      /\ hist[began[w]].version <= version[w] /\ version[w] <= Now.version
      /\ ~answer[w].owner
      /\ WorkInv(w) /\ TypeOK
    BY <1>1, RbacFacts
<1>4. /\ began'[w] \in 1 .. Len(hist')
      /\ hist'[began'[w]].version <= version'[w] /\ version'[w] <= Now'.version
      /\ ~answer'[w].owner
    BY <1>2, <1>3 DEF Now
<1>5. source[w] = "UNKNOWN"
    BY <1>1, <1>3 DEF WorkInv, Concluded, TypeOK
<1>6. CASE GetCached(w) /\ Key(w) \in DOMAIN cache
    <2>1. pc'[w] = "roles" /\ source'[w] = "CACHE" /\ perms'[w] = cache[Key(w)]
        BY <1>3, <1>6 DEF GetCached, TypeOK
    <2>2. Key(w)[1] = req[w].user /\ Key(w)[2] = version[w]
        BY DEF Key, BuildPermissionCacheKey
    <2>3. PICK c \in 1 .. Len(hist) :
             hist[c].version >= version[w] /\ ReadIn(cache[Key(w)], c, req[w].user)
        BY <1>6, <2>2 DEF IInv, CacheSound
    <2>4. ReadSince(perms[w], version[w], req[w].user)'
        BY <1>2, <2>1, <2>3 DEF ReadSince, ReadIn
    <2> QED BY <1>4, <2>1, <2>4 DEF WorkInv, ByRbac, Concluded
<1>7. CASE GetCached(w) /\ Key(w) \notin DOMAIN cache
    <2>1. pc'[w] = "load" /\ source'[w] = "UNKNOWN"
        BY <1>3, <1>5, <1>7 DEF GetCached, TypeOK
    <2> QED BY <1>4, <2>1 DEF WorkInv, ByRbac, Concluded
<1>8. CASE LoadPermissions(w)
    <2>1. PICK ps \in Rows(UserPermissions(Now, req[w].user)) :
             perms' = [perms EXCEPT ![w] = ps]
        BY <1>8 DEF LoadPermissions
    <2>2. perms'[w] = ps /\ pc'[w] = "put" /\ source'[w] = "UNKNOWN"
        BY <1>3, <1>5, <1>8, <2>1 DEF LoadPermissions, TypeOK
    <2>3. ReadIn(ps, Len(hist), req[w].user)
        <3>1. /\ ps \subseteq UserPermissions(Now, req[w].user)
              /\ ~Failures => ps = UserPermissions(Now, req[w].user)
            BY <2>1, RequestAssumption DEF Rows
        <3> QED BY <3>1 DEF ReadIn, Now
    <2>4. Len(hist) \in began[w] .. Len(hist) /\ hist[Len(hist)].version >= version[w]
        BY <1>3 DEF Now
    <2>5. ReadDuring(perms[w], version[w], req[w].user, began[w])'
        BY <1>2, <2>2, <2>3, <2>4 DEF ReadDuring, ReadIn
    <2> QED BY <1>4, <2>2, <2>5 DEF WorkInv, ByRbac, Concluded
<1>9. CASE PutCached(w)
    <2>1. pc[w] = "put" /\ pc'[w] = "roles" /\ source'[w] = "DB" /\ perms' = perms
        BY <1>3, <1>9 DEF PutCached, TypeOK
    <2>2. PICK c \in began[w] .. Len(hist) :
             hist[c].version >= version[w] /\ ReadIn(perms[w], c, req[w].user)
        BY <1>3, <2>1 DEF WorkInv, ReadDuring
    <2>3. ReadDuring(perms[w], version[w], req[w].user, began[w])'
        BY <1>2, <2>1, <2>2 DEF ReadDuring, ReadIn
    <2>4. c \in 1 .. Len(hist)
        BY <1>3
    <2>5. ReadSince(perms[w], version[w], req[w].user)'
        BY <1>2, <2>1, <2>2, <2>4 DEF ReadSince, ReadIn
    <2> QED BY <1>4, <2>1, <2>3, <2>5 DEF WorkInv, ByRbac, Concluded
<1> QED BY <1>6, <1>7, <1>8, <1>9

LEMMA RbacStep ==
    ASSUME IInv, NEW w \in Workers, ReadRoles(w) \/ DecideByRbac(w)
    PROVE  WorkInv(w)'
<1> USE DEF Goto
<1>1. pc[w] \in {"roles", "decide"}
    BY DEF ReadRoles, DecideByRbac
<1>2. UNCHANGED <<hist, req, began, version, perms, source>>
    BY DEF ReadRoles, DecideByRbac
<1>3. /\ Len(hist) \in Nat /\ Len(hist) \in 1 .. Len(hist)
      /\ \A c \in 1 .. Len(hist) : hist[c].version \in Nat
      /\ began[w] \in 1 .. Len(hist) /\ began[w] \in Nat
      /\ version[w] \in Nat /\ req[w] \in Requests
      /\ hist[began[w]].version <= version[w] /\ version[w] <= Now.version
      /\ ~answer[w].owner
      /\ WorkInv(w) /\ TypeOK
    BY <1>1, RbacFacts
<1>4. /\ began'[w] \in 1 .. Len(hist')
      /\ hist'[began'[w]].version <= version'[w] /\ version'[w] <= Now'.version
    BY <1>2, <1>3 DEF Now
<1>5. /\ source[w] # "UNKNOWN"
      /\ ReadSince(perms[w], version[w], req[w].user)
      /\ source[w] = "DB" => ReadDuring(perms[w], version[w], req[w].user, began[w])
    BY <1>1, <1>3 DEF WorkInv
<1>6. PICK c \in 1 .. Len(hist) :
         /\ hist[c].version >= version[w] /\ ReadIn(perms[w], c, req[w].user)
         /\ source[w] = "DB" => c >= began[w]
    <2>1. CASE source[w] = "DB"
        <3>1. PICK c \in began[w] .. Len(hist) :
                 hist[c].version >= version[w] /\ ReadIn(perms[w], c, req[w].user)
            BY <1>5, <2>1 DEF ReadDuring
        <3>2. c \in 1 .. Len(hist) /\ c >= began[w]
            BY <1>3
        <3> QED BY <3>1, <3>2
    <2>2. CASE source[w] # "DB"
        BY <1>5, <2>2 DEF ReadSince
    <2> QED BY <2>1, <2>2
<1>7. CASE ReadRoles(w)
    <2>1. PICK rs \in Rows(UserRoles(Now, req[w].user)) : roles' = [roles EXCEPT ![w] = rs]
        BY <1>7 DEF ReadRoles
    <2>2. roles'[w] = rs /\ pc'[w] = "decide" /\ answer' = answer
        BY <1>3, <1>7, <2>1 DEF ReadRoles, TypeOK
    <2>3. rs # {} => UserRoles(hist[Len(hist)], req[w].user) # {}
        <3>1. UserRoles(Now, req[w].user) \in SUBSET Roles
            BY QueryTypes
        <3>2. rs \subseteq UserRoles(Now, req[w].user)
            BY <2>1, <3>1 DEF Rows
        <3> QED BY <3>2 DEF Now
    <2>4. roles'[w] # {} => HadRole(req[w].user, began[w])'
        <3>1. Len(hist) \in began'[w] .. Len(hist')
            BY <1>2, <1>3
        <3>2. roles'[w] # {} => UserRoles(hist'[Len(hist)], req'[w].user) # {}
            BY <1>2, <2>2, <2>3
        <3> QED BY <3>1, <3>2 DEF HadRole
    <2>5. ReadSince(perms[w], version[w], req[w].user)'
        BY <1>2, <1>5 DEF ReadSince, ReadIn
    <2>6. source[w] = "DB" => ReadDuring(perms[w], version[w], req[w].user, began[w])'
        BY <1>2, <1>5 DEF ReadDuring, ReadIn
    <2> QED BY <1>2, <1>3, <1>4, <1>5, <2>2, <2>4, <2>5, <2>6 DEF WorkInv, ByRbac, Concluded
<1>8. CASE DecideByRbac(w)
    <2>1. PICK candidates \in Rows(RolesWithPermission(Now, req[w].perm)) :
             \/ /\ roles[w] = {}
                /\ Decide(w, "USER_HAS_NO_ROLE", {})
             \/ /\ roles[w] # {} /\ req[w].perm \in perms[w]
                /\ Decide(w, "OK", roles[w] \cap candidates)
             \/ /\ roles[w] # {} /\ req[w].perm \notin perms[w]
                /\ Decide(w, "PERMISSION_DENIED", {})
        BY <1>8 DEF DecideByRbac
    <2>2. /\ pc[w] = "decide" /\ pc'[w] = "log" /\ ~answer'[w].owner
          /\ answer'[w].code = "OK" => roles[w] # {} /\ req[w].perm \in perms[w]
          /\ answer'[w].code = "PERMISSION_DENIED" => req[w].perm \notin perms[w]
        BY <1>3, <1>8, <2>1 DEF DecideByRbac, Decide, TypeOK
    <2>3. answer'[w].code = "OK" => HadRole(req[w].user, began[w])'
        BY <1>2, <1>3, <2>2 DEF WorkInv, HadRole
    <2>4. hist[c].version >= hist[began[w]].version
        BY <1>3, <1>6
    <2>5. /\ answer'[w].code = "OK" => req[w].perm \in UserPermissions(hist[c], req[w].user)
          /\ answer'[w].code = "PERMISSION_DENIED" /\ ~Failures =>
                req[w].perm \notin UserPermissions(hist[c], req[w].user)
        BY <1>6, <2>2 DEF ReadIn
    <2>6. Justified(w)'
        BY <1>2, <1>6, <2>4, <2>5 DEF Justified
    <2> QED BY <1>2, <1>4, <2>2, <2>3, <2>6 DEF WorkInv, ByRbac, Concluded
<1> QED BY <1>7, <1>8
-----------------------------------------------------------------------------
(* The invariant.                                                          *)

\* A step of one worker leaves the registers of the others alone.
LEMMA OthersStill ==
    ASSUME TypeOK, NEW w \in Workers, NEW x \in Workers \ {w}, WorkerStep(x)
    PROVE  Still(w)
<1> USE DEF Goto, Deny, Decide, Still
<1>1. CASE Receive(x) \/ ReceiveIncomplete(x) \/ Respond(x)
    BY <1>1 DEF Receive, ReceiveIncomplete, Respond, TypeOK
<1>2. CASE ReadApp(x)
    BY <1>2 DEF ReadApp, TypeOK
<1>3. CASE CheckPermission(x) \/ ReadResource(x)
    BY <1>3 DEF CheckPermission, ReadResource, TypeOK
<1>4. CASE ReadPermission(x)
    BY <1>4 DEF ReadPermission, TypeOK
<1>5. CASE ReadRolesOfMissing(x) \/ ReadOwnerRoles(x) \/ ReadRoles(x)
    BY <1>5 DEF ReadRolesOfMissing, ReadOwnerRoles, ReadRoles, TypeOK
<1>6. CASE ReadShortcut(x) \/ InsertDecisionLog(x)
    BY <1>6 DEF ReadShortcut, InsertDecisionLog, TypeOK
<1>7. CASE ReadOwner(x)
    BY <1>7 DEF ReadOwner, TypeOK
<1>8. CASE GetCached(x) \/ LoadPermissions(x) \/ PutCached(x)
    BY <1>8 DEF GetCached, LoadPermissions, PutCached, TypeOK
<1>9. CASE DecideByRbac(x)
    BY <1>9 DEF DecideByRbac, TypeOK
<1> QED BY <1>1, <1>2, <1>3, <1>4, <1>5, <1>6, <1>7, <1>8, <1>9
           DEF WorkerStep, Proceed

LEMMA WorkStep ==
    ASSUME IInv, [Next]_vars, NEW w \in Workers
    PROVE  WorkInv(w)'
<1>0. TypeOK /\ WorkInv(w) /\ Grows
    BY HistoryStep DEF IInv
<1>1. Still(w) => WorkInv(w)'
    BY <1>0, StillKeeps
<1>2. CASE WorkerStep(w)
    BY <1>2, EarlyStep, OwnerStep, LoadStep, RbacStep DEF WorkerStep, Proceed
<1>3. ASSUME NEW x \in Workers \ {w}, WorkerStep(x) PROVE Still(w)
    BY <1>0, <1>3, OthersStill
<1>4. CASE UNCHANGED vars \/ Administer \/ \E k \in DOMAIN cache : DropCached(k)
    BY <1>1, <1>4 DEF vars, workVars, Administer, DropCached, Still
<1> QED BY <1>1, <1>2, <1>3, <1>4 DEF Next, WorkerStep

LEMMA CacheStep == IInv /\ [Next]_vars => CacheSound'
<1> SUFFICES ASSUME IInv, [Next]_vars PROVE CacheSound'
    OBVIOUS
<1>0. TypeOK /\ CacheSound /\ Grows
    BY HistoryStep DEF IInv
<1>1. /\ Len(hist) \in Nat /\ Len(hist') \in Nat /\ Len(hist) <= Len(hist')
      /\ \A i \in 1 .. Len(hist) : i \in 1 .. Len(hist') /\ hist'[i] = hist[i]
    BY <1>0, HistoryFacts
<1>2. ASSUME DOMAIN cache' \subseteq DOMAIN cache,
             \A k \in DOMAIN cache' : cache'[k] = cache[k]
      PROVE  CacheSound'
    BY <1>0, <1>1, <1>2 DEF CacheSound, ReadIn
<1>3. ASSUME NEW w \in Workers, PutCached(w) PROVE CacheSound'
    <2>1. pc[w] = "put" /\ hist' = hist
        BY <1>3 DEF PutCached
    <2>2. WorkInv(w) /\ began[w] \in 1 .. Len(hist)
        BY <2>1, RbacFacts DEF IInv
    <2>3. PICK c \in began[w] .. Len(hist) :
             hist[c].version >= version[w] /\ ReadIn(perms[w], c, req[w].user)
        BY <2>1, <2>2 DEF WorkInv, ReadDuring
    <2>4. c \in 1 .. Len(hist)
        BY <1>1, <2>2
    <2>5. Key(w)[1] = req[w].user /\ Key(w)[2] = version[w]
        BY DEF Key, BuildPermissionCacheKey
    <2>6. /\ DOMAIN cache' = DOMAIN cache \cup {Key(w)}
          /\ cache'[Key(w)] = perms[w]
          /\ \A k \in DOMAIN cache : k # Key(w) => cache'[k] = cache[k]
        BY <1>3 DEF PutCached
    <2>7. ASSUME NEW k \in DOMAIN cache', k # Key(w)
          PROVE  \E i \in 1 .. Len(hist) :
                    hist[i].version >= k[2] /\ ReadIn(cache'[k], i, k[1])
        BY <1>0, <2>6, <2>7 DEF CacheSound
    <2>8. \A k \in DOMAIN cache' : \E i \in 1 .. Len(hist) :
             hist[i].version >= k[2] /\ ReadIn(cache'[k], i, k[1])
        BY <2>3, <2>4, <2>5, <2>6, <2>7
    <2> QED BY <2>1, <2>8 DEF CacheSound, ReadIn
<1>4. ASSUME NEW k \in DOMAIN cache, DropCached(k) PROVE CacheSound'
    BY <1>2, <1>4 DEF DropCached
<1>5. CASE UNCHANGED cache
    BY <1>2, <1>5
<1>6. ASSUME NEW w \in Workers, WorkerStep(w), ~PutCached(w) PROVE UNCHANGED cache
    <2>1. CASE Receive(w) \/ ReceiveIncomplete(w) \/ ReadApp(w) \/ CheckPermission(w)
               \/ ReadPermission(w) \/ ReadRolesOfMissing(w) \/ ReadResource(w)
        BY <2>1 DEF Receive, ReceiveIncomplete, ReadApp, CheckPermission,
            ReadPermission, ReadRolesOfMissing, ReadResource
    <2>2. CASE ReadShortcut(w) \/ ReadOwner(w) \/ ReadOwnerRoles(w) \/ GetCached(w)
               \/ LoadPermissions(w)
        BY <2>2 DEF ReadShortcut, ReadOwner, ReadOwnerRoles, GetCached, LoadPermissions
    <2>3. CASE ReadRoles(w) \/ DecideByRbac(w) \/ InsertDecisionLog(w) \/ Respond(w)
        BY <2>3 DEF ReadRoles, DecideByRbac, InsertDecisionLog, Respond
    <2> QED BY <1>6, <2>1, <2>2, <2>3 DEF WorkerStep, Proceed
<1>7. CASE Administer \/ UNCHANGED vars
    BY <1>5, <1>7 DEF Administer, vars
<1> QED BY <1>3, <1>4, <1>5, <1>6, <1>7 DEF Next, WorkerStep

LEMMA VersionsStep == IInv /\ [Next]_vars => VersionsGrow'
<1> SUFFICES ASSUME IInv, [Next]_vars PROVE VersionsGrow'
    OBVIOUS
<1>0. TypeOK /\ VersionsGrow /\ Grows
    BY HistoryStep DEF IInv
<1>1. /\ Len(hist) \in Nat /\ Len(hist) > 0
      /\ Len(hist') \in {Len(hist), Len(hist) + 1}
      /\ \A i \in 1 .. Len(hist) : hist'[i] = hist[i] /\ hist[i].version \in Nat
      /\ \A i \in 1 .. Len(hist') : hist'[i].version \in Nat
      /\ hist[Len(hist)].version <= hist'[Len(hist')].version
    BY <1>0, HistoryFacts DEF Grows, Now, TypeOK, HistoryOK
<1>2. ASSUME NEW i \in 1 .. Len(hist'), NEW j \in 1 .. Len(hist'), i <= j
      PROVE  hist'[i].version <= hist'[j].version
    <2>1. CASE j \in 1 .. Len(hist)
        BY <1>0, <1>1, <1>2, <2>1 DEF VersionsGrow
    <2>2. CASE i \in 1 .. Len(hist) /\ j = Len(hist')
        <3>1. hist[i].version <= hist[Len(hist)].version
            BY <1>0, <1>1, <2>2 DEF VersionsGrow
        <3> QED BY <1>1, <2>2, <3>1
    <2>3. CASE i = j
        BY <1>1, <2>3
    <2> QED BY <1>1, <1>2, <2>1, <2>2, <2>3
<1> QED BY <1>2 DEF VersionsGrow

LEMMA InitIInv == Init => IInv
<1> SUFFICES ASSUME Init PROVE IInv
    OBVIOUS
<1>1. TypeOK
    BY FirstStateAssumption
       DEF Init, TypeOK, HistoryOK, Places, NoAnswer, Answer, Codes
<1>2. VersionsGrow
    <2>1. Len(hist) = 1 /\ hist[1] = FirstState /\ FirstState.version \in Nat
        BY FirstStateAssumption DEF Init, PolicyState
    <2> QED BY <2>1 DEF VersionsGrow
<1>3. CacheSound
    BY DEF Init, CacheSound
<1>4. ASSUME NEW w \in Workers PROVE WorkInv(w)
    BY DEF Init, WorkInv, Later, ByRbac, Concluded, NoAnswer
<1> QED BY <1>1, <1>2, <1>3, <1>4 DEF IInv

\* IInv holds of every reachable state.
THEOREM Invariance == Spec => []IInv
<1>1. IInv /\ [Next]_vars => IInv'
    BY TypeStep, VersionsStep, CacheStep, WorkStep DEF IInv
<1> QED BY InitIInv, <1>1, PTL DEF Spec

-----------------------------------------------------------------------------
(* The theorems.                                                           *)

\* Type correctness of DecisionEngine.
THEOREM TypeCorrect == Spec => []TypeOK
<1>1. IInv => TypeOK
    BY DEF IInv
<1> QED BY Invariance, <1>1, PTL

\* However reads, edits, publications, failures and expiries interleave, no
\* cache entry is older than the policy version of its key.
THEOREM CacheNeverStaleForItsKey == Spec => []CacheSound
<1>1. IInv => CacheSound
    BY DEF IInv
<1> QED BY Invariance, <1>1, PTL

\* Every RBAC answer is right in a state no older than the version that was
\* current when the request arrived.
THEOREM AnswersJustified == Spec => []AnswerJustified
<1>1. IInv => AnswerJustified
    BY DEF IInv, WorkInv, AnswerJustified, Justified
<1> QED BY Invariance, <1>1, PTL

\* Cached permissions permit nobody who has held no role since the request
\* arrived: RBAC permits only on roles read by the request itself.
THEOREM NobodyWithoutRole == Spec => []NoRoleNoAccess
<1>1. IInv => NoRoleNoAccess
    BY DEF IInv, WorkInv, NoRoleNoAccess, HadRole
<1> QED BY Invariance, <1>1, PTL

-----------------------------------------------------------------------------
(* Evaluate computes Decision: when nothing is changed, nothing fails and  *)
(* no cached set is used, what the queries find one after the other adds   *)
(* up to the decision of the one state they all saw.                       *)
(*                                                                         *)
(* The invariant says at each place which of the tests of Decision have    *)
(* been passed.  It speaks of undisturbed requests only, so a change of    *)
(* the tables makes it true for every worker, and a step of one worker     *)
(* leaves it alone for the others.                                         *)

Undisturbed(w) == pc[w] # "idle" /\ began[w] = Len(hist) /\ ~Failures

\* The tests of Decision passed before getResourceInfo, and before the flag.
Fits(r) == PermissionExists(Now, r.perm) /\ ~Mismatch(r) /\ r.resource # NoResource
OnResource(r) == Fits(r) /\ ResourceEnabled(Now, r.resource)

RbacPlaces == {"cache", "load", "put", "roles", "decide"}
Ends == {"missingroles", "ownerroles", "log", "done"}

Passed(w) ==
    /\ pc[w] = "exists" => Now.app = "on"
    /\ pc[w] = "info" => PermissionExists(Now, req[w].perm)
    /\ pc[w] = "resource" => Fits(req[w])
    /\ pc[w] = "shortcut" => OnResource(req[w])
    /\ pc[w] = "owner" => OnResource(req[w]) /\ OwnerShortcutEnabled(Now, req[w].perm)
    /\ pc[w] \in RbacPlaces => Decision(Now, req[w]) = RbacDecision(Now, req[w])
    /\ pc[w] \in {"put", "roles", "decide"} /\ source[w] # "CACHE" =>
          perms[w] = UserPermissions(Now, req[w].user)
    /\ pc[w] = "decide" => roles[w] = UserRoles(Now, req[w].user)
    /\ pc[w] \in Ends /\ answer[w].code # "INVALID_ARGUMENT" /\ source[w] # "CACHE" =>
          answer[w] = Decision(Now, req[w])

ExactInv == \A w \in Workers : Undisturbed(w) => Passed(w)

LEMMA NoFailure ==
    ASSUME ~Failures
    PROVE  /\ \A value, failed : Result(value, failed) = {value}
           /\ \A set : Rows(set) = {set}
BY DEF Result, Rows

\* One step of an undisturbed worker.
LEMMA StepPasses ==
    ASSUME IInv, NEW w \in Workers, WorkerStep(w),
           Undisturbed(w) => Passed(w), Undisturbed(w)'
    PROVE  Passed(w)'
<1>0. TypeOK /\ Now \in PolicyState /\ hist' = hist /\ Now' = Now
    <2>1. CASE Receive(w) \/ ReceiveIncomplete(w) \/ ReadApp(w) \/ CheckPermission(w)
               \/ ReadPermission(w) \/ ReadRolesOfMissing(w) \/ ReadResource(w)
        BY <2>1, NowIsAState DEF IInv, TypeOK, Now, Receive, ReceiveIncomplete, ReadApp,
            CheckPermission, ReadPermission, ReadRolesOfMissing, ReadResource
    <2>2. CASE ReadShortcut(w) \/ ReadOwner(w) \/ ReadOwnerRoles(w) \/ GetCached(w)
               \/ LoadPermissions(w) \/ PutCached(w)
        BY <2>2, NowIsAState DEF IInv, TypeOK, Now, ReadShortcut, ReadOwner,
            ReadOwnerRoles, GetCached, LoadPermissions, PutCached
    <2>3. CASE ReadRoles(w) \/ DecideByRbac(w) \/ InsertDecisionLog(w) \/ Respond(w)
        BY <2>3, NowIsAState DEF IInv, TypeOK, Now, ReadRoles, DecideByRbac,
            InsertDecisionLog, Respond
    <2> QED BY <2>1, <2>2, <2>3 DEF WorkerStep, Proceed
<1>1. pc \in [Workers -> Places] /\ answer \in [Workers -> Answer]
      /\ version \in [Workers -> Nat] /\ source \in [Workers -> {"UNKNOWN", "CACHE", "DB"}]
      /\ perms \in [Workers -> SUBSET Perms] /\ roles \in [Workers -> SUBSET Roles]
      /\ req \in [Workers -> Requests \cup {NoRequest}] /\ began \in [Workers -> Nat]
    BY <1>0 DEF TypeOK
<1>2. ~Failures /\ pc'[w] # "idle" /\ began'[w] = Len(hist)
    BY <1>0 DEF Undisturbed
<1>3. /\ \A value, failed : Result(value, failed) = {value}
      /\ \A set : Rows(set) = {set}
    BY <1>2, NoFailure
<1>4. pc[w] # "idle" /\ began'[w] = began[w] => Passed(w)
    BY <1>2 DEF Undisturbed
<1>5. WorkInv(w)
    BY DEF IInv
<1> USE DEF Goto
<1>6. CASE Receive(w) \/ ReceiveIncomplete(w)
    BY <1>0, <1>1, <1>6
       DEF Receive, ReceiveIncomplete, Deny, Decide, Passed, RbacPlaces, Ends
<1>7. CASE ReadApp(w)
    <2>1. Passed(w) /\ req' = req /\ source' = source
        BY <1>1, <1>4, <1>7 DEF ReadApp
    <2>2. \/ Now.app = "on" /\ pc'[w] = "exists"
          \/ /\ Now.app = "absent" /\ pc'[w] = "done"
             /\ answer'[w] = Denial("APP_NOT_FOUND")
          \/ /\ Now.app = "off" /\ pc'[w] = "done"
             /\ answer'[w] = Denial("APP_DISABLED")
        BY <1>1, <1>3, <1>7 DEF ReadApp, Deny, Decide, Denial
    <2> QED BY <1>0, <2>1, <2>2 DEF Passed, RbacPlaces, Ends, Decision
<1>8. CASE CheckPermission(w)
    <2>1. Passed(w) /\ req' = req /\ source' = source /\ pc[w] = "exists"
        BY <1>1, <1>4, <1>8 DEF CheckPermission
    <2>2. Now.app = "on"
        BY <2>1 DEF Passed
    <2>3. \/ PermissionExists(Now, req[w].perm) /\ pc'[w] = "info"
          \/ /\ ~PermissionExists(Now, req[w].perm) /\ pc'[w] = "missingroles"
             /\ answer'[w] = Denial("PERMISSION_NOT_FOUND")
        BY <1>1, <1>3, <1>8 DEF CheckPermission, Deny, Decide, Denial
    <2> QED BY <1>0, <2>1, <2>2, <2>3 DEF Passed, RbacPlaces, Ends, Decision
<1>9. CASE ReadPermission(w)
    <2>1. Passed(w) /\ req' = req /\ source' = source /\ pc[w] = "info"
        BY <1>1, <1>4, <1>9 DEF ReadPermission
    <2>2. PermissionExists(Now, req[w].perm) /\ Now.app = "on"
        BY <2>1 DEF Passed, PermissionExists
    <2>3. \/ /\ Mismatch(req[w]) /\ pc'[w] = "done"
             /\ answer'[w] = Denial("PERMISSION_DENIED")
          \/ ~Mismatch(req[w]) /\ req[w].resource = NoResource /\ pc'[w] = "cache"
          \/ ~Mismatch(req[w]) /\ req[w].resource # NoResource /\ pc'[w] = "resource"
        BY <1>1, <1>3, <1>9, <2>2 DEF ReadPermission, Deny, Decide, Denial
    <2> QED BY <1>0, <2>1, <2>2, <2>3 DEF Passed, RbacPlaces, Ends, Decision, Fits
<1>10. CASE ReadRolesOfMissing(w) \/ InsertDecisionLog(w) \/ ReadOwnerRoles(w)
    <2>1. /\ UNCHANGED <<req, source, answer>> /\ Passed(w)
          /\ pc[w] \in Ends /\ pc'[w] \in {"log", "done"}
        BY <1>1, <1>4, <1>10
           DEF ReadRolesOfMissing, InsertDecisionLog, ReadOwnerRoles, Ends
    <2> QED BY <1>0, <2>1 DEF Passed, RbacPlaces, Ends
<1>11. CASE ReadResource(w)
    <2>1. Passed(w) /\ req' = req /\ source' = source /\ pc[w] = "resource"
        BY <1>1, <1>4, <1>11 DEF ReadResource
    <2>2. Fits(req[w]) /\ Now.app = "on"
        BY <2>1 DEF Passed, Fits, PermissionExists
    <2>3. \/ ResourceEnabled(Now, req[w].resource) /\ pc'[w] = "shortcut"
          \/ /\ ~ResourceEnabled(Now, req[w].resource) /\ pc'[w] = "done"
             /\ answer'[w] = Denial("RESOURCE_NOT_FOUND")
        BY <1>1, <1>3, <1>11 DEF ReadResource, Deny, Decide, Denial
    <2> QED BY <1>0, <2>1, <2>2, <2>3
               DEF Passed, RbacPlaces, Ends, Decision, Fits, OnResource
<1>12. CASE ReadShortcut(w)
    <2>1. Passed(w) /\ req' = req /\ source' = source /\ pc[w] = "shortcut"
        BY <1>1, <1>4, <1>12 DEF ReadShortcut
    <2>2. OnResource(req[w]) /\ Now.app = "on"
        BY <2>1 DEF Passed, OnResource, Fits, PermissionExists
    <2>3. pc'[w] = IF OwnerShortcutEnabled(Now, req[w].perm) THEN "owner" ELSE "cache"
        BY <1>1, <1>3, <1>12 DEF ReadShortcut
    <2> QED BY <1>0, <2>1, <2>2, <2>3
               DEF Passed, RbacPlaces, Ends, Decision, Fits, OnResource
<1>13. CASE ReadOwner(w)
    <2>1. Passed(w) /\ req' = req /\ pc[w] = "owner"
        BY <1>1, <1>4, <1>13 DEF ReadOwner
    <2>2. /\ OnResource(req[w]) /\ OwnerShortcutEnabled(Now, req[w].perm)
          /\ Now.app = "on"
        BY <2>1 DEF Passed, OnResource, Fits, PermissionExists
    <2>3. \/ /\ IsResourceOwner(Now, req[w].resource, req[w].user)
             /\ pc'[w] = "ownerroles" /\ answer'[w] = OwnerPermit
          \/ ~IsResourceOwner(Now, req[w].resource, req[w].user) /\ pc'[w] = "cache"
        BY <1>1, <1>3, <1>13 DEF ReadOwner
    <2> QED BY <1>0, <2>1, <2>2, <2>3
               DEF Passed, RbacPlaces, Ends, Decision, Fits, OnResource
<1>14. CASE GetCached(w)
    <2>1. Passed(w) /\ req' = req /\ pc[w] = "cache"
        BY <1>1, <1>4, <1>14 DEF GetCached
    <2>2. pc'[w] = "load" \/ (pc'[w] = "roles" /\ source'[w] = "CACHE")
        BY <1>1, <1>14 DEF GetCached
    <2>3. Decision(Now, req[w]) = RbacDecision(Now, req[w])
        BY <2>1 DEF Passed, RbacPlaces
    <2>4. Decision(Now', req'[w]) = RbacDecision(Now', req'[w])
        BY <1>0, <2>1, <2>3
    <2>5. CASE pc'[w] = "load"
        BY <2>4, <2>5 DEF Passed, RbacPlaces, Ends
    <2>6. CASE pc'[w] = "roles" /\ source'[w] = "CACHE"
        BY <2>4, <2>6 DEF Passed, RbacPlaces, Ends
    <2> QED BY <2>2, <2>5, <2>6
<1>15. CASE LoadPermissions(w)
    <2>1. Passed(w) /\ req' = req /\ pc[w] = "load" /\ pc'[w] = "put"
        BY <1>1, <1>4, <1>15 DEF LoadPermissions
    <2>2. perms'[w] = UserPermissions(Now, req[w].user)
        BY <1>1, <1>3, <1>15 DEF LoadPermissions
    <2> QED BY <1>0, <2>1, <2>2 DEF Passed, RbacPlaces, Ends
<1>16. CASE PutCached(w)
    <2>1. Passed(w) /\ req' = req /\ perms' = perms /\ pc[w] = "put" /\ pc'[w] = "roles"
        BY <1>1, <1>4, <1>16 DEF PutCached
    <2>2. source[w] # "CACHE"
        BY <1>1, <1>5, <2>1 DEF WorkInv, Concluded
    <2> QED BY <1>0, <2>1, <2>2 DEF Passed, RbacPlaces, Ends
<1>17. CASE ReadRoles(w)
    <2>1. /\ Passed(w) /\ UNCHANGED <<req, perms, source>>
          /\ pc[w] = "roles" /\ pc'[w] = "decide"
        BY <1>1, <1>4, <1>17 DEF ReadRoles
    <2>2. roles'[w] = UserRoles(Now, req[w].user)
        BY <1>1, <1>3, <1>17 DEF ReadRoles
    <2> QED BY <1>0, <2>1, <2>2 DEF Passed, RbacPlaces, Ends
<1>18. CASE DecideByRbac(w)
    <2>1. /\ Passed(w) /\ UNCHANGED <<req, perms, source, roles>>
          /\ pc[w] = "decide" /\ pc'[w] = "log"
        BY <1>1, <1>4, <1>18 DEF DecideByRbac
    <2>2. /\ roles[w] = UserRoles(Now, req[w].user)
          /\ source[w] # "CACHE" => perms[w] = UserPermissions(Now, req[w].user)
          /\ Decision(Now, req[w]) = RbacDecision(Now, req[w])
        BY <2>1 DEF Passed, RbacPlaces
    <2>3. answer'[w] =
             IF roles[w] = {} THEN Denial("USER_HAS_NO_ROLE")
             ELSE IF req[w].perm \in perms[w]
                  THEN Permit(roles[w] \cap RolesWithPermission(Now, req[w].perm))
             ELSE Denial("PERMISSION_DENIED")
        BY <1>1, <1>3, <1>18 DEF DecideByRbac, Decide, Denial, Permit
    <2>4. source[w] # "CACHE" => answer'[w] = Decision(Now, req[w])
        BY <2>2, <2>3 DEF RbacDecision
    <2> QED BY <1>0, <2>1, <2>4 DEF Passed, RbacPlaces, Ends
<1>19. CASE Respond(w)
    BY <1>1, <1>2, <1>19 DEF Respond
<1> QED
    BY <1>6, <1>7, <1>8, <1>9, <1>10, <1>11, <1>12, <1>13, <1>14, <1>15, <1>16,
       <1>17, <1>18, <1>19 DEF WorkerStep, Proceed

LEMMA ExactStep == IInv /\ ExactInv /\ [Next]_vars => ExactInv'
<1> SUFFICES ASSUME IInv, ExactInv, [Next]_vars, NEW w \in Workers, Undisturbed(w)'
             PROVE  Passed(w)'
    BY DEF ExactInv
<1>0. TypeOK /\ (Undisturbed(w) => Passed(w)) /\ WorkInv(w) /\ Grows
    BY HistoryStep DEF IInv, ExactInv
<1>1. CASE WorkerStep(w)
    BY <1>0, <1>1, StepPasses
<1>2. ASSUME Still(w), hist' = hist PROVE Passed(w)'
    BY <1>0, <1>2 DEF Still, Undisturbed, Passed, Now, Fits, OnResource
<1>3. ASSUME NEW x \in Workers \ {w}, WorkerStep(x) PROVE Passed(w)'
    <2>1. Still(w)
        BY <1>0, <1>3, OthersStill
    <2>2. hist' = hist
        BY <1>3, WorkerKeepsHistory
    <2> QED BY <1>2, <2>1, <2>2
<1>4. CASE UNCHANGED vars \/ \E k \in DOMAIN cache : DropCached(k)
    BY <1>2, <1>4 DEF vars, workVars, DropCached, Still
<1>5. CASE Administer
    <2>1. began'[w] = began[w] /\ pc'[w] = pc[w] /\ pc[w] # "idle"
        BY <1>5 DEF Administer, workVars, Undisturbed
    <2>2. began[w] \in 1 .. Len(hist) /\ Len(hist') = Len(hist) + 1
        BY <1>0, <1>5, <2>1, ChangeAppends DEF WorkInv, Administer, TypeOK
    <2>3. Len(hist) \in Nat
        BY <1>0 DEF TypeOK, HistoryOK
    <2>4. began'[w] # Len(hist')
        BY <2>1, <2>2, <2>3
    <2> QED BY <2>4 DEF Undisturbed
<1> QED BY <1>1, <1>3, <1>4, <1>5 DEF Next, WorkerStep

\* A request during which nothing changes, nothing fails and no cached set is
\* used is answered with Decision of the state its queries saw.
THEOREM EvaluateIsDecision == Spec => []UndisturbedAnswerExact
<1>1. Init => ExactInv
    BY DEF Init, ExactInv, Undisturbed
<1>2. IInv /\ ExactInv /\ [Next]_vars => ExactInv'
    BY ExactStep
<1>3. ExactInv => UndisturbedAnswerExact
    BY DEF ExactInv, Undisturbed, Passed, Ends, UndisturbedAnswerExact
<1> QED BY Invariance, <1>1, <1>2, <1>3, PTL DEF Spec

-----------------------------------------------------------------------------
(* What the AdminService gives, it does not take back.  When it is the     *)
(* only writer, the history only adds (Adding), so what an earlier query   *)
(* found is still there at the later ones.                                 *)

\* A version older than the one of the arrival gives what is asked for.
Promised(w) ==
    \E c \in 1 .. Len(hist) :
        /\ hist[c].version < hist[began[w]].version
        /\ req[w].perm \in UserPermissions(hist[c], req[w].user)

\* The owner shortcut needs no more than that; the rest is about lists that
\* were read whole.  A permission found held is held by a role among those read
\* afterwards, and that role is still a candidate.
HonestInv(w) ==
    /\ pc[w] = "owner" => OwnerShortcutEnabled(Now, req[w].perm)
    /\ pc[w] # "idle" /\ answer[w].owner =>
          \E c \in began[w] .. Len(hist) :
              /\ OwnerShortcutEnabled(hist[c], req[w].perm)
              /\ IsResourceOwner(hist[c], req[w].resource, req[w].user)
    /\ pc[w] = "decide" /\ ~Failures =>
          /\ req[w].perm \in perms[w] =>
                roles[w] \cap RolesWithPermission(Now, req[w].perm) # {}
          /\ Promised(w) => req[w].perm \in perms[w] /\ roles[w] # {}
    /\ ByRbac(w) /\ ~Failures =>
          /\ answer[w].code = "OK" => answer[w].matched # {}
          /\ answer[w].code # "OK" => ~Promised(w)

ServiceInv == Adding /\ \A w \in Workers : HonestInv(w)

LEMMA AddingStep ==
    ASSUME Edits \subseteq ApiEdits, TypeOK, Adding, [Next]_vars
    PROVE  Adding'
<1>1. CASE UNCHANGED hist
    BY <1>1 DEF Adding
<1>2. CASE Administer
    BY <1>2, ServiceKeepsAdding DEF Administer, TypeOK
<1>3. CASE UNCHANGED vars \/ \E k \in DOMAIN cache : DropCached(k)
    BY <1>1, <1>3 DEF vars, DropCached
<1> QED BY <1>1, <1>2, <1>3, WorkerKeepsHistory DEF Next, WorkerStep

\* A change made by the service leaves what a worker relies on: rows only join
\* the tables, and the new version is no older than the one at any arrival.
LEMMA HonestStill ==
    ASSUME IInv, Grows, Adding', NEW w \in Workers, HonestInv(w), Still(w)
    PROVE  HonestInv(w)'
<1>0. TypeOK /\ VersionsGrow /\ WorkInv(w)
    BY DEF IInv
<1>1. /\ Len(hist) \in Nat /\ Len(hist') \in Nat /\ Len(hist) <= Len(hist')
      /\ \A i \in 1 .. Len(hist) : i \in 1 .. Len(hist') /\ hist'[i] = hist[i]
      /\ \A i \in 1 .. Len(hist) : hist[i].version \in Nat
      /\ Now.version \in Nat /\ Now'.version \in Nat /\ Now.version <= Now'.version
    BY <1>0, HistoryFacts
<1>2. /\ Len(hist) \in 1 .. Len(hist) /\ Len(hist') \in {Len(hist), Len(hist) + 1}
      /\ Now = hist[Len(hist)] /\ Now' = hist'[Len(hist')]
    BY <1>0, NowIsAState DEF TypeOK, Grows, Now
<1>3. OnlyAdds(Now, Now')
    <2>1. Len(hist') \in 1 .. Len(hist') /\ Len(hist) \in 1 .. Len(hist')
        BY <1>1, <1>2
    <2> QED BY <1>1, <1>2, <2>1 DEF Adding
<1>4. pc[w] \in {"owner", "decide"} => req[w].perm \in Perms
    BY <1>0 DEF TypeOK, Requests
<1>5. pc[w] # "idle" => began[w] \in 1 .. Len(hist) /\ began[w] \in Nat
    BY <1>0 DEF WorkInv, TypeOK
<1>6. ASSUME pc[w] # "idle", Promised(w)'
      PROVE  Promised(w)
    <2>1. PICK c \in 1 .. Len(hist') :
             /\ hist'[c].version < hist'[began'[w]].version
             /\ req'[w].perm \in UserPermissions(hist'[c], req'[w].user)
        BY <1>6 DEF Promised
    <2>2. hist'[began'[w]] = hist[began[w]] /\ hist[began[w]].version <= Now.version
        BY <1>0, <1>1, <1>2, <1>5, <1>6 DEF VersionsGrow, Still
    <2>3. c \in 1 .. Len(hist)
        <3>1. CASE c = Len(hist')
            <4>1. Now'.version < hist[began[w]].version
                BY <1>2, <2>1, <2>2, <3>1
            <4>2. hist[began[w]].version \in Nat
                BY <1>1, <1>5, <1>6
            <4> QED BY <1>1, <2>2, <4>1, <4>2
        <3> QED BY <1>1, <1>2, <3>1
    <2> QED BY <1>1, <2>1, <2>2, <2>3 DEF Promised, Still
<1>7. pc'[w] = "owner" => OwnerShortcutEnabled(Now, req[w].perm)'
    BY <1>3, <1>4, OnlyAddsToPermission DEF HonestInv, Still
<1>8. ASSUME pc[w] # "idle", answer[w].owner
      PROVE  \E c \in began'[w] .. Len(hist') :
                /\ OwnerShortcutEnabled(hist'[c], req'[w].perm)
                /\ IsResourceOwner(hist'[c], req'[w].resource, req'[w].user)
    <2>1. PICK c \in began[w] .. Len(hist) :
             /\ OwnerShortcutEnabled(hist[c], req[w].perm)
             /\ IsResourceOwner(hist[c], req[w].resource, req[w].user)
        BY <1>8 DEF HonestInv
    <2>2. c \in began'[w] .. Len(hist') /\ hist'[c] = hist[c]
        BY <1>1, <1>5, <1>8 DEF Still
    <2> QED BY <2>1, <2>2 DEF Still
<1>9. ASSUME pc[w] = "decide", ~Failures
      PROVE  /\ req[w].perm \in perms[w] =>
                   roles[w] \cap RolesWithPermission(Now', req[w].perm) # {}
             /\ Promised(w)' => req[w].perm \in perms[w] /\ roles[w] # {}
    <2>1. RolesWithPermission(Now, req[w].perm) \subseteq RolesWithPermission(Now', req[w].perm)
        BY <1>3, <1>4, <1>9, OnlyAddsToPermission
    <2> QED BY <1>6, <1>9, <2>1 DEF HonestInv
<1>10. ASSUME ByRbac(w), ~Failures
       PROVE  /\ answer[w].code = "OK" => answer[w].matched # {}
              /\ answer[w].code # "OK" => ~Promised(w)'
    BY <1>6, <1>10 DEF HonestInv, ByRbac, Concluded
<1>11. ByRbac(w)' <=> ByRbac(w)
    BY DEF ByRbac, Concluded, Still
<1>12. /\ pc'[w] = "decide" /\ ~Failures =>
             /\ req'[w].perm \in perms'[w] =>
                   roles'[w] \cap RolesWithPermission(Now', req'[w].perm) # {}
             /\ Promised(w)' => req'[w].perm \in perms'[w] /\ roles'[w] # {}
       /\ ByRbac(w)' /\ ~Failures =>
             /\ answer'[w].code = "OK" => answer'[w].matched # {}
             /\ answer'[w].code # "OK" => ~Promised(w)'
    BY <1>9, <1>10, <1>11 DEF Still
<1> QED BY <1>7, <1>8, <1>12 DEF HonestInv, Still

\* Up to loadUserPermissions no source is set and no owner found.
LEMMA EarlyStays ==
    ASSUME IInv, NEW w \in Workers,
           \/ Receive(w) \/ ReceiveIncomplete(w) \/ ReadApp(w) \/ CheckPermission(w)
           \/ ReadPermission(w) \/ ReadRolesOfMissing(w) \/ ReadResource(w)
           \/ ReadShortcut(w) \/ Respond(w)
    PROVE  Early(w)' /\ (pc'[w] = "owner" => ReadShortcut(w))
<1>0. WorkInv(w) /\ TypeOK
    BY DEF IInv
<1>1. pc[w] \in {"idle", "app", "exists", "info", "missingroles", "resource", "shortcut"}
         => Early(w)
    BY <1>0 DEF WorkInv, Early, Concluded, TypeOK
<1> USE DEF Goto, Early
<1>2. CASE Receive(w) \/ ReceiveIncomplete(w)
    BY <1>0, <1>1, <1>2 DEF Receive, ReceiveIncomplete, Deny, Decide, TypeOK
<1>3. CASE ReadApp(w)
    BY <1>0, <1>1, <1>3 DEF ReadApp, Deny, Decide, TypeOK
<1>4. CASE CheckPermission(w) \/ ReadResource(w)
    <2>1. UNCHANGED answer \/ \E code \in Codes : Decide(w, code, {})
        BY <1>4 DEF CheckPermission, ReadResource, Deny, Codes
    <2>2. Early(w)
        BY <1>1, <1>4 DEF CheckPermission, ReadResource
    <2>3. ~answer'[w].owner
        BY <1>0, <2>1, <2>2 DEF Decide, TypeOK
    <2>4. pc'[w] \in {"info", "missingroles", "shortcut", "done"} /\ source' = source
        BY <1>0, <1>4 DEF CheckPermission, ReadResource, Deny, TypeOK
    <2> QED BY <2>2, <2>3, <2>4
<1>5. CASE ReadPermission(w)
    BY <1>0, <1>1, <1>5 DEF ReadPermission, Deny, Decide, TypeOK
<1>6. CASE ReadRolesOfMissing(w) \/ ReadShortcut(w)
    BY <1>0, <1>1, <1>6 DEF ReadRolesOfMissing, ReadShortcut, TypeOK
<1>7. CASE Respond(w)
    BY <1>0, <1>7 DEF Respond, NoAnswer, TypeOK
<1> QED BY <1>2, <1>3, <1>4, <1>5, <1>6, <1>7

LEMMA HonestOwner ==
    ASSUME IInv, NEW w \in Workers, HonestInv(w),
           ReadShortcut(w) \/ ReadOwner(w) \/ ReadOwnerRoles(w)
    PROVE  HonestInv(w)'
<1>0. /\ WorkInv(w) /\ TypeOK /\ began[w] \in Nat /\ Len(hist) \in Nat
      /\ pc[w] # "idle" /\ began[w] \in 1 .. Len(hist)
    BY NowIsAState DEF IInv, TypeOK, WorkInv, ReadShortcut, ReadOwner, ReadOwnerRoles
<1>1. UNCHANGED <<hist, req, began, perms>> /\ Now' = Now
    BY DEF ReadShortcut, ReadOwner, ReadOwnerRoles, Now
<1> USE DEF Goto
<1>2. CASE ReadShortcut(w)
    <2>1. Early(w)'
        BY <1>2, EarlyStays
    <2>2. PICK flag \in Result(OwnerShortcutEnabled(Now, req[w].perm), FALSE) :
             pc' = [pc EXCEPT ![w] = IF flag THEN "owner" ELSE "cache"]
        BY <1>2 DEF ReadShortcut
    <2>3. pc'[w] = "owner" => flag
        BY <1>0, <2>2 DEF TypeOK
    <2>4. flag => OwnerShortcutEnabled(Now, req[w].perm)
        <3> DEFINE enabled == OwnerShortcutEnabled(Now, req[w].perm)
        <3>1. flag = enabled \/ flag = FALSE
            BY <2>2 DEF Result
        <3> HIDE DEF enabled
        <3>2. flag => enabled
            BY <3>1
        <3> QED BY <3>2 DEF enabled
    <2> QED BY <1>1, <2>1, <2>3, <2>4 DEF HonestInv, Early, ByRbac
<1>3. CASE ReadOwner(w)
    <2>1. pc[w] = "owner" /\ ~answer[w].owner /\ source[w] = "UNKNOWN"
        BY <1>0, <1>3 DEF ReadOwner, WorkInv, Concluded, TypeOK
    <2>2. PICK owns \in Result(IsResourceOwner(Now, req[w].resource, req[w].user), FALSE) :
             \/ /\ owns
                /\ answer' = [answer EXCEPT ![w] = OwnerPermit]
                /\ pc' = [pc EXCEPT ![w] = "ownerroles"]
             \/ /\ ~owns /\ pc' = [pc EXCEPT ![w] = "cache"]
                /\ UNCHANGED <<answer, source>>
        BY <1>3 DEF ReadOwner
    <2>3. owns => IsResourceOwner(Now, req[w].resource, req[w].user)
        <3> DEFINE owner == IsResourceOwner(Now, req[w].resource, req[w].user)
        <3>1. owns = owner \/ owns = FALSE
            BY <2>2 DEF Result
        <3> HIDE DEF owner
        <3>2. owns => owner
            BY <3>1
        <3> QED BY <3>2 DEF owner
    <2>4. CASE owns
        <3>1. pc'[w] = "ownerroles" /\ answer'[w].owner
            BY <1>0, <2>2, <2>4 DEF TypeOK, OwnerPermit
        <3>2. Len(hist) \in began[w] .. Len(hist)
            BY <1>0
        <3>3. /\ OwnerShortcutEnabled(hist[Len(hist)], req[w].perm)
              /\ IsResourceOwner(hist[Len(hist)], req[w].resource, req[w].user)
            BY <2>1, <2>3, <2>4 DEF HonestInv, Now
        <3> QED BY <1>1, <3>1, <3>2, <3>3 DEF HonestInv, ByRbac
    <2>5. CASE ~owns
        <3>1. pc'[w] = "cache" /\ ~answer'[w].owner
            BY <1>0, <2>1, <2>2, <2>5 DEF TypeOK
        <3> QED BY <3>1 DEF HonestInv, ByRbac, Concluded
    <2> QED BY <2>4, <2>5
<1>4. CASE ReadOwnerRoles(w)
    <2>1. pc'[w] = "log" /\ answer' = answer /\ answer[w].owner
        BY <1>0, <1>4 DEF ReadOwnerRoles, WorkInv, TypeOK
    <2> QED BY <1>0, <1>1, <2>1 DEF HonestInv, ByRbac
<1> QED BY <1>2, <1>3, <1>4

LEMMA HonestRoles ==
    ASSUME IInv, Adding, NEW w \in Workers, ReadRoles(w)
    PROVE  HonestInv(w)'
<1>0. /\ Len(hist) \in Nat /\ Len(hist) \in 1 .. Len(hist)
      /\ \A c \in 1 .. Len(hist) : hist[c].version \in Nat
      /\ began[w] \in 1 .. Len(hist)
      /\ version[w] \in Nat /\ req[w] \in Requests
      /\ hist[began[w]].version <= version[w]
      /\ ~answer[w].owner /\ WorkInv(w) /\ TypeOK /\ VersionsGrow
    BY RbacFacts DEF IInv, ReadRoles
<1>1. UNCHANGED <<hist, req, began, perms, answer>> /\ Now' = Now /\ pc[w] = "roles"
    BY DEF ReadRoles, Now
<1>2. PICK rs \in Rows(UserRoles(Now, req[w].user)) : roles' = [roles EXCEPT ![w] = rs]
    BY DEF ReadRoles
<1>3. pc'[w] = "decide" /\ roles'[w] = rs
    BY <1>0, <1>2 DEF ReadRoles, Goto, TypeOK
<1>4. PICK c \in 1 .. Len(hist) :
         hist[c].version >= version[w] /\ ReadIn(perms[w], c, req[w].user)
    BY <1>0, <1>1 DEF WorkInv, ReadSince
<1>5. req[w].user \in Users /\ req[w].perm \in Perms
    BY <1>0 DEF Requests
<1>6. ASSUME ~Failures, req[w].perm \in perms[w]
      PROVE  rs \cap RolesWithPermission(Now, req[w].perm) # {}
    <2>1. req[w].perm \in UserPermissions(hist[c], req[w].user)
        BY <1>4, <1>6 DEF ReadIn
    <2>2. OnlyAdds(hist[c], Now)
        BY <1>0 DEF Adding, Now
    <2>3. req[w].perm \in UserPermissions(Now, req[w].user)
        BY <2>1, <2>2, OnlyAddsFacts
    <2>4. UserRoles(Now, req[w].user) \cap RolesWithPermission(Now, req[w].perm) # {}
        BY <1>5, <2>3, QueriesAgree
    <2>5. rs = UserRoles(Now, req[w].user)
        BY <1>2, <1>6 DEF Rows
    <2> QED BY <2>4, <2>5
<1>7. ASSUME ~Failures, Promised(w)
      PROVE  req[w].perm \in perms[w]
    <2>1. PICK e \in 1 .. Len(hist) :
             /\ hist[e].version < hist[began[w]].version
             /\ req[w].perm \in UserPermissions(hist[e], req[w].user)
        BY <1>7 DEF Promised
    <2>2. e <= c
        <3>1. CASE c <= e
            <4>1. hist[c].version <= hist[e].version
                BY <1>0, <3>1 DEF VersionsGrow
            <4>2. hist[c].version \in Nat /\ hist[e].version \in Nat
                  /\ hist[began[w]].version \in Nat
                BY <1>0
            <4> QED BY <1>0, <1>4, <2>1, <4>1, <4>2
        <3> QED BY <3>1
    <2>3. OnlyAdds(hist[e], hist[c])
        BY <2>2 DEF Adding
    <2>4. req[w].perm \in UserPermissions(hist[c], req[w].user)
        BY <2>1, <2>3, OnlyAddsFacts
    <2> QED BY <1>4, <1>7, <2>4 DEF ReadIn
<1>8. Promised(w)' <=> Promised(w)
    BY <1>1 DEF Promised
<1>9. ~Failures => /\ req[w].perm \in perms[w] =>
                         rs \cap RolesWithPermission(Now, req[w].perm) # {}
                   /\ Promised(w)' => req[w].perm \in perms[w] /\ rs # {}
    <2>1. rs \cap RolesWithPermission(Now, req[w].perm) # {} => rs # {}
        OBVIOUS
    <2> QED BY <1>6, <1>7, <1>8, <2>1
<1> QED BY <1>0, <1>1, <1>3, <1>9 DEF HonestInv, ByRbac, Concluded

LEMMA HonestDecision ==
    ASSUME IInv, NEW w \in Workers, HonestInv(w), DecideByRbac(w)
    PROVE  HonestInv(w)'
<1>0. ~answer[w].owner /\ WorkInv(w) /\ TypeOK
    BY RbacFacts DEF DecideByRbac
<1>1. UNCHANGED <<hist, req, began, perms, roles>> /\ pc[w] = "decide"
    BY DEF DecideByRbac
<1>2. Promised(w)' <=> Promised(w)
    BY <1>1 DEF Promised
<1>3. PICK candidates \in Rows(RolesWithPermission(Now, req[w].perm)) :
         \/ /\ roles[w] = {}
            /\ Decide(w, "USER_HAS_NO_ROLE", {})
         \/ /\ roles[w] # {} /\ req[w].perm \in perms[w]
            /\ Decide(w, "OK", roles[w] \cap candidates)
         \/ /\ roles[w] # {} /\ req[w].perm \notin perms[w]
            /\ Decide(w, "PERMISSION_DENIED", {})
    BY DEF DecideByRbac
<1>4. ~Failures => candidates = RolesWithPermission(Now, req[w].perm)
    BY DEF Rows
<1>5. /\ pc'[w] = "log" /\ ~answer'[w].owner
      /\ answer'[w].code = "OK" =>
            req[w].perm \in perms[w] /\ answer'[w].matched = roles[w] \cap candidates
      /\ answer'[w].code # "OK" => roles[w] = {} \/ req[w].perm \notin perms[w]
    BY <1>0, <1>3 DEF DecideByRbac, Decide, Goto, TypeOK
<1> QED BY <1>1, <1>2, <1>4, <1>5 DEF HonestInv

LEMMA HonestStep ==
    ASSUME IInv, ServiceInv, Adding', [Next]_vars, NEW w \in Workers
    PROVE  HonestInv(w)'
<1>0. TypeOK /\ WorkInv(w) /\ Adding /\ HonestInv(w) /\ Grows
    BY HistoryStep DEF IInv, ServiceInv
<1>1. Still(w) => HonestInv(w)'
    BY <1>0, HonestStill
<1>2. CASE \/ Receive(w) \/ ReceiveIncomplete(w) \/ ReadApp(w) \/ CheckPermission(w)
           \/ ReadPermission(w) \/ ReadRolesOfMissing(w) \/ ReadResource(w) \/ Respond(w)
    <2>1. Early(w)' /\ (pc'[w] = "owner" => ReadShortcut(w))
        BY <1>2, EarlyStays
    <2>2. pc'[w] # "owner"
        <3>1. ReadShortcut(w) => pc[w] = "shortcut"
            BY DEF ReadShortcut
        <3>2. pc[w] # "shortcut"
            BY <1>2 DEF Receive, ReceiveIncomplete, ReadApp, CheckPermission,
                ReadPermission, ReadRolesOfMissing, ReadResource, Respond
        <3> QED BY <2>1, <3>1, <3>2
    <2> QED BY <2>1, <2>2 DEF HonestInv, Early, ByRbac
<1>3. CASE ReadShortcut(w) \/ ReadOwner(w) \/ ReadOwnerRoles(w)
    BY <1>0, <1>3, HonestOwner
<1>4. CASE GetCached(w) \/ LoadPermissions(w) \/ PutCached(w)
    <2>1. pc'[w] \in {"roles", "load", "put"} /\ answer' = answer
        BY <1>0, <1>4 DEF GetCached, LoadPermissions, PutCached, Goto, TypeOK
    <2>2. ~answer[w].owner
        BY <1>4, RbacFacts DEF GetCached, LoadPermissions, PutCached
    <2> QED BY <2>1, <2>2 DEF HonestInv, ByRbac, Concluded
<1>5. CASE ReadRoles(w)
    BY <1>0, <1>5, HonestRoles
<1>6. CASE DecideByRbac(w)
    BY <1>0, <1>6, HonestDecision
<1>7. CASE InsertDecisionLog(w)
    <2>1. /\ pc[w] = "log" /\ pc'[w] = "done"
          /\ UNCHANGED <<hist, req, began, perms, roles, source, answer>>
        BY <1>0, <1>7 DEF InsertDecisionLog, Goto, TypeOK
    <2>2. ByRbac(w)' => ByRbac(w)
        BY <2>1 DEF ByRbac, Concluded
    <2>3. Promised(w)' <=> Promised(w)
        BY <2>1 DEF Promised
    <2> QED BY <1>0, <2>1, <2>2, <2>3 DEF HonestInv
<1>8. ASSUME NEW x \in Workers \ {w}, WorkerStep(x) PROVE Still(w)
    BY <1>0, <1>8, OthersStill
<1>9. CASE UNCHANGED vars \/ Administer \/ \E k \in DOMAIN cache : DropCached(k)
    BY <1>1, <1>9 DEF vars, workVars, Administer, DropCached, Still
<1> QED BY <1>1, <1>2, <1>3, <1>4, <1>5, <1>6, <1>7, <1>8, <1>9
           DEF Next, WorkerStep, Proceed

\* ServiceInv holds of every reachable state if only the AdminService writes.
THEOREM ServiceInvariance ==
    ASSUME Edits \subseteq ApiEdits
    PROVE  Spec => []ServiceInv
<1>1. Init => ServiceInv
    <2> SUFFICES ASSUME Init PROVE ServiceInv
        OBVIOUS
    <2>1. Len(hist) = 1
        BY DEF Init
    <2>2. Adding
        BY <2>1, OnlyAddsRefl DEF Adding
    <2>3. ASSUME NEW w \in Workers PROVE HonestInv(w)
        BY DEF Init, HonestInv, ByRbac, Concluded
    <2> QED BY <2>2, <2>3 DEF ServiceInv
<1>2. IInv /\ ServiceInv /\ [Next]_vars => ServiceInv'
    <2> SUFFICES ASSUME IInv, ServiceInv, [Next]_vars PROVE ServiceInv'
        OBVIOUS
    <2>1. Adding'
        BY AddingStep DEF IInv, ServiceInv
    <2> QED BY <2>1, HonestStep DEF ServiceInv
<1> QED BY <1>1, <1>2, Invariance, PTL DEF Spec

\* While only the AdminService writes, an owner permit is right in one state of
\* the request's lifetime, whether or not queries fail.
THEOREM OwnersHonest ==
    ASSUME Edits \subseteq ApiEdits
    PROVE  Spec => []OwnerAllowJustified
<1>1. ServiceInv => OwnerAllowJustified
    BY DEF ServiceInv, HonestInv, OwnerAllowJustified
<1> QED BY ServiceInvariance, <1>1, PTL

\* While only the AdminService writes and no query fails, every RBAC permit
\* names a role, although its three lists were read at three times.
THEOREM PermitsExplainedByRoles ==
    ASSUME Edits \subseteq ApiEdits, ~Failures
    PROVE  Spec => []MatchedRolesNonEmpty
<1>1. ServiceInv => MatchedRolesNonEmpty
    BY DEF ServiceInv, HonestInv, MatchedRolesNonEmpty
<1> QED BY ServiceInvariance, <1>1, PTL

\* Under the same two conditions what a published version grants is denied to
\* no request that arrives later, whatever the cache still holds.
THEOREM PublicationsHonoured ==
    ASSUME Edits \subseteq ApiEdits, ~Failures
    PROVE  Spec => []PublishedGrantsHonoured
<1>1. ServiceInv => PublishedGrantsHonoured
    BY DEF ServiceInv, HonestInv, Promised, PublishedGrantsHonoured
<1> QED BY ServiceInvariance, <1>1, PTL
=============================================================================
