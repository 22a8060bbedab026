---------------------------- MODULE AdminManager ----------------------------
(***************************************************************************)
(* AdminManager on any number of handler threads: the login of an          *)
(* administrator, the session cache that every other call asks, and the    *)
(* five calls that edit the policy, statement by statement, over the       *)
(* tables of PolicyStore.                                                  *)
(*                                                                         *)
(* An editing call looks for the rows it needs and for the row it is about *)
(* to create, each on a connection of its own, and then writes on another: *)
(* anything may be committed in between.  A query that fails answers "no   *)
(* such row"; a statement that fails may have been committed all the same. *)
(* Console users are only ever changed with SQL.                           *)
(***************************************************************************)
EXTENDS PolicyStore

CONSTANTS
    Handlers,     \* the handler threads of AdminService
    Admins,       \* the rows of ny_console_users
    Tokens,       \* what generateToken can return
    NoToken,      \* an empty token, or one that was never issued
    Nobody, NoCall,
    Requests,     \* bound on the edits asked for
    Ttl,          \* --admin_session_ttl, in ticks of the clock
    MaxTime       \* bound on the clock

ASSUME MarkersAssumption == NoToken \notin Tokens /\ Nobody \notin Admins
ASSUME TimeAssumption == Ttl \in Nat /\ MaxTime \in Nat

VARIABLES
    standing,     \* status and is_super_admin of a console user
    lostAt,       \* when a console user lost his right to edit
    clock,
    sessions,     \* the session cache: token -> session
    issued,       \* the tokens generated so far
    audits        \* ny_audit_logs

VARIABLES
    pc, call,
    op,           \* what the call has been given and has read so far
    began,        \* Len(hist) when the call arrived
    commit,       \* index in hist of the state the call wrote, or found
    lost,         \* whether a statement of the call has failed
    code          \* error_code of the answer

consoleVars == <<standing, lostAt>>
sessionVars == <<sessions, issued>>
workVars == <<pc, call, op, began, commit, lost, code>>
vars == <<hist, consoleVars, clock, sessionVars, audits, workVars>>

-----------------------------------------------------------------------------
(* The calls.  A row is named by its table and its key.                    *)

RoleRow(r) == <<"role", r>>
PermissionRow(p) == <<"permission", p>>

\* kind: the change in PolicyStore; needs: the rows asked for first, in order;
\* present: the answer when the row to be created is there already.
RoleCreation(r) ==
    [kind |-> "create_role", row |-> RoleRow(r), needs |-> <<>>,
     present |-> "ALREADY_EXISTS"]
PermissionCreation(p) ==
    [kind |-> "create_permission", row |-> PermissionRow(p), needs |-> <<>>,
     present |-> "ALREADY_EXISTS"]
PermissionBinding(r, p) ==
    [kind |-> "bind", row |-> <<"binding", r, p>>,
     needs |-> <<RoleRow(r), PermissionRow(p)>>, present |-> "CONFLICT"]
RoleGrant(u, r) ==
    [kind |-> "grant", row |-> <<"grant", u, r>>, needs |-> <<RoleRow(r)>>,
     present |-> "CONFLICT"]
OwnerSetting(x, u) ==
    [kind |-> "own", row |-> <<"owner", x, u>>, needs |-> <<>>, present |-> "NONE"]

EditCalls ==
    {RoleCreation(r) : r \in Roles} \cup {PermissionCreation(p) : p \in Perms}
    \cup {PermissionBinding(r, p) : r \in Roles, p \in Perms}
    \cup {RoleGrant(u, r) : u \in Users, r \in Roles}
    \cup {OwnerSetting(x, u) : x \in Resources, u \in Users}

\* SimulateCheck, ListAuditLogs and PublishPolicy, up to their authorisation.
OtherCall == [kind |-> "other"]
LoginCalls == [kind : {"login"}, admin : Admins]
Calls == Requests \cup LoginCalls \cup {OtherCall}

ASSUME RequestsAssumption == Requests \subseteq EditCalls /\ NoCall \notin Calls

Codes == {"NONE", "OK", "UNAUTHORIZED", "FORBIDDEN", "INVALID_ARGUMENT", "NOT_FOUND",
          "ALREADY_EXISTS", "CONFLICT", "INTERNAL_ERROR"}

\* Whether the row is in its table, enabled or not.
Registered(d, row) ==
    CASE row[1] = "role" -> RoleRegistered(d, row[2])
      [] row[1] = "permission" -> PermissionRegistered(d, row[2])
      [] row[1] = "binding" -> BindingRegistered(d, row[2], row[3])
      [] row[1] = "grant" -> GrantRegistered(d, row[2], row[3])
      [] row[1] = "owner" -> ResourceRegistered(d, row[2])

\* The row is as the call asked for it.
InPlace(d, row) ==
    /\ Registered(d, row)
    /\ row[1] = "owner" => d.resource[row[2]] = "on" /\ d.owner[row[2]] = row[3]

\* Variant: UPDATE ny_resources leaves the status alone.
OwnerUpdated_KeepsStatus(d, x, u) == [d EXCEPT !.owner[x] = u]

\* upsertResourceOwner: UPDATE sets the status to 1 with the owner.
OwnerUpdated(d, x, u) == [d EXCEPT !.resource[x] = "on", !.owner[x] = u]

\* The tables after the INSERT of the row; the owner shortcut of a new
\* permission is a field of the request.
Inserted(d, row) ==
    CASE row[1] = "role" -> {[d EXCEPT !.role[row[2]] = "on"]}
      [] row[1] = "permission" ->
            {[d EXCEPT !.perm[row[2]] = "on", !.shortcut = (@ \ {row[2]}) \cup flag] :
                flag \in SUBSET {row[2]}}
      [] row[1] = "binding" -> {[d EXCEPT !.binds = @ \cup {<<row[2], row[3]>>}]}
      [] row[1] = "grant" -> {[d EXCEPT !.grants = @ \cup {<<row[2], row[3]>>}]}
      [] row[1] = "owner" -> {OwnerUpdated(d, row[2], row[3])}

-----------------------------------------------------------------------------
(* Sessions: what the login has read, and until when the cache keeps it.   *)

Standings == {"super", "plain", "disabled"}

Session ==
    [admin : Admins, super : BOOLEAN,
     seen : Nat,     \* when the console user was read
     made : Nat]     \* when the session was put into the cache

Op ==
    [token : Tokens \cup {NoToken},
     who : Session \cup Admins \cup {Nobody},   \* the console user, once known
     checked : Nat,       \* how many existence checks were passed
     found : BOOLEAN]     \* whether upsertResourceOwner found the resource
Nothing == [token |-> NoToken, who |-> Nobody, checked |-> 0, found |-> FALSE]

Places == {"idle", "login", "put", "auth", "check", "find", "write", "id", "audit", "done"}
\* Places of a call that has been authorised.
Acting == {"check", "find", "write", "id", "audit"}

TypeOK ==
    /\ HistoryOK
    /\ standing \in [Admins -> Standings] /\ lostAt \in [Admins -> Nat] /\ clock \in Nat
    /\ DOMAIN sessions \subseteq issued /\ issued \subseteq Tokens
    /\ \A t \in DOMAIN sessions : sessions[t] \in Session
    /\ audits \subseteq [by : Admins, row : {c.row : c \in Requests}, at : Nat]
    /\ pc \in [Handlers -> Places]
    /\ call \in [Handlers -> Calls \cup {NoCall}]
    /\ op \in [Handlers -> Op]
    /\ \A h \in Handlers : pc[h] \in Acting => call[h] \in Requests /\ op[h].who \in Admins
    /\ began \in [Handlers -> Nat] /\ commit \in [Handlers -> Nat]
    /\ lost \in [Handlers -> BOOLEAN]
    /\ code \in [Handlers -> Codes]

Init ==
    /\ hist = <<FirstState>>
    /\ standing = [a \in Admins |-> "super"] /\ lostAt = [a \in Admins |-> 0]
    /\ clock = 0
    /\ sessions = [t \in {} |-> {}] /\ issued = {} /\ audits = {}
    /\ pc = [h \in Handlers |-> "idle"] /\ call = [h \in Handlers |-> NoCall]
    /\ op = [h \in Handlers |-> Nothing]
    /\ began = [h \in Handlers |-> 0] /\ commit = [h \in Handlers |-> 0]
    /\ lost = [h \in Handlers |-> FALSE] /\ code = [h \in Handlers |-> "NONE"]

Goto(h, place) == pc' = [pc EXCEPT ![h] = place] /\ UNCHANGED code
Learn(h, o) == op' = [op EXCEPT ![h] = o]
Answer(h, c) ==
    /\ pc' = [pc EXCEPT ![h] = "done"] /\ code' = [code EXCEPT ![h] = c]
    /\ Learn(h, Nothing)
\* The answer of a call that is refused or has lost a statement: only its code
\* matters from here on.
Turn(h, c) ==
    /\ Answer(h, c)
    /\ call' = [call EXCEPT ![h] = NoCall] /\ began' = [began EXCEPT ![h] = 0]
Lose(h) == lost' = [lost EXCEPT ![h] = TRUE]

\* The DAO reports a failure: the statement did nothing, or its answer is lost.
Failed(h) == Turn(h, "INTERNAL_ERROR") /\ Lose(h)

-----------------------------------------------------------------------------
(* Login.                                                                  *)

\* A call arrives.  One without a good token is refused whatever it asks for,
\* so it stands for all of them.
Arrive(h) ==
    /\ pc[h] = "idle"
    /\ \E c \in Calls, t \in issued \cup {NoToken} :
          /\ IF t = NoToken THEN c \notin Requests ELSE c \notin LoginCalls
          /\ call' = [call EXCEPT ![h] = c]
          /\ Learn(h, [Nothing EXCEPT !.token = t])
          /\ Goto(h, IF c.kind = "login" THEN "login" ELSE "auth")
    /\ began' = [began EXCEPT ![h] = Len(hist)]
    /\ UNCHANGED <<hist, consoleVars, clock, sessionVars, audits, commit, lost>>

\* The arguments, getConsoleUserByUsername, the status and VerifyPassword.  An
\* unknown name, a wrong password and a query that fails are refused alike.
ReadConsoleUser(h) ==
    /\ pc[h] = "login"
    /\ LET a == call[h].admin IN
       \/ Turn(h, "INVALID_ARGUMENT")
       \/ Turn(h, "UNAUTHORIZED")
       \/ standing[a] = "disabled" /\ Turn(h, "FORBIDDEN")
       \/ /\ standing[a] # "disabled"
          /\ Learn(h, [op[h] EXCEPT !.who =
                [admin |-> a, super |-> standing[a] = "super", seen |-> clock, made |-> clock]])
          /\ Goto(h, "put") /\ UNCHANGED <<call, began>>
    /\ UNCHANGED <<hist, consoleVars, clock, sessionVars, audits, commit, lost>>

\* generateToken, buildSession and Put: a token nobody has seen before.
PutSession(h) ==
    /\ pc[h] = "put"
    /\ \E t \in Tokens \ issued :
          /\ issued' = issued \cup {t}
          /\ sessions' = [s \in DOMAIN sessions \cup {t} |->
                IF s = t THEN [op[h].who EXCEPT !.made = clock] ELSE sessions[s]]
    /\ Turn(h, "OK")
    /\ UNCHANGED <<hist, consoleVars, clock, audits, commit, lost>>

\* The cache drops a session, for its age or for want of room.
DropSession(t) ==
    /\ t \in DOMAIN sessions
    /\ sessions' = [s \in DOMAIN sessions \ {t} |-> sessions[s]]
    /\ UNCHANGED <<hist, consoleVars, clock, issued, audits, workVars>>

-----------------------------------------------------------------------------
(* authenticateOperator, authorizeOperator and the check of the arguments. *)

\* Variant: an entry of the cache is good for as long as it is there.
Known_Cached(t) == t \in DOMAIN sessions

\* Get of the session cache.
Known(t) == t \in DOMAIN sessions /\ clock <= sessions[t].made + Ttl

FirstPlace(c) == IF c.kind = "own" THEN "find" ELSE "check"

Accept(h, a) ==
    /\ Learn(h, [Nothing EXCEPT !.who = a])
    /\ Goto(h, FirstPlace(call[h])) /\ UNCHANGED <<call, began>>

\* Variant: the result of authenticateOperator is not looked at.
Authenticate_Anyone(h) ==
    /\ pc[h] = "auth"
    /\ IF call[h] = OtherCall THEN Turn(h, "OK")
       ELSE Accept(h, IF Known(op[h].token) THEN sessions[op[h].token].admin ELSE Nobody)
    /\ UNCHANGED <<hist, consoleVars, clock, sessionVars, audits, commit, lost>>

Authenticate(h) ==
    /\ pc[h] = "auth"
    /\ IF ~Known(op[h].token) THEN Turn(h, "UNAUTHORIZED")
       ELSE LET s == sessions[op[h].token] IN
            \/ ~s.super /\ Turn(h, "FORBIDDEN")
            \/ s.super /\ call[h] = OtherCall /\ Turn(h, "OK")
            \/ s.super /\ call[h] # OtherCall /\ (Accept(h, s.admin) \/ Turn(h, "INVALID_ARGUMENT"))
    /\ UNCHANGED <<hist, consoleVars, clock, sessionVars, audits, commit, lost>>

-----------------------------------------------------------------------------
(* The editing calls.                                                      *)

\* The next row the call needs: roleExists, permissionExists.  A query that
\* fails answers "no".
CheckNeeded(h) ==
    /\ pc[h] = "check" /\ op[h].checked < Len(call[h].needs)
    /\ \/ /\ Registered(Now, call[h].needs[op[h].checked + 1])
          /\ Goto(h, "check") /\ Learn(h, [op[h] EXCEPT !.checked = @ + 1])
          /\ UNCHANGED <<call, began>>
       \/ Turn(h, "NOT_FOUND")
    /\ UNCHANGED <<hist, consoleVars, clock, sessionVars, audits, commit, lost>>

\* Variant: the check for the row itself is left to the unique key.
CheckAbsent_LeftToKey(h) ==
    /\ pc[h] = "check" /\ op[h].checked = Len(call[h].needs)
    /\ Goto(h, "write")
    /\ UNCHANGED <<hist, consoleVars, clock, sessionVars, audits, call, op, began, commit, lost>>

\* The row the call is about to create; a query that fails finds none.
CheckAbsent(h) ==
    /\ pc[h] = "check" /\ op[h].checked = Len(call[h].needs)
    /\ \/ /\ Registered(Now, call[h].row)
          /\ Turn(h, call[h].present) /\ UNCHANGED lost
       \/ /\ Goto(h, "write") /\ UNCHANGED <<call, began, op>>
          /\ IF Registered(Now, call[h].row) THEN Lose(h) ELSE UNCHANGED lost
    /\ UNCHANGED <<hist, consoleVars, clock, sessionVars, audits, commit>>

\* upsertResourceOwner looks for the resource; a failure ends the call.
FindResource(h) ==
    /\ pc[h] = "find"
    /\ \/ /\ Learn(h, [op[h] EXCEPT !.found = Registered(Now, call[h].row)])
          /\ Goto(h, "write") /\ UNCHANGED <<call, began, lost>>
       \/ Failed(h)
    /\ UNCHANGED <<hist, consoleVars, clock, sessionVars, audits, commit>>

\* After a statement that left the tables as they are in hist[at].
Acknowledged(h, at) ==
    \/ /\ Goto(h, IF call[h].kind \in {"create_role", "create_permission"}
                  THEN "id" ELSE "audit")
       /\ commit' = [commit EXCEPT ![h] = at]
       /\ UNCHANGED <<call, op, began, lost>>
    \/ Failed(h) /\ UNCHANGED commit

\* A statement that the database refuses, or that finds nothing to change.
Ineffective(h) ==
    Answer(h, "INTERNAL_ERROR") /\ UNCHANGED <<hist, call, began, commit, lost>>

\* What the DAO looks up once more, on the connection of the INSERT, is there, and the
\* unique key of the table does not have the row yet.  Nothing that is looked up is
\* ever deleted, so look-ups and INSERT are one step.
CanInsert(d, c) ==
    /\ d.app # "absent"
    /\ \A i \in DOMAIN c.needs : Registered(d, c.needs[i])
    /\ ~Registered(d, c.row)

\* Variant: INSERT IGNORE, or its like: a duplicate is taken for done.
InsertRow_Ignore(h) ==
    /\ pc[h] = "write" /\ ~op[h].found
    /\ \/ /\ CanInsert(Now, call[h])
          /\ \E d \in Inserted(Now, call[h].row) : Write(call[h].kind, d)
          /\ Acknowledged(h, Len(hist'))
       \/ ~CanInsert(Now, call[h]) /\ UNCHANGED hist /\ Acknowledged(h, Len(hist))
       \/ Failed(h) /\ UNCHANGED <<hist, commit>>
    /\ UNCHANGED <<consoleVars, clock, sessionVars, audits>>

\* Variant: what the DAO returns is not looked at.
InsertRow_Unchecked(h) ==
    /\ pc[h] = "write" /\ ~op[h].found
    /\ \/ /\ CanInsert(Now, call[h])
          /\ \E d \in Inserted(Now, call[h].row) : Write(call[h].kind, d)
       \/ UNCHANGED hist
    /\ Acknowledged(h, Len(hist'))
    /\ UNCHANGED <<consoleVars, clock, sessionVars, audits>>

\* The INSERT of createRole .. upsertResourceOwner; the unique keys refuse a
\* second row.
InsertRow(h) ==
    /\ pc[h] = "write" /\ ~op[h].found
    /\ \/ /\ CanInsert(Now, call[h])
          /\ \E d \in Inserted(Now, call[h].row) : Write(call[h].kind, d)
          /\ Acknowledged(h, Len(hist'))
       \/ ~CanInsert(Now, call[h]) /\ Ineffective(h)
       \/ Failed(h) /\ UNCHANGED <<hist, commit>>
    /\ UNCHANGED <<consoleVars, clock, sessionVars, audits>>

\* The UPDATE of upsertResourceOwner.  A row that does not change counts as not
\* affected, and as a failure, unless its name or metadata did change.
UpdateOwner(h) ==
    /\ pc[h] = "write" /\ op[h].found
    /\ LET d == OwnerUpdated(Now, call[h].row[2], call[h].row[3]) IN
       \/ d # Now /\ Write("own", d) /\ Acknowledged(h, Len(hist'))
       \/ d = Now /\ UNCHANGED hist /\ Acknowledged(h, Len(hist))
       \/ d = Now /\ Ineffective(h)
       \/ Failed(h) /\ UNCHANGED <<hist, commit>>
    /\ UNCHANGED <<consoleVars, clock, sessionVars, audits>>

\* createRole and createPermission read the id of the row they inserted; when
\* they cannot, they report a failure.
ReadId(h) ==
    /\ pc[h] = "id"
    /\ (Goto(h, "audit") /\ UNCHANGED <<call, op, began, lost>>) \/ Failed(h)
    /\ UNCHANGED <<hist, consoleVars, clock, sessionVars, audits, commit>>

\* writeAuditLog, best effort, and the answer.
WriteAuditLog(h) ==
    /\ pc[h] = "audit"
    /\ \/ audits' = audits \cup
             {[by |-> op[h].who, row |-> call[h].row, at |-> commit[h]]}
       \/ UNCHANGED audits
    /\ Answer(h, "OK")
    /\ UNCHANGED <<hist, consoleVars, clock, sessionVars, call, began, commit, lost>>

Forget(S) ==
    LET Reset(f, x) == [h \in Handlers |-> IF h \in S THEN x ELSE f[h]] IN
    /\ pc' = Reset(pc, "idle") /\ call' = Reset(call, NoCall)
    /\ op' = Reset(op, Nothing) /\ began' = Reset(began, 0)
    /\ commit' = Reset(commit, 0) /\ lost' = Reset(lost, FALSE)
    /\ code' = Reset(code, "NONE")

Respond(h) ==
    /\ pc[h] = "done"
    /\ Forget({h})
    /\ UNCHANGED <<hist, consoleVars, clock, sessionVars, audits>>

-----------------------------------------------------------------------------
(* Everything else.                                                        *)

Tick ==
    /\ clock < MaxTime
    /\ clock' = clock + 1
    /\ UNCHANGED <<hist, consoleVars, sessionVars, audits, workVars>>

\* An operator changes a console user with SQL.
ChangeConsoleUser(a) ==
    /\ \E s \in Standings \ {standing[a]} : standing' = [standing EXCEPT ![a] = s]
    /\ lostAt' = [lostAt EXCEPT ![a] =
          IF standing[a] = "super" THEN clock ELSE IF standing'[a] = "super" THEN 0 ELSE @]
    /\ UNCHANGED <<hist, clock, sessionVars, audits, workVars>>

\* The process ends and starts again: sessions and calls are gone, the tables
\* and what was committed stay.
Restart ==
    /\ sessions' = [t \in {} |-> {}]
    /\ Forget(Handlers)
    /\ UNCHANGED <<hist, consoleVars, clock, issued, audits>>

\* Other connections: SQL, and the publication of PublishPolicy.
Administer ==
    /\ SqlChange
    /\ UNCHANGED <<consoleVars, clock, sessionVars, audits, workVars>>

Serve(h) ==
    \/ Arrive(h) \/ ReadConsoleUser(h) \/ PutSession(h) \/ Authenticate(h)
    \/ CheckNeeded(h) \/ CheckAbsent(h) \/ FindResource(h)
    \/ InsertRow(h) \/ UpdateOwner(h) \/ ReadId(h) \/ WriteAuditLog(h) \/ Respond(h)

Next ==
    \/ \E h \in Handlers : Serve(h)
    \/ \E t \in Tokens : DropSession(t)
    \/ \E a \in Admins : ChangeConsoleUser(a)
    \/ Tick \/ Restart \/ Administer

Spec == Init /\ [][Next]_vars

-----------------------------------------------------------------------------
(* Properties.                                                             *)

\* The row was not there in state c - 1 and is there in state c.
CreatedAt(row, c) == c > 1 /\ ~Registered(hist[c - 1], row) /\ Registered(hist[c], row)

\* A super administrator who is disabled or demoted is locked out: the flag in
\* his session is a copy, so he edits on, but not for longer than the TTL of
\* a session, counted from the change and extended only by the time a login
\* took that was under way when it happened.
LockedOutByTtl ==
    [][\A h \in Handlers : pc[h] = "auth" /\ pc'[h] \in Acting =>
          LET s == sessions[op[h].token] IN
          \/ standing[s.admin] = "super"
          \/ clock <= lostAt[s.admin] + Ttl + (s.made - s.seen)]_vars

\* The call is answered OK.
Acked(h) == pc[h] = "done" /\ code[h] = "OK" /\ call[h] \in Requests

\* A call that answers OK has made the change itself, while it ran: the tables
\* then held what it asked for, and of two that create the same row at once
\* only one is answered OK.  (An owner set to what he is changes nothing.)
AcknowledgedEditDone ==
    \A h \in Handlers : Acked(h) =>
        /\ commit[h] \in began[h] .. Len(hist)
        /\ InPlace(hist[commit[h]], call[h].row)
        /\ call[h].kind # "own" =>
              /\ CreatedAt(call[h].row, commit[h])
              /\ \A g \in Handlers \ {h} :
                    Acked(g) /\ call[g].kind # "own" => commit[g] # commit[h]

\* The audit log tells of no edit that did not happen, whatever fails: a row
\* names a state that holds what it says, new in that state if it was created.
AuditedEditsHappened ==
    \A a \in audits :
        /\ a.at \in 1 .. Len(hist) /\ InPlace(hist[a.at], a.row)
        /\ a.row[1] # "owner" => CreatedAt(a.row, a.at)

\* When no statement of it failed, a call is answered with an internal error
\* only because another one created the same row at the same time, because the
\* resource had the requested owner already, or for want of the application.
InternalErrorExplained ==
    \A h \in Handlers :
        pc[h] = "done" /\ code[h] = "INTERNAL_ERROR" /\ ~lost[h] =>
            \/ Now.app = "absent"
            \/ \E c \in began[h] + 1 .. Len(hist) : CreatedAt(call[h].row, c)
            \/ /\ call[h].kind = "own"
               /\ \E c \in began[h] .. Len(hist) : InPlace(hist[c], call[h].row)

\* Put together, the statements of a call change the tables in one of the ways
\* of PolicyStore and in no other: the model of the decision engine, in which
\* each call is one step, sees every edit.
EditsAreStoreChanges == [][hist' # hist => Change]_hist
=============================================================================
