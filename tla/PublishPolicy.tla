--------------------------- MODULE PublishPolicy ---------------------------
(***************************************************************************)
(* AdminManager::PublishPolicy and the MySQL transaction it runs,          *)
(* SnapshotBuilder::PublishPolicyTransaction, for one application.         *)
(*                                                                         *)
(* Any number of PublishPolicy calls run at once, each on a handler thread *)
(* and a connection of its own, while administrators go on editing the     *)
(* five policy tables the snapshot is made of.  A statement of a call is   *)
(* one step.  What a transaction has written stays in the variables of the *)
(* call until Commit, which is when other connections see it (InnoDB,      *)
(* REPEATABLE READ); SELECT ... FOR UPDATE is the lock on the application  *)
(* row, and the first plain SELECT of the transaction fixes its read view. *)
(*                                                                         *)
(* The content of a table is abstract: only whether two reads saw the same *)
(* committed content matters here.                                         *)
(***************************************************************************)
EXTENDS Naturals, Sequences, FiniteSets

CONSTANTS
    Calls,        \* the PublishPolicy calls made on the application
    NoCall,       \* "nobody", for the lock
    Content,      \* what one policy table can hold
    Unread,       \* a table the transaction has not read yet
    FirstPolicy,  \* content of the policy tables at the start
    FirstRow,     \* current_version at the start, 0 when the app has no row
    MaxEdits      \* bound on the number of edits of the policy tables

\* The tables a snapshot is made of, in the order the transaction reads them.
SectionOrder ==
    <<"roles", "permissions", "role_permissions", "user_roles", "resources">>
Sections == {"roles", "permissions", "role_permissions", "user_roles", "resources"}

Policy == [Sections -> Content]

ASSUME CallsAssumption == NoCall \notin Calls
ASSUME ContentAssumption == Unread \notin Content /\ FirstPolicy \in Policy
ASSUME BoundsAssumption == FirstRow \in Nat /\ MaxEdits \in Nat

VARIABLES
    hist,     \* committed states of the policy tables, the last is current
    app,      \* status of the ny_apps row: "enabled", "disabled", "absent"
    row,      \* ny_policy_versions.current_version, 0 when there is no row
    snaps,    \* ny_policy_snapshots: policy version -> row
    logs,     \* ny_snapshot_publish_logs
    audits,   \* ny_audit_logs
    lock,     \* the call whose transaction locks the ny_apps row, or NoCall
    pc,       \* where each call is
    old,      \* old_version of the call
    new,      \* new_version of the call, 0 before it is computed
    view,     \* index in hist of the transaction's read view, 0 before it
    image     \* the snapshot the call is building

dbVars == <<hist, app, row, snaps, logs, audits, lock>>
callVars == <<pc, old, new, view, image>>
vars == <<dbVars, callVars>>

\* Places of a call that has an open transaction, or is asking for one.
TxPlaces == {"upsert", "read", "insert", "log", "commit"}
Finished == {"ok", "failed", "crashed"}
Places == {"idle", "lock"} \cup TxPlaces
          \cup {"failedlog", "audit", "failedaudit"} \cup Finished

SnapshotRow == [image : Policy, at : Nat, by : Calls]
LogRow == [call : Calls, result : {"SUCCESS", "FAILED"}, version : Nat]
AuditRow == [call : Calls, action : {"PUBLISH_POLICY", "PUBLISH_POLICY_FAILED"},
             before : Nat, after : Nat]

\* COALESCE(pv.current_version, 1)
CurrentVersion == IF row = 0 THEN 1 ELSE row

\* The version of the application when the model starts.
FirstVersion == IF FirstRow = 0 THEN 1 ELSE FirstRow

TypeOK ==
    /\ hist \in Seq(Policy) /\ Len(hist) > 0
    /\ app \in {"enabled", "disabled", "absent"}
    /\ row \in Nat
    /\ DOMAIN snaps \subseteq Nat
    /\ \A v \in DOMAIN snaps : snaps[v] \in SnapshotRow
    /\ logs \subseteq LogRow
    /\ audits \subseteq AuditRow
    /\ lock \in Calls \cup {NoCall}
    /\ pc \in [Calls -> Places]
    /\ old \in [Calls -> Nat]
    /\ new \in [Calls -> Nat]
    /\ view \in [Calls -> Nat]
    /\ image \in [Calls -> [Sections -> Content \cup {Unread}]]

Init ==
    /\ hist = <<FirstPolicy>>
    /\ app \in {"enabled", "disabled", "absent"}
    /\ row = FirstRow
    /\ snaps = [v \in {} |-> {}]
    /\ logs = {} /\ audits = {}
    /\ lock = NoCall
    /\ pc = [c \in Calls |-> "idle"]
    /\ old = [c \in Calls |-> 0]
    /\ new = [c \in Calls |-> 0]
    /\ view = [c \in Calls |-> 0]
    /\ image = [c \in Calls |-> [s \in Sections |-> Unread]]

-----------------------------------------------------------------------------
(* Everybody else.                                                         *)

\* A management call commits a change of one policy table.  None of these
\* statements takes the lock on the application row.
Edit ==
    /\ Len(hist) <= MaxEdits
    /\ \E s \in Sections, x \in Content :
          /\ x # hist[Len(hist)][s]
          /\ hist' = Append(hist, [hist[Len(hist)] EXCEPT ![s] = x])
    /\ UNCHANGED <<app, row, snaps, logs, audits, lock, callVars>>

\* An operator enables or disables the application with SQL: an UPDATE of the
\* row that the publishing transaction locks.
SwitchApp ==
    /\ lock = NoCall
    /\ \/ app = "enabled" /\ app' = "disabled"
       \/ app = "disabled" /\ app' = "enabled"
    /\ UNCHANGED <<hist, row, snaps, logs, audits, lock, callVars>>

-----------------------------------------------------------------------------
(* A PublishPolicy call of an authenticated super administrator.           *)

Goto(c, place) == pc' = [pc EXCEPT ![c] = place]

\* Variant: the connection that reads old_version opens the read view.
ReadOldVersion_OpensView(c) ==
    /\ pc[c] = "idle"
    /\ \E v \in {CurrentVersion, 1} : old' = [old EXCEPT ![c] = v]
    /\ Goto(c, "lock")
    /\ view' = [view EXCEPT ![c] = Len(hist)]
    /\ UNCHANGED <<dbVars, new, image>>

\* getCurrentPolicyVersion, on a connection of its own; 1 when it fails.
ReadOldVersion(c) ==
    /\ pc[c] = "idle"
    /\ \E v \in {CurrentVersion, 1} : old' = [old EXCEPT ![c] = v]
    /\ Goto(c, "lock")
    /\ UNCHANGED <<dbVars, new, view, image>>

\* Variant: SELECT without FOR UPDATE.
LockApp_NoForUpdate(c) ==
    /\ pc[c] = "lock"
    /\ app = "enabled"
    /\ lock' = c
    /\ new' = [new EXCEPT ![c] = CurrentVersion + 1]
    /\ Goto(c, "upsert")
    /\ UNCHANGED <<hist, app, row, snaps, logs, audits, old, view, image>>

\* SELECT ... FOR UPDATE of the application and its version.
LockApp(c) ==
    /\ pc[c] = "lock"
    /\ app = "enabled"
    /\ lock = NoCall
    /\ lock' = c
    /\ new' = [new EXCEPT ![c] = CurrentVersion + 1]
    /\ Goto(c, "upsert")
    /\ UNCHANGED <<hist, app, row, snaps, logs, audits, old, view, image>>

\* The same SELECT finds no application or a disabled one: the handler throws
\* and rolls back.
RefuseApp(c) ==
    /\ pc[c] = "lock"
    /\ app # "enabled"
    /\ lock = NoCall
    /\ Goto(c, "failedlog")
    /\ UNCHANGED <<dbVars, old, new, view, image>>

\* INSERT ... ON DUPLICATE KEY UPDATE of ny_policy_versions.
UpsertVersion(c) ==
    /\ pc[c] = "upsert"
    /\ Goto(c, "read")
    /\ UNCHANGED <<dbVars, old, new, view, image>>

\* The read view: fixed by the first plain SELECT of the transaction.
ReadView(c) == IF view[c] = 0 THEN Len(hist) ELSE view[c]

\* Variant: every section is read in the newest committed state.
ReadSection_NoReadView(c) ==
    /\ pc[c] = "read"
    /\ \E i \in 1 .. 5 :
          /\ image[c][SectionOrder[i]] = Unread
          /\ \A j \in 1 .. (i - 1) : image[c][SectionOrder[j]] # Unread
          /\ image' = [image EXCEPT ![c][SectionOrder[i]] =
                                        hist[Len(hist)][SectionOrder[i]]]
          /\ Goto(c, IF i = 5 THEN "insert" ELSE "read")
    /\ view' = [view EXCEPT ![c] = Len(hist)]
    /\ UNCHANGED <<dbVars, old, new>>

\* Variant: the owners of the resources are forgotten.
ReadSection_NoResources(c) ==
    /\ pc[c] = "read"
    /\ \E i \in 1 .. 4 :
          /\ image[c][SectionOrder[i]] = Unread
          /\ \A j \in 1 .. (i - 1) : image[c][SectionOrder[j]] # Unread
          /\ image' = [image EXCEPT ![c][SectionOrder[i]] =
                                        hist[ReadView(c)][SectionOrder[i]]]
          /\ Goto(c, IF i = 4 THEN "insert" ELSE "read")
    /\ view' = [view EXCEPT ![c] = ReadView(c)]
    /\ UNCHANGED <<dbVars, old, new>>

\* The SELECT of the first of the five policy tables not read yet.
ReadSection(c) ==
    /\ pc[c] = "read"
    /\ \E i \in 1 .. 5 :
          /\ image[c][SectionOrder[i]] = Unread
          /\ \A j \in 1 .. (i - 1) : image[c][SectionOrder[j]] # Unread
          /\ image' = [image EXCEPT ![c][SectionOrder[i]] =
                                        hist[ReadView(c)][SectionOrder[i]]]
          /\ Goto(c, IF i = 5 THEN "insert" ELSE "read")
    /\ view' = [view EXCEPT ![c] = ReadView(c)]
    /\ UNCHANGED <<dbVars, old, new>>

\* The snapshot row is inserted, its id read back and written into its JSON.
InsertSnapshot(c) ==
    /\ pc[c] = "insert"
    /\ Goto(c, "log")
    /\ UNCHANGED <<dbVars, old, new, view, image>>

\* Variant: the log row is written through SnapshotDAO's own connection.
InsertSuccessLog_OwnConnection(c) ==
    /\ pc[c] = "log"
    /\ logs' = logs \cup {[call |-> c, result |-> "SUCCESS", version |-> new[c]]}
    /\ Goto(c, "commit")
    /\ UNCHANGED <<hist, app, row, snaps, audits, lock, old, new, view, image>>

\* The SUCCESS row of the publish log, in the same transaction.
InsertSuccessLog(c) ==
    /\ pc[c] = "log"
    /\ Goto(c, "commit")
    /\ UNCHANGED <<dbVars, old, new, view, image>>

\* Variant: the version row is bumped by a later call of its own.
CommitTransaction_NoVersion(c) ==
    /\ snaps' = [v \in DOMAIN snaps \cup {new[c]} |->
                    IF v = new[c]
                    THEN [image |-> image[c], at |-> view[c], by |-> c]
                    ELSE snaps[v]]
    /\ logs' = logs \cup {[call |-> c, result |-> "SUCCESS", version |-> new[c]]}
    /\ lock' = NoCall
    /\ UNCHANGED <<hist, app, row, audits, old, new, view, image>>

\* What COMMIT makes visible, all at once: version, snapshot and log row.
CommitTransaction(c) ==
    /\ row' = new[c]
    /\ snaps' = [v \in DOMAIN snaps \cup {new[c]} |->
                    IF v = new[c]
                    THEN [image |-> image[c], at |-> view[c], by |-> c]
                    ELSE snaps[v]]
    /\ logs' = logs \cup {[call |-> c, result |-> "SUCCESS", version |-> new[c]]}
    /\ lock' = NoCall
    /\ UNCHANGED <<hist, app, audits, old, new, view, image>>

Commit(c) ==
    /\ pc[c] = "commit"
    /\ CommitTransaction(c)
    /\ Goto(c, "audit")

\* The server commits but the acknowledgement does not arrive: commit() throws
\* and the rollback of the handler finds nothing to undo.
CommitUnacknowledged(c) ==
    /\ pc[c] = "commit"
    /\ CommitTransaction(c)
    /\ Goto(c, "failedlog")

\* Variant: the handler forgets to roll back and the connection stays open.
FailTransaction_NoRollback(c) ==
    /\ pc[c] \in TxPlaces \cup {"lock"}
    /\ Goto(c, "failedlog")
    /\ UNCHANGED <<dbVars, old, new, view, image>>

\* A statement throws (no connection, lock wait timeout, lost connection,
\* failed commit): the handler rolls the transaction back.
FailTransaction(c) ==
    /\ pc[c] \in TxPlaces \cup {"lock"}
    /\ lock' = IF lock = c THEN NoCall ELSE lock
    /\ Goto(c, "failedlog")
    /\ UNCHANGED <<hist, app, row, snaps, logs, audits, old, new, view, image>>

\* The FAILED row of the publish log, on another connection, best effort.
WriteFailedLog(c) ==
    /\ pc[c] = "failedlog"
    /\ \/ logs' = logs \cup {[call |-> c, result |-> "FAILED", version |-> new[c]]}
       \/ UNCHANGED logs
    /\ Goto(c, "failedaudit")
    /\ UNCHANGED <<hist, app, row, snaps, audits, lock, old, new, view, image>>

\* One row of the audit log, best effort, and the answer to the caller.
WriteAudit(c, action, after) ==
    /\ \/ audits' = audits \cup {[call |-> c, action |-> action,
                                  before |-> old[c], after |-> after]}
       \/ UNCHANGED audits
    /\ UNCHANGED <<hist, app, row, snaps, logs, lock, old, new, view, image>>

\* Variant: old_version is read when the audit row is written.
AnswerOk_ReadsOldLate(c) ==
    /\ pc[c] = "audit"
    /\ audits' = audits \cup {[call |-> c, action |-> "PUBLISH_POLICY",
                               before |-> CurrentVersion, after |-> new[c]]}
    /\ Goto(c, "ok")
    /\ UNCHANGED <<hist, app, row, snaps, logs, lock, old, new, view, image>>

AnswerOk(c) ==
    /\ pc[c] = "audit"
    /\ WriteAudit(c, "PUBLISH_POLICY", new[c])
    /\ Goto(c, "ok")

\* "policy_version = unchanged": the audit row repeats the old version.
AnswerFailed(c) ==
    /\ pc[c] = "failedaudit"
    /\ WriteAudit(c, "PUBLISH_POLICY_FAILED", old[c])
    /\ Goto(c, "failed")

\* The server process dies; MySQL rolls back what its connections had open.
Crash ==
    /\ \E c \in Calls : pc[c] \notin {"idle"} \cup Finished
    /\ pc' = [c \in Calls |-> IF pc[c] \in {"idle"} \cup Finished
                              THEN pc[c] ELSE "crashed"]
    /\ lock' = NoCall
    /\ UNCHANGED <<hist, app, row, snaps, logs, audits, old, new, view, image>>

-----------------------------------------------------------------------------
\* The steps a call takes when nothing goes wrong with its statements.
Proceed(c) ==
    \/ ReadOldVersion(c) \/ LockApp(c) \/ RefuseApp(c) \/ UpsertVersion(c)
    \/ ReadSection(c) \/ InsertSnapshot(c) \/ InsertSuccessLog(c) \/ Commit(c)
    \/ WriteFailedLog(c) \/ AnswerOk(c) \/ AnswerFailed(c)

Next ==
    \/ \E c \in Calls : Proceed(c) \/ CommitUnacknowledged(c) \/ FailTransaction(c)
    \/ Edit \/ SwitchApp \/ Crash

Spec == Init /\ [][Next]_vars

\* A call that has begun goes on: a handler thread is not suspended for ever
\* and InnoDB grants a lock that has been released.  Starting a call, failing
\* and the edits are nobody's obligation.
LiveSpec == Spec /\ \A c \in Calls : WF_vars(pc[c] # "idle" /\ Proceed(c))

-----------------------------------------------------------------------------
(* Properties.                                                             *)

\* Every snapshot is the policy as it was in one committed state: the sections
\* are never torn across edits made while the transaction was reading
\* (snapshot_builder.cpp reads the five tables in five statements).
SnapshotIsOneState ==
    \A v \in DOMAIN snaps :
        snaps[v].at \in 1 .. Len(hist) /\ snaps[v].image = hist[snaps[v].at]

\* A later version never freezes an older state of the policy tables than the
\* version before it, whatever the order in which the calls arrived.
SnapshotsOrdered ==
    \A v, w \in DOMAIN snaps : v <= w => snaps[v].at <= snaps[w].at

\* Version numbers and snapshots go together: every version published since
\* the start has a snapshot, and no snapshot is ahead of the version row.
VersionsHaveSnapshots ==
    DOMAIN snaps = (FirstVersion + 1) .. CurrentVersion

\* The publish log says SUCCESS of a version exactly when that call's snapshot
\* is stored under it: the log row shares the fate of the transaction.
SuccessLogMatches ==
    {l \in logs : l.result = "SUCCESS"} =
        {[call |-> snaps[v].by, result |-> "SUCCESS", version |-> v] :
            v \in DOMAIN snaps}

\* A call that answered success keeps its version: no concurrent call was
\* given the same number, and none overwrote its snapshot row.
AcknowledgedPublishKept ==
    \A c \in Calls :
        pc[c] \in {"audit", "ok"} =>
            new[c] \in DOMAIN snaps /\ snaps[new[c]].by = c

\* The audit row of a successful publish shows a version going up, although
\* old_version is read outside the transaction and may be stale.
AuditShowsProgress ==
    \A a \in audits : a.action = "PUBLISH_POLICY" => a.before < a.after

\* A stored snapshot is never replaced nor removed (the INSERT would overwrite
\* a row of the same version).
PublishedForever ==
    [][\A v \in DOMAIN snaps : v \in DOMAIN snaps' /\ snaps'[v] = snaps[v]]_vars

\* PublishPolicy implements PolicyHistory: the k-th version published freezes
\* the state its snapshot row was read from.
Published == [k \in 1 .. (CurrentVersion - FirstVersion) |-> snaps[FirstVersion + k].at]
History == INSTANCE PolicyHistory WITH pub <- Published
ImplementsHistory == History!Spec

\* Every call that begins is answered, even when it queues for the lock behind
\* calls that fail: the lock is released on every path of the handler.
CallsFinish ==
    \A c \in Calls : (pc[c] = "lock") ~> (pc[c] \in Finished)

\* What the audit row of a failed publish says ("policy_version = unchanged",
\* admin_manager.cpp:733): a call answered as failed has published nothing.
FailedPublishUnchanged ==
    \A c \in Calls : pc[c] = "failed" => \A v \in DOMAIN snaps : snaps[v].by # c
=============================================================================
