--------------------------- MODULE SnapshotAgent ---------------------------
(***************************************************************************)
(* AgentService: any number of handler threads pull published snapshots,   *)
(* activate them in the one LocalSnapshotEngine of the process, ask for    *)
(* its status and let it decide.                                           *)
(*                                                                         *)
(* The engine holds one snapshot behind a mutex.  Loading swaps it whole;  *)
(* a local check copies the pointer under the mutex and decides from the   *)
(* copy; the status is read under the mutex field by field.  Between the   *)
(* query that reads a snapshot and its loading, other threads may load.    *)
(***************************************************************************)
EXTENDS PolicySnapshot, Sequences, FiniteSets

CONSTANTS
    Apps,         \* app_code
    NoApp,        \* the empty app_code
    Policies,     \* the states that may be published
    Handlers,     \* the handler threads of AgentService
    Kinds,        \* the calls that are made
    Checks,       \* the requests of the local checks
    BootApp,      \* --agent_bootstrap_app_code, or NoApp
    Failures,     \* whether the queries and the parsing of a row can fail
    MaxVersion,   \* bound on the versions published, of all applications
    MaxLoads,     \* bound on the loads after which no activation begins; a restart
                  \* may follow one more
    NoSnapshot,
    NoJob

LatestKinds == {"pull_latest", "activate_latest"}
VersionKinds == {"pull_version", "activate_version"}
PullKinds == {"pull_latest", "pull_version"}
ActivateKinds == {"activate_latest", "activate_version"}

ASSUME AgentAssumption ==
    /\ Policies \subseteq {d \in PolicyState : d.app = "on"}
    /\ Checks \subseteq Requests
    /\ NoApp \notin Apps /\ BootApp \in Apps \cup {NoApp}
    /\ Kinds \subseteq LatestKinds \cup VersionKinds \cup {"check", "status"}
    /\ Failures \in BOOLEAN
    /\ MaxVersion \in Nat /\ MaxLoads \in Nat

\* The requests of the service.  Empty app codes and versions <= 0 are refused.
Jobs ==
    [kind : Kinds \cap LatestKinds, app : Apps \cup {NoApp}]
    \cup [kind : Kinds \cap VersionKinds, app : Apps \cup {NoApp}, version : 0 .. MaxVersion]
    \cup [kind : Kinds \cap {"check"}, app : Apps \cup {NoApp}, check : Checks]
    \cup [kind : Kinds \cap {"status"}]

VARIABLES
    published,    \* published[a][v] is the policy of version v of a
    withdrawn,    \* the <<app, version>> whose row has no longer status 1
    loaded,       \* what the engine has held, the last is current
    pc, job,      \* the next step of each handler and the call it serves
    began,        \* the loads when the call arrived, and the snapshot rows for a
                  \* call that wants the latest
    copy,         \* the snapshot a handler has read or copied
    status,       \* the local status it is filling
    answer        \* the response

handlerVars == <<pc, job, began, copy, status, answer>>
vars == <<published, withdrawn, loaded, handlerVars>>

\* A row of ny_policy_snapshots, and what the DAO makes of it.
Row(a, v) ==
    [app_code |-> a, policy_version |-> v,
     snapshot_json |-> BuildSnapshotJson(SelectPolicy(a, v, published[a][v]))]
Parsed(row) == ReadSnapshotJson(row.snapshot_json, row.app_code, row.policy_version)

\* What should come out of the rows and go into the engine.
Snapshots == {SelectPolicy(a, v, d) : a \in Apps, v \in 1 .. MaxVersion, d \in Policies}
IndexedSnapshots == {BuildIndexedSnapshot(s) : s \in Snapshots}

ASSUME SentinelAssumption == NoJob \notin Jobs /\ NoSnapshot \notin IndexedSnapshots

Engine == loaded[Len(loaded)]

\* The snapshot id is known by application and version.
IdOf(s) == <<s.app_info.app_code, s.app_info.policy_version>>

\* The status of an engine.
StatusOf(s) ==
    IF s = NoSnapshot
    THEN [has |-> FALSE, app |-> NoApp, id |-> <<NoApp, 0>>, version |-> 0]
    ELSE [has |-> TRUE, app |-> s.snapshot.app_info.app_code, id |-> IdOf(s.snapshot),
          version |-> s.snapshot.app_info.policy_version]

\* An operation status, the snapshot it speaks of, and a local decision.
Response(code, id, decision) == [code |-> code, id |-> id, decision |-> decision]
NoResponse == Response("NONE", <<NoApp, 0>>, NoAnswer)

Versions == {e \in Apps \X (1 .. MaxVersion) : e[2] <= Len(published[e[1]])}
Active(a) == {v \in 1 .. Len(published[a]) : <<a, v>> \notin withdrawn}

NotBegun == [load |-> 0, active |-> {}, last |-> 0]

Places == {"idle", "read", "load", "has", "app", "id", "version", "copy", "decide", "done"}
ResponseCodes == {"NONE", "OK", "NOT_FOUND", "INVALID_ARGUMENT", "SNAPSHOT_NOT_READY"}
Ids == (Apps \cup {NoApp}) \X Nat

TypeOK ==
    /\ published \in [Apps -> Seq(Policies)]
    /\ withdrawn \subseteq Apps \X Nat
    /\ loaded \in Seq(IndexedSnapshots \cup {NoSnapshot}) /\ Len(loaded) > 0
    /\ pc \in [Handlers -> Places]
    /\ job \in [Handlers -> Jobs \cup {NoJob}]
    /\ began \in [Handlers -> [load : Nat, active : SUBSET Nat, last : Nat]]
    /\ copy \in [Handlers -> Snapshots \cup IndexedSnapshots \cup {NoSnapshot}]
    /\ \A h \in Handlers : pc[h] = "load" => copy[h] \in Snapshots
    /\ \A h \in Handlers : pc[h] = "decide" => copy[h] \in IndexedSnapshots \cup {NoSnapshot}
    /\ status \in [Handlers -> [has : BOOLEAN, app : Apps \cup {NoApp}, id : Ids, version : Nat]]
    /\ answer \in [Handlers -> [code : ResponseCodes, id : Ids,
                                decision : Answer]]

Init ==
    /\ published = [a \in Apps |-> <<>>]
    /\ withdrawn = {}
    /\ loaded = <<NoSnapshot>>
    /\ pc = [h \in Handlers |-> "idle"]
    /\ job = [h \in Handlers |-> NoJob]
    /\ began = [h \in Handlers |-> NotBegun]
    /\ copy = [h \in Handlers |-> NoSnapshot]
    /\ status = [h \in Handlers |-> StatusOf(NoSnapshot)]
    /\ answer = [h \in Handlers |-> NoResponse]

-----------------------------------------------------------------------------
(* The tables: PublishPolicy stores versions one after the other and for   *)
(* ever; an operator may set the status of a row with SQL.                 *)

Publish ==
    /\ \E a \in Apps, d \in Policies :
          /\ Cardinality(Versions) < MaxVersion
          /\ published' = [published EXCEPT ![a] = Append(@, d)]
    /\ UNCHANGED <<withdrawn, loaded, handlerVars>>

Withdraw ==
    /\ \E a \in Apps : \E v \in Active(a) : withdrawn' = withdrawn \cup {<<a, v>>}
    /\ UNCHANGED <<published, loaded, handlerVars>>

\* Variant: getLatestSnapshot does not look at the status.
LatestRows_AnyStatus(a) ==
    {Row(a, v) : v \in {n \in 1 .. Len(published[a]) : n = Len(published[a])}}

\* getLatestSnapshot: status = 1, the highest version.
LatestRows(a) ==
    {Row(a, v) : v \in {n \in Active(a) : \A m \in Active(a) : m <= n}}

\* getSnapshotByVersion: whatever the status.
RowsOfVersion(a, v) == {Row(a, n) : n \in {v} \cap 1 .. Len(published[a])}

-----------------------------------------------------------------------------
(* Calls.                                                                  *)

Goto(h, place) == pc' = [pc EXCEPT ![h] = place]
Respond(h, code, id, decision) ==
    answer' = [answer EXCEPT ![h] = Response(code, id, decision)]
\* A refusal: of the call only the code matters from here on.
Refuse(h, code) ==
    /\ Respond(h, code, <<NoApp, 0>>, NoAnswer) /\ Goto(h, "done")
    /\ job' = [job EXCEPT ![h] = NoJob] /\ began' = [began EXCEPT ![h] = NotBegun]

Refused(j) ==
    \/ j.kind # "status" /\ j.app = NoApp
    \/ j.kind \in VersionKinds /\ j.version = 0

FirstPlace(j) ==
    CASE j.kind = "status" -> "has"
      [] j.kind = "check" -> "copy"
      [] OTHER -> "read"

\* A request arrives; an empty app_code or a version <= 0 is refused at once.
Receive(h) ==
    /\ pc[h] = "idle"
    /\ \E j \in Jobs :
          LET latest == j.kind \in LatestKinds /\ j.app # NoApp IN
          /\ j.kind \in ActivateKinds => Len(loaded) <= MaxLoads
          /\ \/ Refused(j) /\ Refuse(h, "INVALID_ARGUMENT")
             \/ /\ ~Refused(j) /\ Goto(h, FirstPlace(j)) /\ UNCHANGED answer
                /\ job' = [job EXCEPT ![h] = j]
                /\ began' = [began EXCEPT ![h] =
                                [load |-> Len(loaded),
                                 active |-> IF latest THEN Active(j.app) ELSE {},
                                 last |-> IF latest THEN Len(published[j.app]) ELSE 0]]
    /\ UNCHANGED <<published, withdrawn, loaded, copy, status>>

\* The rows the call's query may find.
Found(j) ==
    IF j.kind \in LatestKinds THEN LatestRows(j.app) ELSE RowsOfVersion(j.app, j.version)

\* Variant: an activation goes on when the query has found nothing.
ReadSnapshot_GoesOn(h) ==
    /\ pc[h] = "read"
    /\ \/ \E row \in Found(job[h]) : copy' = [copy EXCEPT ![h] = Parsed(row)]
       \/ Found(job[h]) = {} /\ UNCHANGED copy
    /\ Goto(h, IF job[h].kind \in PullKinds THEN "done" ELSE "load")
    /\ UNCHANGED <<published, withdrawn, loaded, job, began, status, answer>>

\* The query of the snapshot row and the parsing of its JSON.  A pull answers
\* with it; an activation goes on.  No row and any error read as NOT_FOUND.
ReadSnapshot(h) ==
    /\ pc[h] = "read"
    /\ \/ \E row \in Found(job[h]) :
             /\ copy' = [copy EXCEPT ![h] = Parsed(row)]
             /\ \/ /\ job[h].kind \in PullKinds
                   /\ Respond(h, "OK", IdOf(copy'[h]), NoAnswer)
                   /\ Goto(h, "done")
                \/ job[h].kind \notin PullKinds /\ Goto(h, "load") /\ UNCHANGED answer
             /\ UNCHANGED <<job, began>>
       \/ /\ Found(job[h]) = {} \/ Failures
          /\ Refuse(h, "NOT_FOUND")
          /\ UNCHANGED copy
    /\ UNCHANGED <<published, withdrawn, loaded, status>>

\* Variant: the engine is cleared before the new snapshot is put in.
LoadSnapshot_ClearsFirst(h) ==
    /\ pc[h] = "load"
    /\ \/ /\ Engine # NoSnapshot
          /\ loaded' = Append(loaded, NoSnapshot)
          /\ UNCHANGED <<pc, answer>>
       \/ /\ Engine = NoSnapshot
          /\ loaded' = Append(loaded, BuildIndexedSnapshot(copy[h]))
          /\ Respond(h, "OK", IdOf(copy[h]), NoAnswer)
          /\ Goto(h, "done")
    /\ UNCHANGED <<published, withdrawn, job, began, copy, status>>

\* Variant: an older version than the one in the engine is not loaded.
LoadSnapshot_NewerOnly(h) ==
    /\ pc[h] = "load"
    /\ LET older == Engine # NoSnapshot /\ IdOf(Engine.snapshot)[2] >= IdOf(copy[h])[2] IN
       loaded' = IF older THEN loaded ELSE Append(loaded, BuildIndexedSnapshot(copy[h]))
    /\ Respond(h, "OK", IdOf(copy[h]), NoAnswer)
    /\ Goto(h, "done")
    /\ UNCHANGED <<published, withdrawn, job, began, copy, status>>

\* BuildIndexedSnapshot, then LoadSnapshot: the whole index is swapped in,
\* whatever the engine holds.
LoadSnapshot(h) ==
    /\ pc[h] = "load"
    /\ loaded' = Append(loaded, BuildIndexedSnapshot(copy[h]))
    /\ Respond(h, "OK", IdOf(copy[h]), NoAnswer)
    /\ Goto(h, "done")
    /\ UNCHANGED <<published, withdrawn, job, began, copy, status>>

-----------------------------------------------------------------------------
(* fillLocalSnapshotStatus: four getters, each with the mutex to itself.   *)

Fill(h, from, filled, to) ==
    /\ pc[h] = from
    /\ status' = [status EXCEPT ![h] = filled]
    /\ Goto(h, to)
    /\ UNCHANGED <<published, withdrawn, loaded, job, began, copy>>

ReadHasSnapshot(h) ==
    /\ Fill(h, "has", [status[h] EXCEPT !.has = StatusOf(Engine).has], "app")
    /\ UNCHANGED answer
ReadAppCode(h) ==
    /\ Fill(h, "app", [status[h] EXCEPT !.app = StatusOf(Engine).app], "id")
    /\ UNCHANGED answer
ReadSnapshotId(h) ==
    /\ Fill(h, "id", [status[h] EXCEPT !.id = StatusOf(Engine).id], "version")
    /\ UNCHANGED answer
ReadPolicyVersion(h) ==
    /\ Fill(h, "version", [status[h] EXCEPT !.version = StatusOf(Engine).version], "done")
    /\ Respond(h, "OK", <<NoApp, 0>>, NoAnswer)

-----------------------------------------------------------------------------
(* LocalCheck.                                                             *)

\* getSnapshotCopy
CopySnapshot(h) ==
    /\ pc[h] = "copy"
    /\ copy' = [copy EXCEPT ![h] = Engine]
    /\ Goto(h, "decide")
    /\ UNCHANGED <<published, withdrawn, loaded, job, began, status, answer>>

\* Variant: the version reported is the current one, not that of the copy.
DecideLocally_CurrentVersion(h) ==
    /\ pc[h] = "decide"
    /\ \/ /\ copy[h] = NoSnapshot
          /\ Respond(h, "SNAPSHOT_NOT_READY", <<NoApp, 0>>, NoAnswer)
       \/ /\ copy[h] # NoSnapshot /\ Engine # NoSnapshot
          /\ Respond(h, "OK", IdOf(Engine.snapshot),
                     LocalDecision(copy[h], job[h].app, job[h].check))
    /\ Goto(h, "done")
    /\ UNCHANGED <<published, withdrawn, loaded, job, began, copy, status>>

\* Check and fillLocalCheckResponse: every field comes from the copy.
DecideLocally(h) ==
    /\ pc[h] = "decide"
    /\ \/ /\ copy[h] = NoSnapshot
          /\ Respond(h, "SNAPSHOT_NOT_READY", <<NoApp, 0>>, NoAnswer)
       \/ /\ copy[h] # NoSnapshot
          /\ Respond(h, "OK", IdOf(copy[h].snapshot),
                     LocalDecision(copy[h], job[h].app, job[h].check))
    /\ Goto(h, "done")
    /\ UNCHANGED <<published, withdrawn, loaded, job, began, copy, status>>

\* The response is sent; the thread takes the next request.
Finish(h) ==
    /\ pc[h] = "done"
    /\ Goto(h, "idle")
    /\ job' = [job EXCEPT ![h] = NoJob]
    /\ began' = [began EXCEPT ![h] = NotBegun]
    /\ copy' = [copy EXCEPT ![h] = NoSnapshot]
    /\ status' = [status EXCEPT ![h] = StatusOf(NoSnapshot)]
    /\ answer' = [answer EXCEPT ![h] = NoResponse]
    /\ UNCHANGED <<published, withdrawn, loaded>>

\* The process stops or dies and starts again: the snapshot and the calls are
\* lost; before it serves, main loads the latest snapshot of BootApp if told so.
Restart ==
    /\ Len(loaded) <= MaxLoads + 1
    /\ LET rows == IF BootApp = NoApp THEN {} ELSE LatestRows(BootApp) IN
       \/ \E row \in rows : loaded' = Append(loaded, BuildIndexedSnapshot(Parsed(row)))
       \/ (rows = {} \/ Failures) /\ loaded' = Append(loaded, NoSnapshot)
    /\ pc' = [h \in Handlers |-> "idle"]
    /\ job' = [h \in Handlers |-> NoJob]
    /\ began' = [h \in Handlers |-> NotBegun]
    /\ copy' = [h \in Handlers |-> NoSnapshot]
    /\ status' = [h \in Handlers |-> StatusOf(NoSnapshot)]
    /\ answer' = [h \in Handlers |-> NoResponse]
    /\ UNCHANGED <<published, withdrawn>>

-----------------------------------------------------------------------------
Serve(h) ==
    \/ Receive(h) \/ ReadSnapshot(h) \/ LoadSnapshot(h)
    \/ ReadHasSnapshot(h) \/ ReadAppCode(h) \/ ReadSnapshotId(h) \/ ReadPolicyVersion(h)
    \/ CopySnapshot(h) \/ DecideLocally(h) \/ Finish(h)

Next ==
    \/ \E h \in Handlers : Serve(h)
    \/ Publish \/ Withdraw \/ Restart

Spec == Init /\ [][Next]_vars

-----------------------------------------------------------------------------
(* Properties.                                                             *)

Answered(h, kinds) == pc[h] = "done" /\ answer[h].code = "OK" /\ job[h].kind \in kinds

\* What the engine has held since the call of h arrived.
HeldDuring(h) == {loaded[i] : i \in began[h].load .. Len(loaded)}

\* A local check answers what the centre would have decided in the published
\* state of the version it names, and that version was in the engine during the
\* call, whatever is activated meanwhile; another application is not answered for.
LocalAnswerIsCentral ==
    \A h \in Handlers : Answered(h, {"check"}) =>
        \E s \in HeldDuring(h) \ {NoSnapshot} :
            LET a == IdOf(s.snapshot)[1]  v == IdOf(s.snapshot)[2] IN
            /\ answer[h].id = <<a, v>>
            /\ v \in 1 .. Len(published[a])
            /\ answer[h].decision =
                  IF a = job[h].app THEN Decision(published[a][v], job[h].check)
                  ELSE Denial("APP_NOT_FOUND")

\* Loading leaves no gap: SNAPSHOT_NOT_READY is answered only if the engine was
\* empty when the call arrived.
ReadyStaysReady ==
    \A h \in Handlers :
        pc[h] = "done" /\ answer[h].code = "SNAPSHOT_NOT_READY" =>
            loaded[began[h].load] = NoSnapshot

\* A call for the latest snapshot never gets one older than the latest when it
\* arrived, unless those newer were withdrawn, nor one withdrawn before.
LatestIsFresh ==
    \A h \in Handlers : Answered(h, LatestKinds) =>
        LET v == answer[h].id[2] IN
        /\ \A n \in began[h].active : n > v => <<job[h].app, n>> \in withdrawn
        /\ v \in began[h].active \/ v > began[h].last

\* A successful activation did put its snapshot in the engine during the call.
ActivationTookPlace ==
    \A h \in Handlers : Answered(h, ActivateKinds) =>
        \E i \in (began[h].load + 1) .. Len(loaded) :
            /\ loaded[i] # NoSnapshot
            /\ answer[h].id = IdOf(loaded[i].snapshot)
            /\ answer[h].id[1] = job[h].app

\* A status that reports a snapshot names one, although the name is read later, and
\* the four fields are those of what the engine held during the call, each no older
\* than the one before: activations may mix them, and name a snapshot in a status that
\* reports none, but only forwards, and not at all if none came in between.
StatusNamesSnapshot ==
    \A h \in Handlers : Answered(h, {"status"}) =>
        /\ status[h].has =>
              status[h].app # NoApp /\ status[h].id[1] # NoApp /\ status[h].version > 0
        /\ \E i, j, k, n \in began[h].load .. Len(loaded) :
              /\ i <= j /\ j <= k /\ k <= n
              /\ status[h] = [has |-> StatusOf(loaded[i]).has, app |-> StatusOf(loaded[j]).app,
                              id |-> StatusOf(loaded[k]).id,
                              version |-> StatusOf(loaded[n]).version]
=============================================================================
