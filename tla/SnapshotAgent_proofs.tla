------------------------ MODULE SnapshotAgent_proofs ------------------------
(***************************************************************************)
(* The agent of SnapshotAgent, with any number of handler threads,         *)
(* applications, policies and requests: what it loads is what was          *)
(* published, what it answers is what the centre would have answered, and  *)
(* what it calls the latest snapshot was the latest during the call.       *)
(*                                                                         *)
(* The invariant says of each call which row or which content of the       *)
(* engine it works on.  A call is disturbed only by tables that grow and   *)
(* by an engine that is given another snapshot, never emptied; a restart   *)
(* empties it, and ends every call.                                        *)
(***************************************************************************)
EXTENDS SnapshotAgent, PolicySnapshot_proofs, FiniteSetTheorems

-----------------------------------------------------------------------------
(* The inductive invariant.                                                *)

\* The snapshots taken of the published versions.
Stored(a, v) == SelectPolicy(a, v, published[a][v])

\* The versions are few: Publish stops at MaxVersion.
BoundInv ==
    /\ IsFiniteSet(Versions)
    /\ \A a \in Apps : Len(published[a]) <= MaxVersion

\* s is the index of a published version.
Given(s) ==
    \E a \in Apps : \E v \in 1 .. Len(published[a]) : s = BuildIndexedSnapshot(Stored(a, v))

\* What the engine has held was published.
LoadedInv == \A i \in 1 .. Len(loaded) : loaded[i] # NoSnapshot => Given(loaded[i])

PlacesOf(kind) ==
    CASE kind = "status" -> {"has", "app", "id", "version", "done"}
      [] kind = "check" -> {"copy", "decide", "done"}
      [] kind \in PullKinds -> {"read", "done"}
      [] kind \in ActivateKinds -> {"read", "load", "done"}

\* What was withdrawn when the call arrived still is, and nothing else is
\* missing among the rows of that time.
BeganInv(h) ==
    /\ began[h].load \in 1 .. Len(loaded)
    /\ loaded[began[h].load] # NoSnapshot =>
           \A i \in began[h].load .. Len(loaded) : loaded[i] # NoSnapshot
    /\ job[h].kind \in LatestKinds =>
           /\ began[h].last <= Len(published[job[h].app])
           /\ began[h].active \subseteq 1 .. began[h].last
           /\ \A n \in 1 .. began[h].last :
                 n \in began[h].active \/ <<job[h].app, n>> \in withdrawn

\* Version v may be called the latest by the call.
Fresh(h, v) ==
    /\ \A n \in began[h].active : n > v => <<job[h].app, n>> \in withdrawn
    /\ v \in began[h].active \/ v > began[h].last

\* An activation works on a row of its application.
ReadInv(h) ==
    pc[h] = "load" =>
        \E v \in 1 .. Len(published[job[h].app]) :
            /\ copy[h] = Stored(job[h].app, v)
            /\ job[h].kind \in LatestKinds => Fresh(h, v)

\* The fields that are read so far come from the i-th, j-th, k-th and n-th thing the
\* engine has held.
ReadFrom(st, place, held, i, j, k, n) ==
    /\ i <= j /\ j <= k /\ k <= n
    /\ st.has = StatusOf(held[i]).has
    /\ place \in {"id", "version", "done"} => st.app = StatusOf(held[j]).app
    /\ place \in {"version", "done"} => st.id = StatusOf(held[k]).id
    /\ place = "done" => st.version = StatusOf(held[n]).version

\* A status that has seen a snapshot finds one at every later getter.
StatusInv(h) ==
    job[h].kind = "status" =>
        /\ status[h].has =>
              /\ pc[h] \in {"app", "id", "version", "done"} => Engine # NoSnapshot
              /\ pc[h] \in {"id", "version", "done"} => status[h].app # NoApp
              /\ pc[h] \in {"version", "done"} => status[h].id[1] # NoApp
              /\ pc[h] = "done" => status[h].version > 0
        /\ pc[h] \in {"app", "id", "version", "done"} =>
              \E i, j, k, n \in began[h].load .. Len(loaded) :
                 ReadFrom(status[h], pc[h], loaded, i, j, k, n)

\* The answer of a finished call, by its kind.
DoneInv(h) ==
    pc[h] = "done" =>
        /\ answer[h].code = "SNAPSHOT_NOT_READY" => loaded[began[h].load] = NoSnapshot
        /\ job[h].kind \in LatestKinds /\ answer[h].code = "OK" => Fresh(h, answer[h].id[2])
        /\ job[h].kind \in ActivateKinds /\ answer[h].code = "OK" =>
              \E i \in (began[h].load + 1) .. Len(loaded) :
                 /\ loaded[i] # NoSnapshot
                 /\ answer[h].id = IdOf(loaded[i].snapshot)
                 /\ answer[h].id[1] = job[h].app
        /\ job[h].kind = "check" /\ answer[h].code = "OK" =>
              \E i \in began[h].load .. Len(loaded) :
                 /\ loaded[i] # NoSnapshot
                 /\ \E a \in Apps : \E v \in 1 .. Len(published[a]) :
                       /\ loaded[i] = BuildIndexedSnapshot(Stored(a, v))
                       /\ answer[h].id = <<a, v>>
                       /\ answer[h].decision =
                             IF a = job[h].app THEN Decision(published[a][v], job[h].check)
                             ELSE Denial("APP_NOT_FOUND")

CallInv(h) ==
    IF job[h] = NoJob
    THEN pc[h] \in {"idle", "done"} /\ answer[h].code \notin {"OK", "SNAPSHOT_NOT_READY"}
    ELSE /\ pc[h] \in PlacesOf(job[h].kind) /\ ~Refused(job[h])
         /\ BeganInv(h) /\ ReadInv(h) /\ StatusInv(h) /\ DoneInv(h)
         /\ pc[h] = "decide" =>
               \E i \in began[h].load .. Len(loaded) : copy[h] = loaded[i]

IInv == TypeOK /\ BoundInv /\ LoadedInv /\ \A h \in Handlers : CallInv(h)

-----------------------------------------------------------------------------
(* Snapshots, requests and the tables.                                     *)

LEMMA SelectFacts ==
    ASSUME NEW a, NEW v, NEW d
    PROVE  LET s == SelectPolicy(a, v, d) IN
           /\ s.app_info.app_code = a /\ s.app_info.policy_version = v
           /\ IdOf(s) = <<a, v>>
           /\ BuildIndexedSnapshot(s).snapshot = s
BY DEF SelectPolicy, IdOf, BuildIndexedSnapshot

\* A row is parsed into the snapshot that was stored in it.
LEMMA ParsedRow ==
    ASSUME NEW a, NEW v, published[a][v] \in Policies
    PROVE  Parsed(Row(a, v)) = Stored(a, v)
<1>1. published[a][v] \in PolicyState
    BY AgentAssumption
<1>2. ReadSnapshotJson(BuildSnapshotJson(SelectPolicy(a, v, published[a][v])), a, v) =
          SelectPolicy(a, v, published[a][v])
    BY <1>1, SnapshotReadBack
<1> QED BY <1>2 DEF Parsed, Row, Stored

LEMMA StoredTypes ==
    ASSUME TypeOK, BoundInv, NEW a \in Apps, NEW v \in 1 .. Len(published[a])
    PROVE  /\ published[a][v] \in Policies
           /\ Stored(a, v) \in Snapshots
           /\ BuildIndexedSnapshot(Stored(a, v)) \in IndexedSnapshots
           /\ BuildIndexedSnapshot(Stored(a, v)) # NoSnapshot
<1>1. published[a] \in Seq(Policies) /\ Len(published[a]) \in Nat
    BY DEF TypeOK
<1>2. published[a][v] \in Policies /\ v \in 1 .. MaxVersion
    BY <1>1, AgentAssumption DEF BoundInv
<1>3. Stored(a, v) \in Snapshots
    BY <1>2 DEF Stored, Snapshots
<1> QED BY <1>2, <1>3, SentinelAssumption DEF IndexedSnapshots

LEMMA SnapshotFacts ==
    /\ \A s \in Snapshots : IdOf(s) \in Ids
    /\ \A s \in IndexedSnapshots :
          /\ s # NoSnapshot /\ s.snapshot \in Snapshots
          /\ StatusOf(s).has /\ StatusOf(s).app \in Apps
          /\ StatusOf(s).id \in Apps \X Nat
          /\ StatusOf(s).version \in Nat /\ StatusOf(s).version > 0
<1>1. ASSUME NEW s \in Snapshots
      PROVE  /\ s.app_info.app_code \in Apps
             /\ s.app_info.policy_version \in 1 .. MaxVersion
             /\ IdOf(s) \in Apps \X Nat
             /\ BuildIndexedSnapshot(s).snapshot = s
    <2>1. PICK a \in Apps, v \in 1 .. MaxVersion, d \in Policies : s = SelectPolicy(a, v, d)
        BY DEF Snapshots
    <2>2. v \in Nat
        BY AgentAssumption
    <2> QED BY <2>1, <2>2, SelectFacts
<1>2. ASSUME NEW s \in IndexedSnapshots
      PROVE  /\ s # NoSnapshot /\ s.snapshot \in Snapshots
             /\ StatusOf(s).has /\ StatusOf(s).app \in Apps
             /\ StatusOf(s).id \in Apps \X Nat
             /\ StatusOf(s).version \in Nat /\ StatusOf(s).version > 0
    <2>1. s # NoSnapshot
        BY SentinelAssumption
    <2>2. PICK t \in Snapshots : s = BuildIndexedSnapshot(t)
        BY DEF IndexedSnapshots
    <2>3. s.snapshot = t
        BY <1>1, <2>2
    <2>4. t.app_info.policy_version \in Nat /\ t.app_info.policy_version > 0
        BY <1>1, AgentAssumption
    <2> QED BY <1>1, <2>1, <2>3, <2>4 DEF StatusOf
<1> QED BY <1>1, <1>2 DEF Ids

\* An index answers for its own application what the centre would.
LEMMA IndexAnswers ==
    ASSUME NEW a, NEW v, NEW d \in Policies, NEW app, NEW r \in Requests
    PROVE  LocalDecision(BuildIndexedSnapshot(SelectPolicy(a, v, d)), app, r) =
               IF a = app THEN Decision(d, r) ELSE Denial("APP_NOT_FOUND")
<1>1. d \in PolicyState /\ d.app = "on"
    BY AgentAssumption
<1>2. CASE a = app
    BY <1>1, <1>2, IndexDecides
<1>3. CASE a # app
    <2>1. BuildIndexedSnapshot(SelectPolicy(a, v, d)).snapshot.app_info.app_code = a
        BY SelectFacts
    <2> QED BY <1>3, <2>1 DEF LocalDecision
<1> QED BY <1>2, <1>3

LEMMA DecisionTypes ==
    ASSUME NEW d, NEW r
    PROVE  Decision(d, r) \in Answer
<1>1. \A code \in Codes : Denial(code) \in Answer
    BY DEF Denial, Answer
<1>2. OwnerPermit \in Answer
    BY DEF OwnerPermit, Answer, Codes
<1>3. Permit(UserRoles(d, r.user) \cap RolesWithPermission(d, r.perm)) \in Answer
    BY DEF Permit, Answer, Codes, UserRoles
<1>4. RbacDecision(d, r) \in Answer
    BY <1>1, <1>3 DEF RbacDecision, Codes
<1> QED BY <1>1, <1>2, <1>4 DEF Decision, Codes

LEMMA JobFacts ==
    ASSUME NEW j \in Jobs
    PROVE  /\ j.kind \in LatestKinds \cup VersionKinds \cup {"check", "status"}
           /\ j.kind # "status" => j.app \in Apps \cup {NoApp}
           /\ j.kind \in VersionKinds => j.version \in Nat
           /\ j.kind = "check" => j.check \in Requests
           /\ ~Refused(j) /\ j.kind # "status" => j.app \in Apps
<1>1. CASE j \in [kind : Kinds \cap LatestKinds, app : Apps \cup {NoApp}]
    BY <1>1 DEF LatestKinds, VersionKinds, Refused
<1>2. CASE j \in [kind : Kinds \cap VersionKinds, app : Apps \cup {NoApp},
                  version : 0 .. MaxVersion]
    BY <1>2, AgentAssumption DEF LatestKinds, VersionKinds, Refused
<1>3. CASE j \in [kind : Kinds \cap {"check"}, app : Apps \cup {NoApp}, check : Checks]
    BY <1>3, AgentAssumption DEF LatestKinds, VersionKinds, Refused
<1>4. CASE j \in [kind : Kinds \cap {"status"}]
    BY <1>4 DEF LatestKinds, VersionKinds, Refused
<1> QED BY <1>1, <1>2, <1>3, <1>4 DEF Jobs

\* The rows a query finds, parsed.
LEMMA FoundFacts ==
    ASSUME TypeOK, BoundInv, NEW j \in Jobs, ~Refused(j),
           j.kind \in LatestKinds \cup VersionKinds, NEW row \in Found(j)
    PROVE  \E v \in 1 .. Len(published[j.app]) :
              /\ Parsed(row) = Stored(j.app, v)
              /\ j.kind \in LatestKinds =>
                    v \in Active(j.app) /\ \A m \in Active(j.app) : m <= v
<1>1. j.app \in Apps /\ published[j.app] \in Seq(Policies)
    BY JobFacts DEF TypeOK, LatestKinds, VersionKinds
<1>2. CASE j.kind \in LatestKinds
    <2>1. PICK v \in Active(j.app) : row = Row(j.app, v) /\ \A m \in Active(j.app) : m <= v
        BY <1>2 DEF Found, LatestRows
    <2>2. v \in 1 .. Len(published[j.app])
        BY DEF Active
    <2> QED BY <1>1, <2>1, <2>2, ParsedRow, StoredTypes
<1>3. CASE j.kind \notin LatestKinds
    <2>1. PICK v \in 1 .. Len(published[j.app]) : row = Row(j.app, v)
        BY <1>3 DEF Found, RowsOfVersion
    <2> QED BY <1>1, <1>3, <2>1, ParsedRow, StoredTypes
<1> QED BY <1>2, <1>3

-----------------------------------------------------------------------------
(* Types.                                                                  *)

\* Rows of SnapshotAgent's own types, and the one step that adds a version.
LEMMA ResponseTypes ==
    ASSUME NEW code \in ResponseCodes, NEW id \in Ids, NEW decision \in Answer
    PROVE  Response(code, id, decision) \in
               [code : ResponseCodes, id : Ids, decision : Answer]
BY DEF Response

LEMMA AnswerTypes ==
    ASSUME answer \in [Handlers -> [code : ResponseCodes, id : Ids, decision : Answer]],
           NEW h \in Handlers,
           NEW code \in ResponseCodes, NEW id \in Ids, NEW decision \in Answer,
           Respond(h, code, id, decision)
    PROVE  answer' \in [Handlers -> [code : ResponseCodes, id : Ids, decision : Answer]]
<1>1. Response(code, id, decision) \in [code : ResponseCodes, id : Ids, decision : Answer]
    BY ResponseTypes
<1>2. answer' = [answer EXCEPT ![h] = Response(code, id, decision)]
    BY DEF Respond
<1> HIDE DEF Response
<1> QED BY <1>1, <1>2

LEMMA BlankTypes ==
    /\ <<NoApp, 0>> \in Ids
    /\ NoAnswer \in Answer
    /\ NoResponse \in [code : ResponseCodes, id : Ids, decision : Answer]
    /\ StatusOf(NoSnapshot) \in [has : BOOLEAN, app : Apps \cup {NoApp}, id : Ids, version : Nat]
    /\ NotBegun \in [load : Nat, active : SUBSET Nat, last : Nat]
<1>1. <<NoApp, 0>> \in Ids
    BY DEF Ids
<1>2. NoAnswer \in Answer
    BY DEF NoAnswer, Answer, Codes
<1>3. NoResponse \in [code : ResponseCodes, id : Ids, decision : Answer]
    BY <1>1, <1>2 DEF NoResponse, Response, ResponseCodes
<1> QED BY <1>1, <1>2, <1>3 DEF StatusOf, NotBegun

\* A call under way has its own places, and knows its request.
LEMMA ServedFacts ==
    ASSUME IInv, NEW h \in Handlers, pc[h] \notin {"idle", "done"}
    PROVE  /\ job[h] \in Jobs /\ job[h] # NoJob /\ ~Refused(job[h])
           /\ pc[h] \in PlacesOf(job[h].kind)
           /\ pc[h] \in {"has", "app", "id", "version"} <=> job[h].kind = "status"
           /\ pc[h] \in {"copy", "decide"} <=> job[h].kind = "check"
           /\ pc[h] = "read" => job[h].kind \in LatestKinds \cup VersionKinds
           /\ pc[h] = "load" => job[h].kind \in ActivateKinds
           /\ job[h].kind # "status" => job[h].app \in Apps
           /\ BeganInv(h) /\ ReadInv(h) /\ StatusInv(h)
<1>1. CallInv(h) /\ job[h] \in Jobs \cup {NoJob}
    BY DEF IInv, TypeOK
<1>2. job[h] # NoJob /\ job[h] \in Jobs
    BY <1>1 DEF CallInv
<1>3. /\ pc[h] \in PlacesOf(job[h].kind) /\ ~Refused(job[h])
      /\ BeganInv(h) /\ ReadInv(h) /\ StatusInv(h)
    BY <1>1, <1>2 DEF CallInv
<1>4. job[h].kind \in LatestKinds \cup VersionKinds \cup {"check", "status"}
    BY <1>2, JobFacts
<1>5. job[h].kind # "status" => job[h].app \in Apps
    BY <1>2, <1>3, JobFacts
<1>6. /\ pc[h] \in {"has", "app", "id", "version"} <=> job[h].kind = "status"
      /\ pc[h] \in {"copy", "decide"} <=> job[h].kind = "check"
      /\ pc[h] = "read" => job[h].kind \in LatestKinds \cup VersionKinds
      /\ pc[h] = "load" => job[h].kind \in ActivateKinds
    BY <1>3, <1>4 DEF PlacesOf, LatestKinds, VersionKinds, PullKinds, ActivateKinds
<1> QED BY <1>2, <1>3, <1>5, <1>6

LEMMA EngineTypes ==
    ASSUME TypeOK
    PROVE  /\ Len(loaded) \in Nat /\ Len(loaded) \in 1 .. Len(loaded)
           /\ Engine \in IndexedSnapshots \cup {NoSnapshot}
           /\ Engine # NoSnapshot <=> StatusOf(Engine).has
           /\ StatusOf(Engine) \in
                 [has : BOOLEAN, app : Apps \cup {NoApp}, id : Ids, version : Nat]
<1>1. loaded \in Seq(IndexedSnapshots \cup {NoSnapshot}) /\ Len(loaded) > 0
    BY DEF TypeOK
<1>2. Len(loaded) \in Nat /\ Len(loaded) \in 1 .. Len(loaded)
    BY <1>1
<1>3. Engine \in IndexedSnapshots \cup {NoSnapshot}
    BY <1>1, <1>2 DEF Engine
<1>4. Engine # NoSnapshot <=> StatusOf(Engine).has
    BY DEF StatusOf
<1>5. StatusOf(Engine) = [has |-> StatusOf(Engine).has, app |-> StatusOf(Engine).app,
                          id |-> StatusOf(Engine).id, version |-> StatusOf(Engine).version]
    BY DEF StatusOf
<1>6. CASE Engine = NoSnapshot
    BY <1>2, <1>3, <1>4, <1>6, BlankTypes
<1>7. CASE Engine # NoSnapshot
    <2>1. /\ StatusOf(Engine).has \in BOOLEAN
          /\ StatusOf(Engine).app \in Apps \cup {NoApp}
          /\ StatusOf(Engine).id \in Ids
          /\ StatusOf(Engine).version \in Nat
        BY <1>3, <1>7, SnapshotFacts DEF StatusOf, Ids
    <2> QED BY <1>2, <1>3, <1>4, <1>5, <2>1
<1> QED BY <1>6, <1>7

LEMMA TypeStep == IInv /\ [Next]_vars => TypeOK'
<1> SUFFICES ASSUME IInv, [Next]_vars PROVE TypeOK'
    OBVIOUS
<1>0. TypeOK /\ BoundInv
    BY DEF IInv
<1> USE <1>0 DEF TypeOK, Goto, Respond, handlerVars
<1>1. CASE Publish
    BY <1>1 DEF Publish
<1>2. CASE Withdraw
    BY <1>2 DEF Withdraw, Active
<1>3. ASSUME NEW h \in Handlers, Receive(h) PROVE TypeOK'
    <2>1. /\ UNCHANGED <<published, withdrawn, loaded, copy, status>>
          /\ pc[h] = "idle"
        BY <1>3 DEF Receive
    <2>2. PICK j \in Jobs :
             \/ Refuse(h, "INVALID_ARGUMENT")
             \/ /\ ~Refused(j) /\ Goto(h, FirstPlace(j)) /\ UNCHANGED answer
                /\ job' = [job EXCEPT ![h] = j]
                /\ began' = [began EXCEPT ![h] =
                      [load |-> Len(loaded),
                       active |-> IF j.kind \in LatestKinds /\ j.app # NoApp THEN Active(j.app) ELSE {},
                       last |-> IF j.kind \in LatestKinds /\ j.app # NoApp
                                THEN Len(published[j.app]) ELSE 0]]
        BY <1>3 DEF Receive
    <2>3. CASE Refuse(h, "INVALID_ARGUMENT")
        BY <2>1, <2>3, BlankTypes, ResponseTypes DEF Refuse, Places, ResponseCodes
    <2>4. CASE ~Refuse(h, "INVALID_ARGUMENT")
        <3>1. FirstPlace(j) \in {"has", "copy", "read"}
            BY DEF FirstPlace
        <3>2. ASSUME j.kind \in LatestKinds, j.app # NoApp
              PROVE  Active(j.app) \in SUBSET Nat /\ Len(published[j.app]) \in Nat
            <4>1. j.app \in Apps
                BY <3>2, JobFacts DEF LatestKinds
            <4> QED BY <4>1 DEF Active
        <3>3. pc' \in [Handlers -> Places] /\ pc'[h] \in {"has", "copy", "read"}
            BY <2>2, <2>4, <3>1 DEF Places
        <3>4. began' \in [Handlers -> [load : Nat, active : SUBSET Nat, last : Nat]]
            <4> DEFINE active == IF j.kind \in LatestKinds /\ j.app # NoApp THEN Active(j.app) ELSE {}
                       last == IF j.kind \in LatestKinds /\ j.app # NoApp
                               THEN Len(published[j.app]) ELSE 0
                       b == [load |-> Len(loaded), active |-> active, last |-> last]
            <4>1. active \in SUBSET Nat /\ last \in Nat
                BY <3>2
            <4>2. began' = [began EXCEPT ![h] = b]
                BY <2>2, <2>4
            <4> HIDE DEF active, last
            <4>3. b \in [load : Nat, active : SUBSET Nat, last : Nat]
                BY <4>1, EngineTypes
            <4> HIDE DEF b
            <4> QED BY <4>2, <4>3
        <3>5. job' \in [Handlers -> Jobs \cup {NoJob}]
            BY <2>2, <2>4
        <3>6. \A k \in Handlers : k # h => pc'[k] = pc[k]
            BY <2>2, <2>4
        <3> QED BY <2>1, <2>2, <2>4, <3>3, <3>4, <3>5, <3>6
    <2> QED BY <2>3, <2>4
<1>4. ASSUME NEW h \in Handlers, ReadSnapshot(h) PROVE TypeOK'
    <2>1. /\ job[h] \in Jobs /\ ~Refused(job[h])
          /\ job[h].kind \in LatestKinds \cup VersionKinds /\ job[h].app \in Apps
        BY <1>4, ServedFacts DEF ReadSnapshot, LatestKinds, VersionKinds
    <2>2. UNCHANGED <<published, withdrawn, loaded, status>>
        BY <1>4 DEF ReadSnapshot
    <2>3. ASSUME NEW row \in Found(job[h]), copy' = [copy EXCEPT ![h] = Parsed(row)],
                 \/ /\ Respond(h, "OK", IdOf(copy'[h]), NoAnswer)
                    /\ Goto(h, "done")
                 \/ Goto(h, "load") /\ UNCHANGED answer,
                 UNCHANGED <<job, began>>
          PROVE  TypeOK'
        <3>1. Parsed(row) \in Snapshots
            BY <2>1, <2>3, FoundFacts, StoredTypes
        <3>2. copy'[h] = Parsed(row) /\ IdOf(copy'[h]) \in Ids
            BY <2>3, <3>1, SnapshotFacts
        <3>3. answer' \in [Handlers -> [code : ResponseCodes, id : Ids, decision : Answer]]
            <4>1. CASE UNCHANGED answer
                BY <4>1
            <4>2. CASE Respond(h, "OK", IdOf(copy'[h]), NoAnswer)
                <5>1. "OK" \in ResponseCodes
                    BY DEF ResponseCodes
                <5> HIDE DEF Respond
                <5> QED BY <3>2, <4>2, <5>1, BlankTypes, AnswerTypes
            <4> QED BY <2>3, <4>1, <4>2
        <3>4. /\ pc' \in [Handlers -> Places] /\ pc'[h] # "decide"
              /\ \A k \in Handlers : k # h => pc'[k] = pc[k] /\ copy'[k] = copy[k]
            BY <2>3 DEF Places
        <3>5. copy' \in [Handlers -> Snapshots \cup IndexedSnapshots \cup {NoSnapshot}]
            BY <2>3, <3>1
        <3> QED BY <2>2, <2>3, <3>1, <3>2, <3>3, <3>4, <3>5
    <2>4. ASSUME Refuse(h, "NOT_FOUND"), UNCHANGED copy
          PROVE  TypeOK'
        BY <2>2, <2>4, BlankTypes, ResponseTypes DEF Refuse, Places, ResponseCodes
    <2> QED BY <1>4, <2>3, <2>4 DEF ReadSnapshot
<1>5. ASSUME NEW h \in Handlers, LoadSnapshot(h) PROVE TypeOK'
    <2>1. copy[h] \in Snapshots /\ BuildIndexedSnapshot(copy[h]) \in IndexedSnapshots
        BY <1>5 DEF LoadSnapshot, IndexedSnapshots
    <2>2. IdOf(copy[h]) \in Ids
        BY <2>1, SnapshotFacts
    <2> QED BY <1>5, <2>1, <2>2, BlankTypes, ResponseTypes DEF LoadSnapshot, Places, ResponseCodes
<1>6. ASSUME NEW h \in Handlers,
             ReadHasSnapshot(h) \/ ReadAppCode(h) \/ ReadSnapshotId(h) \/ ReadPolicyVersion(h)
      PROVE TypeOK'
    <2> DEFINE S == [has : BOOLEAN, app : Apps \cup {NoApp}, id : Ids, version : Nat]
    <2>1. /\ [status[h] EXCEPT !.has = StatusOf(Engine).has] \in S
          /\ [status[h] EXCEPT !.app = StatusOf(Engine).app] \in S
          /\ [status[h] EXCEPT !.id = StatusOf(Engine).id] \in S
          /\ [status[h] EXCEPT !.version = StatusOf(Engine).version] \in S
        <3>1. status[h] \in S /\ StatusOf(Engine) \in S
            BY EngineTypes
        <3>2. \A x, y \in S : /\ [x EXCEPT !.has = y.has] \in S /\ [x EXCEPT !.app = y.app] \in S
                              /\ [x EXCEPT !.id = y.id] \in S
                              /\ [x EXCEPT !.version = y.version] \in S
            OBVIOUS
        <3> HIDE DEF S
        <3> QED BY <3>1, <3>2
    <2>2. \E to \in {"app", "id", "version", "done"} : pc' = [pc EXCEPT ![h] = to]
        BY <1>6 DEF Fill, ReadHasSnapshot, ReadAppCode, ReadSnapshotId, ReadPolicyVersion
    <2>3. \E filled \in S : status' = [status EXCEPT ![h] = filled]
        <3> HIDE DEF S
        <3>1. CASE ReadHasSnapshot(h)
            BY <2>1, <3>1 DEF Fill, ReadHasSnapshot
        <3>2. CASE ReadAppCode(h)
            BY <2>1, <3>2 DEF Fill, ReadAppCode
        <3>3. CASE ReadSnapshotId(h)
            BY <2>1, <3>3 DEF Fill, ReadSnapshotId
        <3>4. CASE ReadPolicyVersion(h)
            BY <2>1, <3>4 DEF Fill, ReadPolicyVersion
        <3> QED BY <1>6, <3>1, <3>2, <3>3, <3>4
    <2>4. /\ UNCHANGED <<published, withdrawn, loaded, job, began, copy>>
          /\ \/ UNCHANGED answer
             \/ Respond(h, "OK", <<NoApp, 0>>, NoAnswer)
        BY <1>6 DEF Fill, ReadHasSnapshot, ReadAppCode, ReadSnapshotId, ReadPolicyVersion
    <2>5. answer' \in [Handlers -> [code : ResponseCodes, id : Ids, decision : Answer]]
        <3>1. "OK" \in ResponseCodes
            BY DEF ResponseCodes
        <3> HIDE DEF Respond
        <3> QED BY <2>4, <3>1, BlankTypes, AnswerTypes
    <2>6. pc' \in [Handlers -> Places]
        BY <2>2 DEF Places
    <2> QED BY <2>2, <2>3, <2>4, <2>5, <2>6
<1>7. ASSUME NEW h \in Handlers, CopySnapshot(h) PROVE TypeOK'
    BY <1>7, EngineTypes DEF CopySnapshot, Places
<1>8. ASSUME NEW h \in Handlers, DecideLocally(h) PROVE TypeOK'
    <2>1. job[h] \in Jobs /\ job[h].check \in Requests
        BY <1>8, ServedFacts, JobFacts DEF DecideLocally
    <2>2. /\ UNCHANGED <<published, withdrawn, loaded, job, began, copy, status>>
          /\ pc' = [pc EXCEPT ![h] = "done"]
        BY <1>8 DEF DecideLocally
    <2>3. copy[h] # NoSnapshot =>
             /\ IdOf(copy[h].snapshot) \in Ids
             /\ LocalDecision(copy[h], job[h].app, job[h].check) \in Answer
        <3> SUFFICES ASSUME copy[h] # NoSnapshot
                     PROVE  /\ IdOf(copy[h].snapshot) \in Ids
                            /\ LocalDecision(copy[h], job[h].app, job[h].check) \in Answer
            OBVIOUS
        <3>1. copy[h] \in IndexedSnapshots
            BY <1>8 DEF DecideLocally
        <3>2. PICK a \in Apps, v \in 1 .. MaxVersion, d \in Policies :
                 copy[h] = BuildIndexedSnapshot(SelectPolicy(a, v, d))
            BY <3>1 DEF IndexedSnapshots, Snapshots
        <3>3. Denial("APP_NOT_FOUND") \in Answer
            BY DEF Denial, Answer, Codes
        <3>4. LocalDecision(copy[h], job[h].app, job[h].check) =
                 IF a = job[h].app THEN Decision(d, job[h].check) ELSE Denial("APP_NOT_FOUND")
            BY <2>1, <3>2, IndexAnswers
        <3>5. LocalDecision(copy[h], job[h].app, job[h].check) \in Answer
            BY <3>3, <3>4, DecisionTypes
        <3> QED BY <3>1, <3>5, SnapshotFacts
    <2>4. answer' \in [Handlers -> [code : ResponseCodes, id : Ids, decision : Answer]]
        <3>1. {"OK", "SNAPSHOT_NOT_READY"} \subseteq ResponseCodes
            BY DEF ResponseCodes
        <3> HIDE DEF Respond
        <3>2. CASE Respond(h, "SNAPSHOT_NOT_READY", <<NoApp, 0>>, NoAnswer)
            BY <3>1, <3>2, BlankTypes, AnswerTypes
        <3>3. CASE /\ copy[h] # NoSnapshot
                   /\ Respond(h, "OK", IdOf(copy[h].snapshot),
                              LocalDecision(copy[h], job[h].app, job[h].check))
            BY <2>3, <3>1, <3>3, AnswerTypes
        <3> QED BY <1>8, <3>2, <3>3 DEF DecideLocally
    <2> QED BY <2>2, <2>4 DEF Places
<1>9. ASSUME NEW h \in Handlers, Finish(h) PROVE TypeOK'
    BY <1>9, BlankTypes DEF Finish, Places
<1>10. CASE Restart
    <2>1. PICK s \in IndexedSnapshots \cup {NoSnapshot} : loaded' = Append(loaded, s)
        <3>1. ASSUME BootApp # NoApp, NEW row \in LatestRows(BootApp),
                     loaded' = Append(loaded, BuildIndexedSnapshot(Parsed(row)))
              PROVE  \E s \in IndexedSnapshots : loaded' = Append(loaded, s)
            <4>1. BootApp \in Apps
                BY <3>1, AgentAssumption
            <4>2. PICK v \in Active(BootApp) : row = Row(BootApp, v)
                BY <3>1 DEF LatestRows
            <4>3. v \in 1 .. Len(published[BootApp])
                BY DEF Active
            <4>4. Parsed(row) = Stored(BootApp, v)
                BY <4>1, <4>2, <4>3, ParsedRow, StoredTypes
            <4> QED BY <3>1, <4>1, <4>3, <4>4, StoredTypes
        <3> QED BY <1>10, <3>1 DEF Restart
    <2>2. loaded' \in Seq(IndexedSnapshots \cup {NoSnapshot}) /\ Len(loaded') > 0
        BY <2>1
    <2> QED BY <1>10, <2>2, BlankTypes DEF Restart, Places
<1>11. CASE UNCHANGED vars
    BY <1>11 DEF vars
<1> QED BY <1>1, <1>2, <1>3, <1>4, <1>5, <1>6, <1>7, <1>8, <1>9, <1>10, <1>11
        DEF Next, Serve

-----------------------------------------------------------------------------
(* The tables grow, the engine is given one published snapshot after the   *)
(* other.                                                                  *)

\* Every step that publishes writes a new version under the bound.
LEMMA PublishFacts ==
    ASSUME IInv, NEW a \in Apps, NEW d \in Policies,
           Cardinality(Versions) < MaxVersion,
           published' = [published EXCEPT ![a] = Append(@, d)]
    PROVE  Len(published[a]) < MaxVersion /\ BoundInv'
<1>1. /\ published[a] \in Seq(Policies) /\ Len(published[a]) \in Nat
      /\ published \in [Apps -> Seq(Policies)]
      /\ IsFiniteSet(Versions) /\ \A b \in Apps : Len(published[b]) <= MaxVersion
      /\ MaxVersion \in Nat
    BY AgentAssumption DEF IInv, TypeOK, BoundInv
<1> DEFINE n == Len(published[a])
           own == {a} \X (1 .. n)
<1>2. own \in SUBSET Versions
    BY <1>1 DEF Versions
<1>3. Cardinality(own) = n
    <2>1. IsFiniteSet({a}) /\ Cardinality({a}) = 1
        BY FS_Singleton
    <2>2. IsFiniteSet(1 .. n) /\ Cardinality(1 .. n) = n
        <3>1. n \in Nat
            BY <1>1
        <3> HIDE DEF n
        <3>2. /\ IsFiniteSet(1 .. n)
              /\ Cardinality(1 .. n) = IF 1 > n THEN 0 ELSE n - 1 + 1
            BY <3>1, FS_Interval
        <3> QED BY <3>1, <3>2
    <2>3. Cardinality(own) = 1 * n
        <3> DEFINE I == 1 .. n
        <3> HIDE DEF I
        <3>1. Cardinality({a} \X I) = Cardinality({a}) * Cardinality(I)
            BY <2>1, <2>2, FS_Product DEF I
        <3> QED BY <2>1, <2>2, <3>1 DEF I
    <2> QED BY <1>1, <2>3
<1>4. Cardinality(Versions) \in Nat /\ Cardinality(own) <= Cardinality(Versions)
    BY <1>1, <1>2, FS_Subset, FS_CardinalityType
<1>5. n < MaxVersion
    BY <1>1, <1>3, <1>4
<1>6. \A b \in Apps : published'[b] = IF b = a THEN Append(published[a], d) ELSE published[b]
    BY <1>1
<1>7. \A b \in Apps : Len(published'[b]) = IF b = a THEN n + 1 ELSE Len(published[b])
    BY <1>1, <1>6
<1>8. Versions' = Versions \cup {<<a, n + 1>>}
    <2> HIDE DEF n
    <2>1. n \in Nat /\ n = Len(published[a])
        BY <1>1 DEF n
    <2>2. \A e \in Apps \X (1 .. MaxVersion) :
             e[2] <= Len(published'[e[1]]) <=> e[2] <= Len(published[e[1]]) \/ e = <<a, n + 1>>
        <3> SUFFICES ASSUME NEW b \in Apps, NEW v \in 1 .. MaxVersion
                     PROVE  v <= Len(published'[b])
                            <=> v <= Len(published[b]) \/ (b = a /\ v = n + 1)
            OBVIOUS
        <3>1. CASE b = a
            BY <1>7, <2>1, <3>1
        <3>2. CASE b # a
            BY <1>7, <3>2
        <3> QED BY <3>1, <3>2
    <2>3. <<a, n + 1>> \in Apps \X (1 .. MaxVersion)
        BY <1>1, <1>5, <2>1
    <2> QED BY <2>2, <2>3 DEF Versions
<1>9. IsFiniteSet(Versions')
    BY <1>1, <1>8, FS_AddElement
<1>10. \A b \in Apps : Len(published'[b]) <= MaxVersion
    BY <1>1, <1>5, <1>7
<1> QED BY <1>5, <1>9, <1>10 DEF BoundInv

LEMMA BoundStep == IInv /\ [Next]_vars => BoundInv'
<1> SUFFICES ASSUME IInv, [Next]_vars PROVE BoundInv'
    OBVIOUS
<1>1. CASE Publish
    BY <1>1, PublishFacts DEF Publish
<1>2. CASE published' = published
    BY <1>2 DEF IInv, BoundInv, Versions
<1>3. ASSUME NEW h \in Handlers, Serve(h) PROVE published' = published
    BY <1>3 DEF Serve, Receive, ReadSnapshot, LoadSnapshot, Fill, ReadHasSnapshot, ReadAppCode,
                ReadSnapshotId, ReadPolicyVersion, CopySnapshot, DecideLocally, Finish
<1>4. Withdraw \/ Restart \/ UNCHANGED vars => published' = published
    BY DEF Withdraw, Restart, vars
<1> QED BY <1>1, <1>2, <1>3, <1>4 DEF Next

\* Versions are only added, and a row that was withdrawn stays so.
TablesGrow ==
    /\ \A a \in Apps :
          /\ Len(published[a]) <= Len(published'[a])
          /\ \A v \in 1 .. Len(published[a]) :
                published'[a][v] = published[a][v] /\ Stored(a, v)' = Stored(a, v)
    /\ withdrawn \subseteq withdrawn'

LEMMA TablesStep == IInv /\ [Next]_vars => TablesGrow
<1> SUFFICES ASSUME IInv, [Next]_vars PROVE TablesGrow
    OBVIOUS
<1>0. published \in [Apps -> Seq(Policies)] /\ \A a \in Apps : Len(published[a]) \in Nat
    BY DEF IInv, TypeOK
<1>1. CASE Publish
    <2>1. PICK a \in Apps, d \in Policies : published' = [published EXCEPT ![a] = Append(@, d)]
        BY <1>1 DEF Publish
    <2>2. ASSUME NEW b \in Apps
          PROVE  /\ Len(published[b]) <= Len(published'[b])
                 /\ \A v \in 1 .. Len(published[b]) : published'[b][v] = published[b][v]
        BY <1>0, <2>1
    <2> QED BY <1>1, <2>2 DEF TablesGrow, Publish, Stored
<1>2. CASE published' = published /\ withdrawn \subseteq withdrawn'
    BY <1>0, <1>2 DEF TablesGrow, Stored
<1>3. ASSUME NEW h \in Handlers, Serve(h) PROVE UNCHANGED <<published, withdrawn>>
    BY <1>3 DEF Serve, Receive, ReadSnapshot, LoadSnapshot, Fill, ReadHasSnapshot, ReadAppCode,
                ReadSnapshotId, ReadPolicyVersion, CopySnapshot, DecideLocally, Finish
<1>4. Withdraw \/ Restart \/ UNCHANGED vars => published' = published /\ withdrawn \subseteq withdrawn'
    BY DEF Withdraw, Restart, vars
<1> QED BY <1>1, <1>2, <1>3, <1>4 DEF Next

\* The engine is given published snapshots, unless a restart leaves it empty.
EngineKeeps ==
    \/ loaded' = loaded
    \/ \E s : Given(s) /\ s # NoSnapshot /\ loaded' = Append(loaded, s)

LEMMA RestartLoads ==
    ASSUME IInv, Restart
    PROVE  EngineKeeps \/ loaded' = Append(loaded, NoSnapshot)
<1>1. ASSUME BootApp # NoApp, NEW row \in LatestRows(BootApp),
             loaded' = Append(loaded, BuildIndexedSnapshot(Parsed(row)))
      PROVE  EngineKeeps
    <2>1. BootApp \in Apps
        BY <1>1, AgentAssumption
    <2>2. PICK v \in Active(BootApp) : row = Row(BootApp, v)
        BY <1>1 DEF LatestRows
    <2>3. v \in 1 .. Len(published[BootApp])
        BY DEF Active
    <2>4. Parsed(row) = Stored(BootApp, v)
        BY <2>1, <2>2, <2>3, ParsedRow, StoredTypes DEF IInv
    <2>5. BuildIndexedSnapshot(Stored(BootApp, v)) # NoSnapshot
        BY <2>1, <2>3, StoredTypes DEF IInv
    <2> QED BY <1>1, <2>1, <2>3, <2>4, <2>5 DEF EngineKeeps, Given
<1> QED BY <1>1 DEF Restart

LEMMA LoadGives ==
    ASSUME IInv, NEW h \in Handlers, LoadSnapshot(h)
    PROVE  /\ Given(BuildIndexedSnapshot(copy[h]))
           /\ BuildIndexedSnapshot(copy[h]) # NoSnapshot
           /\ EngineKeeps
<1>1. job[h].app \in Apps /\ ReadInv(h) /\ pc[h] = "load"
    BY ServedFacts DEF LoadSnapshot, ActivateKinds
<1>2. PICK v \in 1 .. Len(published[job[h].app]) : copy[h] = Stored(job[h].app, v)
    BY <1>1 DEF ReadInv
<1>3. /\ Given(BuildIndexedSnapshot(copy[h]))
      /\ BuildIndexedSnapshot(copy[h]) # NoSnapshot
    BY <1>1, <1>2, StoredTypes DEF Given, IInv
<1> QED BY <1>3 DEF LoadSnapshot, EngineKeeps

LEMMA EngineStep == IInv /\ [Next]_vars => EngineKeeps \/ (Restart /\ loaded' = Append(loaded, NoSnapshot))
<1> SUFFICES ASSUME IInv, [Next]_vars
             PROVE  EngineKeeps \/ (Restart /\ loaded' = Append(loaded, NoSnapshot))
    OBVIOUS
<1>1. ASSUME NEW h \in Handlers, Serve(h), ~LoadSnapshot(h) PROVE loaded' = loaded
    BY <1>1 DEF Serve, Receive, ReadSnapshot, Fill, ReadHasSnapshot, ReadAppCode,
                ReadSnapshotId, ReadPolicyVersion, CopySnapshot, DecideLocally, Finish
<1>2. Publish \/ Withdraw \/ UNCHANGED vars => loaded' = loaded
    BY DEF Publish, Withdraw, vars
<1> QED BY <1>1, <1>2, LoadGives, RestartLoads DEF Next, EngineKeeps

LEMMA LoadedStep == IInv /\ [Next]_vars => LoadedInv'
<1> SUFFICES ASSUME IInv, [Next]_vars PROVE LoadedInv'
    OBVIOUS
<1>1. loaded \in Seq(IndexedSnapshots \cup {NoSnapshot}) /\ Len(loaded) \in Nat
    BY DEF IInv, TypeOK
<1>2. \A s : Given(s) => Given(s)'
    <2> SUFFICES ASSUME NEW s, Given(s) PROVE Given(s)'
        OBVIOUS
    <2>1. PICK a \in Apps : \E v \in 1 .. Len(published[a]) : s = BuildIndexedSnapshot(Stored(a, v))
        BY DEF Given
    <2>2. PICK v \in 1 .. Len(published[a]) : s = BuildIndexedSnapshot(Stored(a, v))
        BY <2>1
    <2>3. Stored(a, v)' = Stored(a, v) /\ Len(published[a]) <= Len(published'[a])
        BY TablesStep DEF TablesGrow
    <2>4. Len(published[a]) \in Nat /\ Len(published'[a]) \in Nat
        BY TypeStep DEF IInv, TypeOK
    <2>5. v \in 1 .. Len(published'[a])
        BY <2>3, <2>4
    <2> QED BY <2>2, <2>3, <2>5 DEF Given
<1>3. \A i \in 1 .. Len(loaded) : loaded[i] # NoSnapshot => Given(loaded[i])
    BY DEF IInv, LoadedInv
<1>4. ASSUME NEW i \in 1 .. Len(loaded'), loaded'[i] # NoSnapshot
      PROVE  Given(loaded'[i])
    <2>1. CASE loaded' = loaded
        BY <1>3, <1>4, <2>1
    <2>2. ASSUME NEW s, loaded' = Append(loaded, s), s = NoSnapshot \/ Given(s)
          PROVE  Given(loaded'[i])
        <3>1. CASE i = Len(loaded) + 1
            BY <1>1, <1>4, <2>2, <3>1
        <3>2. CASE i # Len(loaded) + 1
            <4>1. i \in 1 .. Len(loaded) /\ loaded'[i] = loaded[i]
                BY <1>1, <2>2, <3>2
            <4> QED BY <1>3, <1>4, <4>1
        <3> QED BY <3>1, <3>2
    <2> QED BY <2>1, <2>2, EngineStep DEF EngineKeeps
<1> QED BY <1>2, <1>4 DEF LoadedInv

-----------------------------------------------------------------------------
(* A call under way, and what the others do meanwhile.                     *)

\* What the engine has held stays; what it is given is not nothing.
LEMMA EngineHistory ==
    ASSUME IInv, [Next]_vars, EngineKeeps
    PROVE  /\ Len(loaded) \in Nat /\ Len(loaded') \in Nat /\ Len(loaded) <= Len(loaded')
           /\ \A i \in 1 .. Len(loaded) : loaded'[i] = loaded[i]
           /\ \A i \in 1 .. Len(loaded') : i \notin 1 .. Len(loaded) => loaded'[i] # NoSnapshot
<1>1. loaded \in Seq(IndexedSnapshots \cup {NoSnapshot}) /\ Len(loaded) \in Nat
    BY DEF IInv, TypeOK
<1>2. CASE loaded' = loaded
    BY <1>1, <1>2
<1>3. ASSUME NEW s, s # NoSnapshot, loaded' = Append(loaded, s)
      PROVE  /\ Len(loaded') = Len(loaded) + 1
             /\ \A i \in 1 .. Len(loaded) : loaded'[i] = loaded[i]
             /\ loaded'[Len(loaded) + 1] # NoSnapshot
    BY <1>1, <1>3
<1> QED BY <1>1, <1>2, <1>3 DEF EngineKeeps

LEMMA KeepBegan ==
    ASSUME IInv, [Next]_vars, EngineKeeps, NEW h \in Handlers, BeganInv(h),
           UNCHANGED <<job[h], began[h]>>,
           job[h].kind # "status" => job[h].app \in Apps
    PROVE  BeganInv(h)'
<1>1. /\ began[h].load \in 1 .. Len(loaded) /\ began[h].load \in Nat
      /\ loaded[began[h].load] # NoSnapshot =>
             \A i \in began[h].load .. Len(loaded) : loaded[i] # NoSnapshot
    BY DEF BeganInv, IInv, TypeOK
<1>2. began'[h].load \in 1 .. Len(loaded')
    BY <1>1, EngineHistory
<1>3. ASSUME loaded'[began'[h].load] # NoSnapshot, NEW i \in began'[h].load .. Len(loaded')
      PROVE  loaded'[i] # NoSnapshot
    <2>1. loaded[began[h].load] # NoSnapshot
        BY <1>1, <1>3, EngineHistory
    <2>2. CASE i \in 1 .. Len(loaded)
        <3>1. i \in began[h].load .. Len(loaded)
            BY <1>1, <1>3, <2>2, EngineHistory
        <3> QED BY <1>1, <2>1, <2>2, <3>1, EngineHistory
    <2>3. CASE i \notin 1 .. Len(loaded)
        <3>1. i \in 1 .. Len(loaded')
            BY <1>1, <1>2, <1>3, EngineHistory
        <3> QED BY <2>3, <3>1, EngineHistory
    <2> QED BY <2>2, <2>3
<1>4. ASSUME job'[h].kind \in LatestKinds
      PROVE  /\ began'[h].last <= Len(published'[job'[h].app])
             /\ began'[h].active \subseteq 1 .. began'[h].last
             /\ \A n \in 1 .. began'[h].last :
                   n \in began'[h].active \/ <<job'[h].app, n>> \in withdrawn'
    <2>1. job[h].app \in Apps
        BY <1>4 DEF LatestKinds
    <2>2. /\ Len(published[job[h].app]) <= Len(published'[job[h].app])
          /\ withdrawn \subseteq withdrawn'
        BY <2>1, TablesStep DEF TablesGrow
    <2>3. /\ Len(published[job[h].app]) \in Nat /\ Len(published'[job[h].app]) \in Nat
          /\ began[h].last \in Nat
        BY <2>1, TypeStep DEF IInv, TypeOK
    <2> QED BY <1>4, <2>2, <2>3 DEF BeganInv
<1> QED BY <1>2, <1>3, <1>4 DEF BeganInv

LEMMA KeepFresh ==
    ASSUME IInv, [Next]_vars, NEW h \in Handlers, NEW v, Fresh(h, v),
           UNCHANGED <<job[h], began[h]>>
    PROVE  Fresh(h, v)'
<1>1. withdrawn \subseteq withdrawn'
    BY TablesStep DEF TablesGrow
<1> QED BY <1>1 DEF Fresh

LEMMA KeepStored ==
    ASSUME IInv, [Next]_vars, NEW a \in Apps, NEW v \in 1 .. Len(published[a])
    PROVE  /\ v \in 1 .. Len(published'[a])
           /\ published'[a][v] = published[a][v]
           /\ Stored(a, v)' = Stored(a, v)
<1>1. Len(published[a]) \in Nat /\ Len(published'[a]) \in Nat
    BY TypeStep DEF IInv, TypeOK
<1>2. /\ Len(published[a]) <= Len(published'[a])
      /\ published'[a][v] = published[a][v] /\ Stored(a, v)' = Stored(a, v)
    BY TablesStep DEF TablesGrow
<1> QED BY <1>1, <1>2

LEMMA KeepDone ==
    ASSUME IInv, [Next]_vars, EngineKeeps, NEW h \in Handlers, DoneInv(h), BeganInv(h),
           UNCHANGED <<pc[h], job[h], began[h], answer[h]>>
    PROVE  DoneInv(h)'
<1> SUFFICES ASSUME pc[h] = "done" PROVE DoneInv(h)'
    BY DEF DoneInv
<1>0. began[h].load \in 1 .. Len(loaded) /\ began[h].load \in Nat
    BY DEF BeganInv, IInv, TypeOK
<1>1. answer'[h].code = "SNAPSHOT_NOT_READY" => loaded'[began'[h].load] = NoSnapshot
    BY <1>0, EngineHistory DEF DoneInv
<1>2. job'[h].kind \in LatestKinds /\ answer'[h].code = "OK" => Fresh(h, answer[h].id[2])'
    <2>1. \A v : Fresh(h, v) => Fresh(h, v)'
        BY KeepFresh
    <2>2. job[h].kind \in LatestKinds /\ answer[h].code = "OK" => Fresh(h, answer[h].id[2])
        BY DEF DoneInv
    <2>3. Fresh(h, answer[h].id[2]) => Fresh(h, answer[h].id[2])'
        BY <2>1 DEF Fresh
    <2> QED BY <2>2, <2>3
<1>3. ASSUME job'[h].kind \in ActivateKinds, answer'[h].code = "OK"
      PROVE  \E i \in (began'[h].load + 1) .. Len(loaded') :
                 /\ loaded'[i] # NoSnapshot
                 /\ answer'[h].id = IdOf(loaded'[i].snapshot)
                 /\ answer'[h].id[1] = job'[h].app
    <2>1. PICK i \in (began[h].load + 1) .. Len(loaded) :
                 /\ loaded[i] # NoSnapshot
                 /\ answer[h].id = IdOf(loaded[i].snapshot)
                 /\ answer[h].id[1] = job[h].app
        BY <1>3 DEF DoneInv
    <2>2. i \in (began[h].load + 1) .. Len(loaded') /\ i \in 1 .. Len(loaded)
        BY <1>0, EngineHistory
    <2>3. loaded'[i] = loaded[i]
        BY <2>2, EngineHistory
    <2> QED BY <2>1, <2>2, <2>3
<1>4. ASSUME job'[h].kind = "check", answer'[h].code = "OK"
      PROVE  \E i \in began'[h].load .. Len(loaded') :
                 /\ loaded'[i] # NoSnapshot
                 /\ \E a \in Apps : \E v \in 1 .. Len(published'[a]) :
                       /\ loaded'[i] = BuildIndexedSnapshot(Stored(a, v)')
                       /\ answer'[h].id = <<a, v>>
                       /\ answer'[h].decision =
                             IF a = job'[h].app THEN Decision(published'[a][v], job'[h].check)
                             ELSE Denial("APP_NOT_FOUND")
    <2>1. PICK i \in began[h].load .. Len(loaded) :
                 /\ loaded[i] # NoSnapshot
                 /\ \E a \in Apps : \E v \in 1 .. Len(published[a]) :
                       /\ loaded[i] = BuildIndexedSnapshot(Stored(a, v))
                       /\ answer[h].id = <<a, v>>
                       /\ answer[h].decision =
                             IF a = job[h].app THEN Decision(published[a][v], job[h].check)
                             ELSE Denial("APP_NOT_FOUND")
        BY <1>4 DEF DoneInv
    <2>2. i \in began[h].load .. Len(loaded') /\ i \in 1 .. Len(loaded)
        BY <1>0, EngineHistory
    <2>3. loaded'[i] = loaded[i]
        BY <2>2, EngineHistory
    <2>4. PICK a \in Apps : \E v \in 1 .. Len(published[a]) :
                       /\ loaded[i] = BuildIndexedSnapshot(Stored(a, v))
                       /\ answer[h].id = <<a, v>>
                       /\ answer[h].decision =
                             IF a = job[h].app THEN Decision(published[a][v], job[h].check)
                             ELSE Denial("APP_NOT_FOUND")
        BY <2>1
    <2>5. PICK v \in 1 .. Len(published[a]) :
                       /\ loaded[i] = BuildIndexedSnapshot(Stored(a, v))
                       /\ answer[h].id = <<a, v>>
                       /\ answer[h].decision =
                             IF a = job[h].app THEN Decision(published[a][v], job[h].check)
                             ELSE Denial("APP_NOT_FOUND")
        BY <2>4
    <2>6. /\ v \in 1 .. Len(published'[a]) /\ published'[a][v] = published[a][v]
          /\ Stored(a, v)' = Stored(a, v)
        BY KeepStored
    <2> QED BY <2>1, <2>2, <2>3, <2>5, <2>6
<1> QED BY <1>1, <1>2, <1>3, <1>4 DEF DoneInv

LEMMA KeepCall ==
    ASSUME IInv, [Next]_vars, EngineKeeps, NEW h \in Handlers,
           UNCHANGED <<pc[h], job[h], began[h], copy[h], status[h], answer[h]>>
    PROVE  CallInv(h)'
<1>1. CallInv(h) /\ job[h] \in Jobs \cup {NoJob}
    BY DEF IInv, TypeOK
<1>2. CASE job[h] = NoJob
    BY <1>1, <1>2 DEF CallInv
<1>3. CASE job[h] # NoJob
    <2>1. /\ pc[h] \in PlacesOf(job[h].kind) /\ ~Refused(job[h])
          /\ BeganInv(h) /\ ReadInv(h) /\ StatusInv(h) /\ DoneInv(h)
          /\ pc[h] = "decide" =>
               \E i \in began[h].load .. Len(loaded) : copy[h] = loaded[i]
        BY <1>1, <1>3 DEF CallInv
    <2>2. job[h] \in Jobs /\ (job[h].kind # "status" => job[h].app \in Apps)
        BY <1>1, <1>3, <2>1, JobFacts
    <2>3. BeganInv(h)' /\ DoneInv(h)'
        BY <2>1, <2>2, KeepBegan, KeepDone
    <2>4. ReadInv(h)'
        <3> SUFFICES ASSUME pc[h] = "load" PROVE ReadInv(h)'
            BY DEF ReadInv
        <3>1. job[h].app \in Apps
            BY ServedFacts DEF ActivateKinds
        <3>2. PICK v \in 1 .. Len(published[job[h].app]) :
                 /\ copy[h] = Stored(job[h].app, v)
                 /\ job[h].kind \in LatestKinds => Fresh(h, v)
            BY <2>1 DEF ReadInv
        <3>3. v \in 1 .. Len(published'[job[h].app]) /\ Stored(job[h].app, v)' = Stored(job[h].app, v)
            BY <3>1, KeepStored DEF Stored
        <3>4. job'[h].kind \in LatestKinds => Fresh(h, v)'
            BY <3>2, KeepFresh
        <3> QED BY <3>2, <3>3, <3>4 DEF ReadInv, Stored
    <2>5. StatusInv(h)'
        <3>1. Engine # NoSnapshot => Engine' # NoSnapshot
            BY EngineHistory, EngineTypes DEF Engine, IInv
        <3>2. ASSUME job[h].kind = "status", pc[h] \in {"app", "id", "version", "done"}
              PROVE  \E i, j, k, n \in began[h].load .. Len(loaded') :
                        ReadFrom(status'[h], pc'[h], loaded', i, j, k, n)
            <4>1. PICK i, j, k, n \in began[h].load .. Len(loaded) :
                     ReadFrom(status[h], pc[h], loaded, i, j, k, n)
                BY <2>1, <3>2 DEF StatusInv
            <4>2. \A m \in began[h].load .. Len(loaded) :
                     m \in began[h].load .. Len(loaded') /\ loaded'[m] = loaded[m]
                BY <2>1, EngineHistory DEF BeganInv, IInv, TypeOK
            <4>3. ReadFrom(status'[h], pc'[h], loaded', i, j, k, n)
                BY <4>1, <4>2 DEF ReadFrom
            <4> QED BY <4>2, <4>3
        <3> QED BY <2>1, <3>1, <3>2 DEF StatusInv
    <2>6. pc'[h] = "decide" => \E i \in began'[h].load .. Len(loaded') : copy'[h] = loaded'[i]
        <3> SUFFICES ASSUME pc[h] = "decide"
                     PROVE  \E i \in began[h].load .. Len(loaded') : copy[h] = loaded'[i]
            OBVIOUS
        <3>1. PICK i \in began[h].load .. Len(loaded) : copy[h] = loaded[i]
            BY <2>1
        <3>2. began[h].load \in Nat /\ began[h].load > 0
            BY <2>1 DEF BeganInv, IInv, TypeOK
        <3>3. i \in 1 .. Len(loaded) /\ i \in began[h].load .. Len(loaded')
            BY <3>2, EngineHistory
        <3> QED BY <3>1, <3>3, EngineHistory
    <2> QED BY <1>3, <2>1, <2>3, <2>4, <2>5, <2>6 DEF CallInv
<1> QED BY <1>2, <1>3

-----------------------------------------------------------------------------
(* The steps of the call itself.                                           *)

LEMMA ReceiveStep ==
    ASSUME IInv, NEW h \in Handlers, Receive(h)
    PROVE  CallInv(h)'
<1> USE DEF Goto, Respond
<1>0. TypeOK
    BY DEF IInv
<1>1. UNCHANGED <<published, withdrawn, loaded>> /\ pc[h] = "idle"
    BY DEF Receive
<1>2. CASE Refuse(h, "INVALID_ARGUMENT")
    BY <1>0, <1>2 DEF Refuse, Response, TypeOK, CallInv
<1>3. ASSUME NEW j \in Jobs, ~Refused(j), Goto(h, FirstPlace(j)), job' = [job EXCEPT ![h] = j],
             began' = [began EXCEPT ![h] =
                [load |-> Len(loaded),
                 active |-> IF j.kind \in LatestKinds /\ j.app # NoApp THEN Active(j.app) ELSE {},
                 last |-> IF j.kind \in LatestKinds /\ j.app # NoApp
                          THEN Len(published[j.app]) ELSE 0]]
      PROVE  CallInv(h)'
    <2>1. /\ job'[h] = j /\ j # NoJob /\ pc'[h] = FirstPlace(j)
          /\ began'[h].load = Len(loaded)
        BY <1>0, <1>3, SentinelAssumption DEF TypeOK
    <2>2. j.kind \in LatestKinds => /\ j.app \in Apps
                                    /\ began'[h].active = Active(j.app)
                                    /\ began'[h].last = Len(published[j.app])
        <3>1. j.kind \in LatestKinds => j.app \in Apps /\ j.app # NoApp
            BY <1>3, JobFacts, AgentAssumption DEF LatestKinds
        <3> QED BY <1>0, <1>3, <3>1 DEF TypeOK
    <2>3. BeganInv(h)'
        <3>1. Len(loaded) \in Nat /\ Len(loaded) \in 1 .. Len(loaded)
            BY <1>0, EngineTypes
        <3>2. j.kind \in LatestKinds => Len(published[j.app]) \in Nat
            BY <1>0, <2>2 DEF TypeOK
        <3>3. \A i \in Len(loaded) .. Len(loaded) : i = Len(loaded)
            BY <3>1
        <3>4. /\ began'[h].load \in 1 .. Len(loaded')
              /\ loaded'[began'[h].load] # NoSnapshot =>
                    \A i \in began'[h].load .. Len(loaded') : loaded'[i] # NoSnapshot
            BY <1>1, <2>1, <3>1, <3>3
        <3>5. j.kind \in LatestKinds =>
                 /\ began'[h].last <= Len(published[j.app])
                 /\ began'[h].active \subseteq 1 .. began'[h].last
                 /\ \A n \in 1 .. began'[h].last :
                       n \in began'[h].active \/ <<j.app, n>> \in withdrawn
            <4> SUFFICES ASSUME j.kind \in LatestKinds
                         PROVE  /\ began'[h].last <= Len(published[j.app])
                                /\ began'[h].active \subseteq 1 .. began'[h].last
                                /\ \A n \in 1 .. began'[h].last :
                                      n \in began'[h].active \/ <<j.app, n>> \in withdrawn
                OBVIOUS
            <4>1. Active(j.app) = {n \in 1 .. Len(published[j.app]) : <<j.app, n>> \notin withdrawn}
                BY DEF Active
            <4>2. /\ began'[h].active = Active(j.app) /\ began'[h].last = Len(published[j.app])
                  /\ Len(published[j.app]) \in Nat
                BY <2>2, <3>2
            <4>3. began'[h].active \subseteq 1 .. began'[h].last
                BY <4>1, <4>2
            <4>4. \A n \in 1 .. began'[h].last : n \in began'[h].active \/ <<j.app, n>> \in withdrawn
                BY <4>1, <4>2
            <4> QED BY <4>2, <4>3, <4>4
        <3> QED BY <1>1, <2>1, <3>4, <3>5 DEF BeganInv
    <2>4. pc'[h] \in PlacesOf(j.kind) /\ pc'[h] \in {"has", "copy", "read"}
        BY <2>1, JobFacts
           DEF FirstPlace, PlacesOf, LatestKinds, VersionKinds, PullKinds, ActivateKinds
    <2>5. ReadInv(h)' /\ StatusInv(h)' /\ DoneInv(h)'
        BY <2>4 DEF ReadInv, StatusInv, DoneInv
    <2> QED BY <1>3, <2>1, <2>3, <2>4, <2>5 DEF CallInv
<1> QED BY <1>2, <1>3 DEF Receive

\* The rows found now are fresh for a call that wants the latest.
LEMMA FoundFresh ==
    ASSUME IInv, NEW h \in Handlers, pc[h] = "read", job[h].kind \in LatestKinds,
           NEW v \in Active(job[h].app), \A m \in Active(job[h].app) : m <= v
    PROVE  Fresh(h, v)
<1>1. BeganInv(h) /\ job[h].app \in Apps /\ job[h].kind # "status"
    BY ServedFacts DEF LatestKinds
<1>2. /\ began[h].last <= Len(published[job[h].app])
      /\ began[h].active \subseteq 1 .. began[h].last
      /\ \A n \in 1 .. began[h].last :
            n \in began[h].active \/ <<job[h].app, n>> \in withdrawn
    BY <1>1 DEF BeganInv
<1>3. began[h].last \in Nat /\ Len(published[job[h].app]) \in Nat
    BY <1>1 DEF IInv, TypeOK
<1>4. \A n \in 1 .. Len(published[job[h].app]) :
         n \in Active(job[h].app) <=> <<job[h].app, n>> \notin withdrawn
    BY DEF Active
<1>5. v \in 1 .. Len(published[job[h].app]) /\ <<job[h].app, v>> \notin withdrawn
    BY DEF Active
<1>6. ASSUME NEW n \in began[h].active, n > v
      PROVE  <<job[h].app, n>> \in withdrawn
    <2>1. n \in 1 .. Len(published[job[h].app])
        BY <1>2, <1>3
    <2>2. n \notin Active(job[h].app)
        BY <1>5, <1>6, <2>1
    <2> QED BY <1>4, <2>1, <2>2
<1>7. v \in began[h].active \/ v > began[h].last
    BY <1>2, <1>3, <1>5
<1> QED BY <1>6, <1>7 DEF Fresh

LEMMA ReadSnapshotStep ==
    ASSUME IInv, [Next]_vars, NEW h \in Handlers, ReadSnapshot(h)
    PROVE  CallInv(h)'
<1>0. TypeOK /\ BoundInv
    BY DEF IInv
<1>1. /\ job[h] \in Jobs /\ job[h] # NoJob /\ ~Refused(job[h]) /\ job[h].app \in Apps
      /\ job[h].kind \in LatestKinds \cup VersionKinds /\ BeganInv(h)
      /\ pc[h] = "read"
    BY ServedFacts DEF ReadSnapshot, LatestKinds, VersionKinds
<1>2. UNCHANGED <<published, withdrawn, loaded, status>>
    BY DEF ReadSnapshot
<1>3. ASSUME NEW row \in Found(job[h]), copy' = [copy EXCEPT ![h] = Parsed(row)],
             \/ /\ job[h].kind \in PullKinds
                /\ Respond(h, "OK", IdOf(copy'[h]), NoAnswer)
                /\ Goto(h, "done")
             \/ job[h].kind \notin PullKinds /\ Goto(h, "load") /\ UNCHANGED answer,
             UNCHANGED <<job, began>>
      PROVE  CallInv(h)'
    <2>1. PICK v \in 1 .. Len(published[job[h].app]) :
              /\ Parsed(row) = Stored(job[h].app, v)
              /\ job[h].kind \in LatestKinds =>
                    v \in Active(job[h].app) /\ \A m \in Active(job[h].app) : m <= v
        BY <1>0, <1>1, <1>3, FoundFacts
    <2>2. job[h].kind \in LatestKinds => Fresh(h, v)
        BY <1>1, <2>1, FoundFresh
    <2>3. copy'[h] = Stored(job[h].app, v) /\ IdOf(copy'[h]) = <<job[h].app, v>>
        BY <1>0, <1>3, <2>1, SelectFacts DEF TypeOK, Stored
    <2>4. BeganInv(h)'
        BY <1>1, <1>2, <1>3 DEF BeganInv
    <2>5. Fresh(h, v) => Fresh(h, v)'
        BY <1>2, <1>3 DEF Fresh
    <2>6. StatusInv(h)'
        BY <1>1, <1>3 DEF StatusInv, LatestKinds, VersionKinds
    <2>7. CASE job[h].kind \in PullKinds
        <3>1. /\ pc'[h] = "done" /\ answer'[h].code = "OK"
              /\ answer'[h].id = <<job[h].app, v>>
            BY <1>0, <1>3, <2>3, <2>7 DEF TypeOK, Goto, Respond, Response
        <3>2. job[h].kind \notin ActivateKinds /\ job[h].kind # "check"
            BY <2>7 DEF PullKinds, ActivateKinds
        <3>3. job[h].kind \in LatestKinds => Fresh(h, answer[h].id[2])'
            BY <2>2, <2>5, <3>1 DEF Fresh
        <3>4. DoneInv(h)' /\ ReadInv(h)'
            BY <1>3, <3>1, <3>2, <3>3 DEF DoneInv, ReadInv
        <3>5. pc'[h] \in PlacesOf(job[h].kind)
            BY <2>7, <3>1 DEF PlacesOf, PullKinds, ActivateKinds
        <3> QED BY <1>1, <1>3, <2>4, <2>6, <3>1, <3>4, <3>5 DEF CallInv
    <2>8. CASE job[h].kind \notin PullKinds
        <3>1. pc'[h] = "load"
            BY <1>0, <1>3, <2>8 DEF TypeOK, Goto
        <3>2. ReadInv(h)' /\ DoneInv(h)'
            <4>1. Stored(job[h].app, v)' = Stored(job[h].app, v)
                BY <1>2, <1>3 DEF Stored
            <4> QED BY <1>2, <1>3, <2>2, <2>3, <2>5, <3>1, <4>1 DEF ReadInv, DoneInv, Stored
        <3>3. pc'[h] \in PlacesOf(job[h].kind)
            BY <1>1, <2>8, <3>1
               DEF PlacesOf, PullKinds, ActivateKinds, LatestKinds, VersionKinds
        <3> QED BY <1>1, <1>3, <2>4, <2>6, <3>1, <3>2, <3>3 DEF CallInv
    <2> QED BY <2>7, <2>8
<1>4. CASE Refuse(h, "NOT_FOUND")
    BY <1>0, <1>4 DEF Refuse, Respond, Goto, Response, TypeOK, CallInv
<1> QED BY <1>3, <1>4 DEF ReadSnapshot

LEMMA LoadSnapshotStep ==
    ASSUME IInv, [Next]_vars, NEW h \in Handlers, LoadSnapshot(h)
    PROVE  CallInv(h)'
<1>0. TypeOK
    BY DEF IInv
<1>1. /\ job[h] \in Jobs /\ job[h] # NoJob /\ ~Refused(job[h]) /\ job[h].app \in Apps
      /\ job[h].kind \in ActivateKinds /\ BeganInv(h) /\ ReadInv(h)
      /\ pc[h] = "load"
    BY ServedFacts DEF LoadSnapshot, ActivateKinds
<1>2. UNCHANGED <<published, withdrawn, job, began, copy, status>>
    BY DEF LoadSnapshot
<1>3. PICK v \in 1 .. Len(published[job[h].app]) :
         /\ copy[h] = Stored(job[h].app, v)
         /\ job[h].kind \in LatestKinds => Fresh(h, v)
    BY <1>1 DEF ReadInv
<1> DEFINE i == Len(loaded) + 1
<1>4. /\ loaded' = Append(loaded, BuildIndexedSnapshot(copy[h]))
      /\ Len(loaded) \in Nat
      /\ i \in 1 .. Len(loaded') /\ loaded'[i] = BuildIndexedSnapshot(copy[h])
    BY <1>0 DEF LoadSnapshot, TypeOK
<1>5. /\ IdOf(copy[h]) = <<job[h].app, v>>
      /\ BuildIndexedSnapshot(copy[h]).snapshot = copy[h]
    BY <1>3, SelectFacts DEF Stored
<1>6. /\ pc'[h] = "done" /\ answer'[h].code = "OK" /\ answer'[h].id = <<job[h].app, v>>
    BY <1>0, <1>5 DEF LoadSnapshot, TypeOK, Goto, Respond, Response
<1>7. BeganInv(h)'
    BY <1>1, <1>2, LoadGives, KeepBegan
<1>8. DoneInv(h)'
    <2>1. job[h].kind \in LatestKinds => Fresh(h, answer[h].id[2])'
        BY <1>2, <1>3, <1>6 DEF Fresh
    <2>2. /\ i \in (began'[h].load + 1) .. Len(loaded')
          /\ loaded'[i] # NoSnapshot
          /\ answer'[h].id = IdOf(loaded'[i].snapshot)
          /\ answer'[h].id[1] = job'[h].app
        <3>1. began'[h].load \in Nat /\ began'[h].load <= Len(loaded)
            BY <1>0, <1>1, <1>2 DEF BeganInv, TypeOK
        <3>2. i \in (began'[h].load + 1) .. Len(loaded')
            BY <1>4, <3>1
        <3> QED BY <1>2, <1>4, <1>5, <1>6, <3>2, LoadGives
    <2>3. job[h].kind # "check"
        BY <1>1 DEF ActivateKinds
    <2> HIDE DEF i
    <2> QED BY <1>2, <1>6, <2>1, <2>2, <2>3 DEF DoneInv
<1>9. ReadInv(h)' /\ StatusInv(h)'
    BY <1>1, <1>2, <1>6 DEF ReadInv, StatusInv, ActivateKinds
<1>10. pc'[h] \in PlacesOf(job[h].kind)
    BY <1>1, <1>6 DEF PlacesOf, PullKinds, ActivateKinds
<1> QED BY <1>1, <1>2, <1>6, <1>7, <1>8, <1>9, <1>10 DEF CallInv

LEMMA FillStep ==
    ASSUME IInv, [Next]_vars, NEW h \in Handlers,
           ReadHasSnapshot(h) \/ ReadAppCode(h) \/ ReadSnapshotId(h) \/ ReadPolicyVersion(h)
    PROVE  CallInv(h)'
<1> USE DEF Fill, Goto
<1>0. TypeOK
    BY DEF IInv
<1>1. /\ job[h] \in Jobs /\ job[h] # NoJob /\ ~Refused(job[h]) /\ job[h].kind = "status"
      /\ BeganInv(h) /\ StatusInv(h)
    BY ServedFacts DEF ReadHasSnapshot, ReadAppCode, ReadSnapshotId, ReadPolicyVersion
<1>2. UNCHANGED <<published, withdrawn, loaded, job, began, copy>>
    BY DEF ReadHasSnapshot, ReadAppCode, ReadSnapshotId, ReadPolicyVersion
<1>3. BeganInv(h)'
    BY <1>1, <1>2 DEF BeganInv
<1>4. pc'[h] \in {"app", "id", "version", "done"}
    BY <1>0 DEF TypeOK, ReadHasSnapshot, ReadAppCode, ReadSnapshotId, ReadPolicyVersion
<1>5. Engine # NoSnapshot =>
         /\ Engine \in IndexedSnapshots
         /\ StatusOf(Engine).app # NoApp /\ StatusOf(Engine).id[1] # NoApp
         /\ StatusOf(Engine).version > 0
    BY <1>0, EngineTypes, SnapshotFacts, AgentAssumption
<1>6. /\ Engine' = Engine
      /\ status[h] \in [has : BOOLEAN, app : Apps \cup {NoApp}, id : Ids, version : Nat]
      /\ StatusOf(Engine).has <=> Engine # NoSnapshot
    BY <1>0, <1>2, EngineTypes DEF Engine, TypeOK
<1>10. /\ Engine = loaded[Len(loaded)] /\ Len(loaded) \in began[h].load .. Len(loaded)
       /\ began[h].load \in Nat /\ Len(loaded) \in Nat
    BY <1>0, <1>1, EngineTypes DEF Engine, BeganInv, TypeOK
<1>11. \E i, j, k, n \in began[h].load .. Len(loaded) :
          ReadFrom(status'[h], pc'[h], loaded', i, j, k, n)
    <2> DEFINE z == Len(loaded)
    <2>1. CASE ReadHasSnapshot(h)
        <3>1. pc'[h] = "app" /\ status'[h].has = StatusOf(Engine).has
            BY <1>0, <1>6, <2>1 DEF TypeOK, ReadHasSnapshot
        <3>2. ReadFrom(status'[h], pc'[h], loaded', z, z, z, z)
            BY <1>2, <1>10, <3>1 DEF ReadFrom, StatusOf
        <3> QED BY <1>10, <3>2
    <2>2. ASSUME pc[h] \in {"app", "id", "version"}
          PROVE  \E i, j, k, n \in began[h].load .. Len(loaded) :
                    ReadFrom(status[h], pc[h], loaded, i, j, k, n)
        BY <1>1, <2>2 DEF StatusInv
    <2>3. CASE ReadAppCode(h)
        <3>1. /\ pc[h] = "app" /\ pc'[h] = "id"
              /\ status'[h].has = status[h].has /\ status'[h].app = StatusOf(Engine).app
            BY <1>0, <1>6, <2>3 DEF TypeOK, ReadAppCode
        <3>2. PICK i \in began[h].load .. Len(loaded) : status[h].has = StatusOf(loaded[i]).has
            BY <2>2, <3>1 DEF ReadFrom
        <3>3. ReadFrom(status'[h], pc'[h], loaded', i, z, z, z)
            BY <1>2, <1>10, <3>1, <3>2 DEF ReadFrom, StatusOf
        <3> QED BY <1>10, <3>2, <3>3
    <2>4. CASE ReadSnapshotId(h)
        <3>1. /\ pc[h] = "id" /\ pc'[h] = "version"
              /\ status'[h].has = status[h].has /\ status'[h].app = status[h].app
              /\ status'[h].id = StatusOf(Engine).id
            BY <1>0, <1>6, <2>4 DEF TypeOK, ReadSnapshotId
        <3>2. PICK i, j \in began[h].load .. Len(loaded) :
                 /\ i <= j /\ status[h].has = StatusOf(loaded[i]).has
                 /\ status[h].app = StatusOf(loaded[j]).app
            BY <2>2, <3>1 DEF ReadFrom
        <3>3. ReadFrom(status'[h], pc'[h], loaded', i, j, z, z)
            BY <1>2, <1>10, <3>1, <3>2 DEF ReadFrom, StatusOf
        <3> QED BY <1>10, <3>2, <3>3
    <2>5. CASE ReadPolicyVersion(h)
        <3>1. /\ pc[h] = "version" /\ pc'[h] = "done"
              /\ status'[h].has = status[h].has /\ status'[h].app = status[h].app
              /\ status'[h].id = status[h].id /\ status'[h].version = StatusOf(Engine).version
            BY <1>0, <1>6, <2>5 DEF TypeOK, ReadPolicyVersion
        <3>2. PICK i, j, k \in began[h].load .. Len(loaded) :
                 /\ i <= j /\ j <= k /\ status[h].has = StatusOf(loaded[i]).has
                 /\ status[h].app = StatusOf(loaded[j]).app
                 /\ status[h].id = StatusOf(loaded[k]).id
            BY <2>2, <3>1 DEF ReadFrom
        <3>3. ReadFrom(status'[h], pc'[h], loaded', i, j, k, z)
            BY <1>2, <1>10, <3>1, <3>2 DEF ReadFrom, StatusOf
        <3> QED BY <1>10, <3>2, <3>3
    <2> QED BY <2>1, <2>3, <2>4, <2>5
<1>12. \E i, j, k, n \in began'[h].load .. Len(loaded') :
          ReadFrom(status'[h], pc'[h], loaded', i, j, k, n)
    BY <1>2, <1>11
<1>7. StatusInv(h)'
    <2>1. CASE ReadHasSnapshot(h)
        <3>1. pc'[h] = "app" /\ status'[h] = [status[h] EXCEPT !.has = StatusOf(Engine).has]
            BY <1>0, <2>1 DEF TypeOK, ReadHasSnapshot
        <3> QED BY <1>6, <1>12, <3>1 DEF StatusInv
    <2>2. CASE ReadAppCode(h)
        <3>1. /\ pc[h] = "app" /\ pc'[h] = "id"
              /\ status'[h] = [status[h] EXCEPT !.app = StatusOf(Engine).app]
            BY <1>0, <2>2 DEF TypeOK, ReadAppCode
        <3>2. status'[h].has = status[h].has /\ status'[h].app = StatusOf(Engine).app
            BY <1>6, <3>1
        <3>3. status[h].has => Engine # NoSnapshot
            BY <1>1, <3>1 DEF StatusInv
        <3> QED BY <1>2, <1>5, <1>6, <1>12, <3>1, <3>2, <3>3 DEF StatusInv
    <2>3. CASE ReadSnapshotId(h)
        <3>1. /\ pc[h] = "id" /\ pc'[h] = "version"
              /\ status'[h] = [status[h] EXCEPT !.id = StatusOf(Engine).id]
            BY <1>0, <2>3 DEF TypeOK, ReadSnapshotId
        <3>2. /\ status'[h].has = status[h].has /\ status'[h].app = status[h].app
              /\ status'[h].id = StatusOf(Engine).id
            BY <1>6, <3>1
        <3>3. status[h].has => Engine # NoSnapshot /\ status[h].app # NoApp
            BY <1>1, <3>1 DEF StatusInv
        <3> QED BY <1>2, <1>5, <1>6, <1>12, <3>1, <3>2, <3>3 DEF StatusInv
    <2>4. CASE ReadPolicyVersion(h)
        <3>1. /\ pc[h] = "version" /\ pc'[h] = "done"
              /\ status'[h] = [status[h] EXCEPT !.version = StatusOf(Engine).version]
            BY <1>0, <2>4 DEF TypeOK, ReadPolicyVersion
        <3>2. /\ status'[h].has = status[h].has /\ status'[h].app = status[h].app
              /\ status'[h].id = status[h].id /\ status'[h].version = StatusOf(Engine).version
            BY <1>6, <3>1
        <3>3. status[h].has => Engine # NoSnapshot /\ status[h].app # NoApp /\ status[h].id[1] # NoApp
            BY <1>1, <3>1 DEF StatusInv
        <3> QED BY <1>2, <1>5, <1>6, <1>12, <3>1, <3>2, <3>3 DEF StatusInv
    <2> QED BY <2>1, <2>2, <2>3, <2>4
<1>8. DoneInv(h)'
    <2> SUFFICES ASSUME pc'[h] = "done" PROVE DoneInv(h)'
        BY DEF DoneInv
    <2>1. ReadPolicyVersion(h)
        BY <1>0 DEF TypeOK, ReadHasSnapshot, ReadAppCode, ReadSnapshotId
    <2>2. answer'[h].code = "OK"
        BY <1>0, <2>1 DEF TypeOK, ReadPolicyVersion, Respond, Response
    <2> QED BY <1>1, <1>2, <2>2 DEF DoneInv, LatestKinds, ActivateKinds
<1>9. pc'[h] \in PlacesOf(job[h].kind) /\ ReadInv(h)'
    BY <1>1, <1>4 DEF PlacesOf, PullKinds, ActivateKinds, ReadInv
<1> QED BY <1>1, <1>2, <1>3, <1>4, <1>7, <1>8, <1>9 DEF CallInv

LEMMA CopySnapshotStep ==
    ASSUME IInv, [Next]_vars, NEW h \in Handlers, CopySnapshot(h)
    PROVE  CallInv(h)'
<1>0. TypeOK
    BY DEF IInv
<1>1. /\ job[h] \in Jobs /\ job[h] # NoJob /\ ~Refused(job[h]) /\ job[h].kind = "check"
      /\ BeganInv(h)
    BY ServedFacts DEF CopySnapshot
<1>2. /\ UNCHANGED <<published, withdrawn, loaded, job, began, status, answer>>
      /\ copy'[h] = Engine /\ pc'[h] = "decide"
    BY <1>0 DEF CopySnapshot, TypeOK, Goto
<1>3. BeganInv(h)'
    BY <1>1, <1>2 DEF BeganInv
<1>4. \E i \in began'[h].load .. Len(loaded') : copy'[h] = loaded'[i]
    <2>1. Len(loaded) \in began[h].load .. Len(loaded)
        BY <1>0, <1>1, EngineTypes DEF BeganInv
    <2> QED BY <1>2, <2>1 DEF Engine
<1>5. ReadInv(h)' /\ StatusInv(h)' /\ DoneInv(h)'
    BY <1>1, <1>2 DEF ReadInv, StatusInv, DoneInv
<1>6. pc'[h] \in PlacesOf(job[h].kind)
    BY <1>1, <1>2 DEF PlacesOf, PullKinds, ActivateKinds
<1> QED BY <1>1, <1>2, <1>3, <1>4, <1>5, <1>6 DEF CallInv

LEMMA DecideLocallyStep ==
    ASSUME IInv, [Next]_vars, NEW h \in Handlers, DecideLocally(h)
    PROVE  CallInv(h)'
<1>0. TypeOK /\ BoundInv /\ LoadedInv
    BY DEF IInv
<1>1. /\ job[h] \in Jobs /\ job[h] # NoJob /\ ~Refused(job[h]) /\ job[h].kind = "check"
      /\ BeganInv(h) /\ job[h].check \in Requests /\ pc[h] = "decide"
    BY ServedFacts, JobFacts DEF DecideLocally
<1>2. /\ UNCHANGED <<published, withdrawn, loaded, job, began, copy, status>>
      /\ pc'[h] = "done"
    BY <1>0 DEF DecideLocally, TypeOK, Goto
<1>3. BeganInv(h)'
    BY <1>1, <1>2 DEF BeganInv
<1>4. PICK i \in began[h].load .. Len(loaded) : copy[h] = loaded[i]
    BY <1>1 DEF IInv, CallInv
<1>5. began[h].load \in 1 .. Len(loaded) /\ i \in 1 .. Len(loaded)
    BY <1>0, <1>1 DEF BeganInv, TypeOK
<1>6. CASE copy[h] = NoSnapshot
    <2>1. answer'[h].code = "SNAPSHOT_NOT_READY"
        BY <1>0, <1>6 DEF DecideLocally, TypeOK, Respond, Response
    <2>2. loaded[began[h].load] = NoSnapshot
        BY <1>1, <1>4, <1>6 DEF BeganInv
    <2>3. DoneInv(h)'
        BY <1>2, <2>1, <2>2 DEF DoneInv
    <2>4. ReadInv(h)' /\ StatusInv(h)'
        BY <1>1, <1>2 DEF ReadInv, StatusInv
    <2>5. pc'[h] \in PlacesOf(job[h].kind)
        BY <1>1, <1>2 DEF PlacesOf, PullKinds, ActivateKinds
    <2> QED BY <1>1, <1>2, <1>3, <2>3, <2>4, <2>5 DEF CallInv
<1>7. CASE copy[h] # NoSnapshot
    <2>1. PICK a \in Apps : \E v \in 1 .. Len(published[a]) :
             loaded[i] = BuildIndexedSnapshot(Stored(a, v))
        BY <1>0, <1>4, <1>5, <1>7 DEF LoadedInv, Given
    <2>2. PICK v \in 1 .. Len(published[a]) : loaded[i] = BuildIndexedSnapshot(Stored(a, v))
        BY <2>1
    <2>3. /\ answer'[h].code = "OK" /\ answer'[h].id = IdOf(copy[h].snapshot)
          /\ answer'[h].decision = LocalDecision(copy[h], job[h].app, job[h].check)
        BY <1>0, <1>7 DEF DecideLocally, TypeOK, Respond, Response
    <2>4. IdOf(copy[h].snapshot) = <<a, v>>
        BY <1>4, <2>2, SelectFacts DEF Stored
    <2>5. LocalDecision(copy[h], job[h].app, job[h].check) =
             IF a = job[h].app THEN Decision(published[a][v], job[h].check)
             ELSE Denial("APP_NOT_FOUND")
        <3>1. published[a][v] \in Policies
            BY <1>0, StoredTypes
        <3> QED BY <1>1, <1>4, <2>2, <3>1, IndexAnswers DEF Stored
    <2>6. Stored(a, v)' = Stored(a, v)
        BY <1>2 DEF Stored
    <2>7. DoneInv(h)'
        <3>1. job[h].kind \notin LatestKinds /\ job[h].kind \notin ActivateKinds
            BY <1>1 DEF LatestKinds, ActivateKinds
        <3> QED BY <1>2, <1>4, <1>7, <2>2, <2>3, <2>4, <2>5, <2>6, <3>1 DEF DoneInv
    <2>8. ReadInv(h)' /\ StatusInv(h)'
        BY <1>1, <1>2 DEF ReadInv, StatusInv
    <2>9. pc'[h] \in PlacesOf(job[h].kind)
        BY <1>1, <1>2 DEF PlacesOf, PullKinds, ActivateKinds
    <2> QED BY <1>1, <1>2, <1>3, <2>7, <2>8, <2>9 DEF CallInv
<1> QED BY <1>6, <1>7

-----------------------------------------------------------------------------
(* The theorems.                                                           *)

LEMMA ServeTouches ==
    ASSUME NEW h \in Handlers, Serve(h), TypeOK, NEW k \in Handlers, k # h
    PROVE  UNCHANGED <<pc[k], job[k], began[k], copy[k], status[k], answer[k]>>
<1> USE DEF TypeOK, Goto, Respond
<1>1. CASE Receive(h)
    BY <1>1 DEF Receive, Refuse
<1>2. CASE ReadSnapshot(h)
    BY <1>2 DEF ReadSnapshot, Refuse
<1>3. CASE LoadSnapshot(h)
    BY <1>3 DEF LoadSnapshot
<1>4. CASE ReadHasSnapshot(h) \/ ReadAppCode(h) \/ ReadSnapshotId(h) \/ ReadPolicyVersion(h)
    BY <1>4 DEF Fill, ReadHasSnapshot, ReadAppCode, ReadSnapshotId, ReadPolicyVersion
<1>5. CASE CopySnapshot(h) \/ DecideLocally(h) \/ Finish(h)
    BY <1>5 DEF CopySnapshot, DecideLocally, Finish
<1> QED BY <1>1, <1>2, <1>3, <1>4, <1>5 DEF Serve

LEMMA CallStep == IInv /\ [Next]_vars => \A h \in Handlers : CallInv(h)'
<1> SUFFICES ASSUME IInv, [Next]_vars, NEW h \in Handlers PROVE CallInv(h)'
    OBVIOUS
<1>0. TypeOK
    BY DEF IInv
<1>1. CASE Restart
    BY <1>1 DEF Restart, CallInv, NoResponse, Response
<1>2. ASSUME ~Restart PROVE EngineKeeps
    BY <1>2, EngineStep
<1>3. CASE Publish \/ Withdraw \/ UNCHANGED vars
    <2>1. UNCHANGED <<loaded, handlerVars>>
        BY <1>3 DEF Publish, Withdraw, vars
    <2>2. EngineKeeps
        BY <2>1 DEF EngineKeeps
    <2>3. UNCHANGED <<pc[h], job[h], began[h], copy[h], status[h], answer[h]>>
        BY <2>1 DEF handlerVars
    <2> QED BY <2>2, <2>3, KeepCall
<1>4. ASSUME NEW k \in Handlers, Serve(k), ~Restart PROVE CallInv(h)'
    <2>1. CASE k # h
        BY <1>0, <1>2, <1>4, <2>1, ServeTouches, KeepCall
    <2>2. CASE k = h
        <3>1. CASE Finish(h)
            BY <1>0, <3>1 DEF Finish, TypeOK, Goto, CallInv, NoResponse, Response
        <3> QED BY <1>4, <2>2, <3>1, ReceiveStep, ReadSnapshotStep, LoadSnapshotStep, FillStep,
                   CopySnapshotStep, DecideLocallyStep DEF Serve
    <2> QED BY <2>1, <2>2
<1> QED BY <1>1, <1>3, <1>4 DEF Next

LEMMA InitIInv == Init => IInv
<1> SUFFICES ASSUME Init PROVE IInv
    OBVIOUS
<1>1. TypeOK
    <2>1. /\ \A a \in Apps : published[a] = <<>>
          /\ published \in [Apps -> Seq(Policies)]
        BY DEF Init
    <2>2. loaded \in Seq(IndexedSnapshots \cup {NoSnapshot}) /\ Len(loaded) > 0
        BY DEF Init
    <2> QED BY <2>1, <2>2, BlankTypes DEF Init, TypeOK, Places
<1>2. BoundInv
    <2>1. \A a \in Apps : Len(published[a]) = 0
        BY DEF Init
    <2>2. Versions = {}
        BY <2>1 DEF Versions
    <2> QED BY <2>1, <2>2, FS_EmptySet, AgentAssumption DEF BoundInv
<1>3. LoadedInv
    BY DEF Init, LoadedInv
<1>4. \A h \in Handlers : CallInv(h)
    BY DEF Init, CallInv, NoResponse, Response
<1> QED BY <1>1, <1>2, <1>3, <1>4 DEF IInv

\* IInv holds of every reachable state.
THEOREM Invariance == Spec => []IInv
<1>1. IInv /\ [Next]_vars => IInv'
    BY TypeStep, BoundStep, LoadedStep, CallStep DEF IInv
<1> QED BY InitIInv, <1>1, PTL DEF Spec

\* Type correctness of SnapshotAgent: what a handler holds is a snapshot of a
\* published version, what the engine holds an index of one.
THEOREM TypeCorrect == Spec => []TypeOK
<1>1. IInv => TypeOK
    BY DEF IInv
<1> QED BY Invariance, <1>1, PTL

LEMMA AnsweredFacts ==
    ASSUME IInv, NEW h \in Handlers, pc[h] = "done",
           answer[h].code \in {"OK", "SNAPSHOT_NOT_READY"}
    PROVE  /\ BeganInv(h) /\ StatusInv(h) /\ DoneInv(h)
           /\ began[h].load \in Nat /\ began[h].load \in 1 .. Len(loaded)
<1>1. BeganInv(h) /\ StatusInv(h) /\ DoneInv(h)
    BY DEF IInv, CallInv
<1> QED BY <1>1 DEF BeganInv, IInv, TypeOK

\* A local check answers what the centre decides in the published state of the
\* version it names, which was in the engine during the call.
THEOREM ChecksAreCentral == Spec => []LocalAnswerIsCentral
<1>1. IInv => LocalAnswerIsCentral
    <2> SUFFICES ASSUME IInv, NEW h \in Handlers, Answered(h, {"check"})
                 PROVE  \E s \in HeldDuring(h) \ {NoSnapshot} :
                            LET a == IdOf(s.snapshot)[1]  v == IdOf(s.snapshot)[2] IN
                            /\ answer[h].id = <<a, v>>
                            /\ v \in 1 .. Len(published[a])
                            /\ answer[h].decision =
                                  IF a = job[h].app THEN Decision(published[a][v], job[h].check)
                                  ELSE Denial("APP_NOT_FOUND")
        BY DEF LocalAnswerIsCentral
    <2>1. DoneInv(h) /\ pc[h] = "done" /\ answer[h].code = "OK" /\ job[h].kind = "check"
        BY AnsweredFacts DEF Answered
    <2>2. PICK i \in began[h].load .. Len(loaded) :
                 /\ loaded[i] # NoSnapshot
                 /\ \E a \in Apps : \E v \in 1 .. Len(published[a]) :
                       /\ loaded[i] = BuildIndexedSnapshot(Stored(a, v))
                       /\ answer[h].id = <<a, v>>
                       /\ answer[h].decision =
                             IF a = job[h].app THEN Decision(published[a][v], job[h].check)
                             ELSE Denial("APP_NOT_FOUND")
        BY <2>1 DEF DoneInv
    <2>3. loaded[i] \in HeldDuring(h) \ {NoSnapshot}
        BY <2>2 DEF HeldDuring
    <2>4. PICK a \in Apps : \E v \in 1 .. Len(published[a]) :
                       /\ loaded[i] = BuildIndexedSnapshot(Stored(a, v))
                       /\ answer[h].id = <<a, v>>
                       /\ answer[h].decision =
                             IF a = job[h].app THEN Decision(published[a][v], job[h].check)
                             ELSE Denial("APP_NOT_FOUND")
        BY <2>2
    <2>5. PICK v \in 1 .. Len(published[a]) :
                       /\ loaded[i] = BuildIndexedSnapshot(Stored(a, v))
                       /\ answer[h].id = <<a, v>>
                       /\ answer[h].decision =
                             IF a = job[h].app THEN Decision(published[a][v], job[h].check)
                             ELSE Denial("APP_NOT_FOUND")
        BY <2>4
    <2>6. IdOf(loaded[i].snapshot) = <<a, v>>
        BY <2>5, SelectFacts DEF Stored
    <2> QED BY <2>3, <2>5, <2>6
<1> QED BY Invariance, <1>1, PTL

\* Loading leaves no gap in which a check finds the engine empty.
THEOREM NoGap == Spec => []ReadyStaysReady
<1>1. IInv => ReadyStaysReady
    BY AnsweredFacts DEF ReadyStaysReady, DoneInv
<1> QED BY Invariance, <1>1, PTL

\* What is called the latest snapshot was the latest while the call ran, but for
\* versions that were withdrawn.
THEOREM LatestWasLatest == Spec => []LatestIsFresh
<1>1. IInv => LatestIsFresh
    <2> SUFFICES ASSUME IInv, NEW h \in Handlers, Answered(h, LatestKinds)
                 PROVE  Fresh(h, answer[h].id[2])
        BY DEF LatestIsFresh, Fresh
    <2> QED BY AnsweredFacts DEF Answered, DoneInv
<1> QED BY Invariance, <1>1, PTL

\* A call that says it activated a snapshot put it in the engine, for the
\* application it was asked for.
THEOREM ActivationsHappen == Spec => []ActivationTookPlace
<1>1. IInv => ActivationTookPlace
    BY AnsweredFacts DEF ActivationTookPlace, Answered, DoneInv
<1> QED BY Invariance, <1>1, PTL

\* The four fields of a status, read under four locks, name a snapshot whenever
\* the first one says that there is one, and come from what the engine held during
\* the call, in the order in which it held it.
THEOREM StatusIsNamed == Spec => []StatusNamesSnapshot
<1>1. IInv => StatusNamesSnapshot
    <2> SUFFICES ASSUME IInv, NEW h \in Handlers, Answered(h, {"status"})
                 PROVE  /\ status[h].has => /\ status[h].app # NoApp
                                            /\ status[h].id[1] # NoApp /\ status[h].version > 0
                        /\ \E i, j, k, n \in began[h].load .. Len(loaded) :
                              /\ i <= j /\ j <= k /\ k <= n
                              /\ status[h] = [has |-> StatusOf(loaded[i]).has,
                                              app |-> StatusOf(loaded[j]).app,
                                              id |-> StatusOf(loaded[k]).id,
                                              version |-> StatusOf(loaded[n]).version]
        BY DEF StatusNamesSnapshot
    <2>1. pc[h] = "done" /\ job[h].kind = "status" /\ StatusInv(h)
        BY AnsweredFacts DEF Answered
    <2>2. PICK i, j, k, n \in began[h].load .. Len(loaded) :
             ReadFrom(status[h], pc[h], loaded, i, j, k, n)
        BY <2>1 DEF StatusInv
    <2>3. status[h] \in [has : BOOLEAN, app : Apps \cup {NoApp}, id : Ids, version : Nat]
        BY DEF IInv, TypeOK
    <2>4. /\ i <= j /\ j <= k /\ k <= n
          /\ status[h].has = StatusOf(loaded[i]).has /\ status[h].app = StatusOf(loaded[j]).app
          /\ status[h].id = StatusOf(loaded[k]).id
          /\ status[h].version = StatusOf(loaded[n]).version
        BY <2>1, <2>2 DEF ReadFrom
    <2>5. status[h] = [has |-> StatusOf(loaded[i]).has, app |-> StatusOf(loaded[j]).app,
                       id |-> StatusOf(loaded[k]).id, version |-> StatusOf(loaded[n]).version]
        <3>1. status[h] = [has |-> status[h].has, app |-> status[h].app,
                           id |-> status[h].id, version |-> status[h].version]
            BY <2>3
        <3> QED BY <2>4, <3>1
    <2> QED BY <2>1, <2>4, <2>5 DEF StatusInv
<1> QED BY Invariance, <1>1, PTL
=============================================================================
