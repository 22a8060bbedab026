# ny_auth in TLA+

`ny_auth` is a permission centre: one brpc server in front of MySQL that answers
"may this user do this to that resource?", lets administrators edit roles,
permissions, grants and resource owners, publishes numbered versions of the
policy with a frozen snapshot of each, and serves a snapshot engine that decides
without the database.  This directory holds TLA+ models of that program, TLC
configurations that check them and TLAPS proofs about them.  Paths below are
relative to the repository.

## 1. The system

One server process runs brpc handlers on many threads.  No handler holds a lock
across calls; every DAO call opens a MySQL connection of its own and commits its
statements at once, except the publication of a policy, which is one transaction.
A DAO catches every SQL error and returns "nothing".  Nothing is kept in the
process but two caches and the agent's snapshot.

| Component | State it keeps | Operations | What makes it correct |
|---|---|---|---|
| Policy tables (`sql/init.sql`, `src/permission_dao.cpp`, `src/admin_dao.cpp`) | applications, versions, roles, permissions, bindings, grants, resources | queries of the decision engine, edits of the administrators | queries agree about one state |
| Decision engine (`src/decision_engine.cpp`, `src/auth_service_impl.cpp`) | none of its own; the shared permission cache; the decision log | `Evaluate` | an answer is justified by a state of the policy although it is put together from up to nine queries |
| Permission cache (`include/local_cache.h`) | entries with TTL, limit, counters | `Put`, `Get`, `Invalidate`, `InvalidatePrefix`, `Clear`, `SetMaxEntries` | never a wrong value, bounded, counters that add up |
| Publication (`src/admin_manager.cpp` `PublishPolicy`, `src/snapshot_builder.cpp` `PublishPolicyTransaction`) | version row, snapshots, publish logs, audit rows | `PublishPolicy` | version, snapshot and log appear together; each snapshot is one state; versions never go back |
| Administration (`src/admin_manager.cpp`, `src/admin_service_impl.cpp`) | sessions, audit log | login, five edits, publication, audit list | only a logged-in super administrator edits; what is acknowledged or audited did happen |
| Snapshot agent (`src/agent_service_impl.cpp`, `src/local_snapshot_engine.cpp`) | the one active indexed snapshot | pull, activate, status, local check | local answers agree with the centre at the snapshot's version |
| Simulation (`src/simulation_engine.cpp`) | none | `Simulate` | the answer is that of the policy with the hypothetical changes |
| Snapshot storage (`src/snapshot_dao.cpp`) | snapshot rows, publish logs | get, list; JSON writer and reader (the writer exists three times, in `snapshot_builder.cpp`, `snapshot_dao.cpp` and `agent_service_impl.cpp`) | what is read is what was written |
| RPC wrappers, generated code, `src/server_main.cpp` | none | field copies, wiring | - |

How they interact: `AuthService.Check` calls the decision engine, which queries
the tables and shares the permission cache between threads.  The key of a cache
entry is `app_code:user_id:policy_version`, so a publication, which increments the
version, is what makes later requests miss the cache; an edit without a
publication becomes visible when the TTL (60 s) is over.  `AdminService` calls
`AdminManager`, which checks the session, edits the tables through `AdminDAO` and
publishes through `SnapshotBuilder`.  `AgentService` reads the snapshots that
publication stored and loads one into the local engine.

What is hard to test here: two publications at once and edits during one;
transactions that fail, or commit without saying so; answers assembled from
queries made at different times; slow readers that fill a cache that has moved on;
queries that fail and are taken for empty results; expiry and eviction at their
boundaries; activations of snapshots in the wrong order; sessions that outlive the
rights they stand for; calls that check for a row and insert it on different
connections; a reader of JSON that takes whatever is missing for a default; a decision
that is written three times (centre, agent, simulation).  `PROJECT.json` lists each at its line.

## 2. Modules

| Module | What it is |
|---|---|
| `PolicyHistory` | abstract: publishing freezes one state of the policy, whole, in order, for ever |
| `PublishPolicy` | `AdminManager::PublishPolicy` and its transaction, one action per statement |
| `PublishPolicy_proofs` | its inductive invariant, its theorems, and that it implements `PolicyHistory` |
| `PolicyTables` | one state of the policy tables and `PermissionDAO`'s queries of it |
| `PolicyStore` | their history, as far as committed: `AdminDAO`'s edits, publication, an operator's SQL |
| `PolicyStore_proofs` | lemmas about changes of the tables; the queries agree with each other; the AdminService only adds |
| `PolicyDecision` | the decision of the centre as a function of one state (`Decision`) |
| `PolicySnapshot` | the way of a policy into the agent: SELECTs, JSON document, reader, index, and the decision from it (`LocalDecision`) |
| `PolicySnapshot_proofs` | the document read is the one written, and the agent decides as the centre |
| `DecisionEngine` | `DecisionEngine::Evaluate` on any number of threads, over `PolicyStore` and a shared cache |
| `DecisionEngine_proofs` | its three inductive invariants and theorems; an undisturbed evaluation computes `Decision` |
| `SnapshotAgent` | `AgentService` and `LocalSnapshotEngine` on any number of threads, over `PolicySnapshot` |
| `SnapshotAgent_proofs` | its inductive invariant; local answers are those of the centre, and the other theorems |
| `SimulationEngine` | `SimulationEngine::Simulate` query by query, over `PolicyStore`, compared with `Decision` |
| `SimulationEngine_proofs` | what a simulation predicts, and what its answers are worth |
| `AdminManager` | login, sessions and the five editing calls on any number of threads, over `PolicyStore` |
| `AdminManager_proofs` | its inductive invariant; acknowledgements, audit rows, errors and sessions tell the truth |
| `VolatileMap` | abstract: a map with deadlines; a lookup returns what was last stored under its key, in time, or nothing |
| `LocalCache` | `LocalCache<T>`, one action per operation |
| `LocalCache_proofs` | its counters, limit and eviction; it implements `VolatileMap` |
| `MCPublishPolicy`, `MCDecisionEngine`, `MCLocalCache`, `MCSnapshotAgent`, `MCSimulationEngine`, `MCAdminManager` | values of the constants for TLC |

Definitions whose name ends in `_Something` and whose comment starts with
"Variant" are not part of the models: each is a plausible bug in one action
(`LockApp_NoForUpdate` is `LockApp` without `FOR UPDATE`), kept to show that the
property it breaks can be broken.

### 2.1 PublishPolicy

State: `hist`, the committed states of the five policy tables; `app`, `row`,
`snaps`, `logs`, `audits`, the rows of `ny_apps`, `ny_policy_versions`,
`ny_policy_snapshots`, `ny_snapshot_publish_logs` and `ny_audit_logs` that other
connections can see; `lock`, the transaction that holds the row lock of the
application; and for each call its place and local variables.

| Action | Code |
|---|---|
| `ReadOldVersion` | `getCurrentPolicyVersion`, own connection, 1 on error (`admin_manager.cpp:713`) |
| `LockApp`, `RefuseApp` | `SELECT ... FOR UPDATE`, version + 1; absent or disabled application (`snapshot_builder.cpp:508-540`) |
| `UpsertVersion` | the upsert of the version row (542) |
| `ReadSection` | one of the five `SELECT`s of the policy tables (566-680); the first opens the read view |
| `InsertSnapshot`, `InsertSuccessLog` | snapshot upsert, id, JSON update; SUCCESS row (682-760) |
| `Commit`, `CommitUnacknowledged` | `COMMIT`, with or without an acknowledgement that arrives (762) |
| `FailTransaction` | the `catch` and its rollback (772-791) |
| `WriteFailedLog`, `AnswerOk`, `AnswerFailed` | FAILED row, audit row, answer; each log row is best effort |
| `Crash` | the process dies; MySQL rolls back |
| `Edit`, `SwitchApp` | other connections change the policy or the application |

What a transaction wrote is invisible to others until `COMMIT`, so `UpsertVersion`,
`InsertSnapshot` and `InsertSuccessLog` only move the call, and `CommitTransaction`
publishes all three; they stay separate steps because each may be the one that
fails.  The models rest on InnoDB at REPEATABLE READ, the default the code never
changes: `FOR UPDATE` reads the latest committed row and opens no read view.
The content of a table is a member of a small set: properties only ask whether two
reads saw the same content.

### 2.2 PolicyStore and DecisionEngine

`hist` is again the sequence of committed states, now with rows in them: status of
application, roles, permissions, resources; bindings, grants, owners, the shortcut
flag and the version.  The last element is what a query sees.  `PublishPolicy` is
here one atomic change of the version, which is what `PublishPolicy_proofs` proves
of the transaction.  `ApiChange` is what the AdminService can do (it creates, binds,
grants, transfers and publishes; it never disables or revokes); `SqlChange` is what
an operator does by hand.  An AdminDAO edit is one step here; `AdminManager` has its
statements, and its `EditsAreStoreChanges` says that together they are that step.

Each worker runs `Evaluate` query by query; `pc` names the next query.

| Action | Code (`decision_engine.cpp`) |
|---|---|
| `Receive`, `ReceiveIncomplete` | `validateRequest` 31, 211-257 |
| `ReadApp` | 41-65: status and version in one query |
| `CheckPermission`, `ReadPermission`, `ReadRolesOfMissing` | 74-115 |
| `ReadResource` | 117-140 |
| `ReadShortcut`, `ReadOwner`, `ReadOwnerRoles` | `tryOwnerShortcut` 308-334 |
| `GetCached`, `LoadPermissions`, `PutCached` | `loadUserPermissions` 268-299 |
| `ReadRoles`, `DecideByRbac` | `evaluateByRbac` 340-387 |
| `InsertDecisionLog`, `Respond` | 182-204 |
| `DropCached` | TTL, sweep or eviction of the cache: any entry, any time, as `LocalCache` permits |
| `Administer` | a change of `PolicyStore` |

With `Failures` a query may fail: a look-up then reads as "absent" and a list as any
subset of its rows, since the DAO returns what it had fetched when the exception
came.  Strings, reasons, trace texts and suggested roles are left out.

### 2.3 LocalCache

`entries`, `limit`, `now`, `stats` are `cache_`, `max_entries_`, `Clock::now()` and
`stats_`; `last` records the last call with its key, arguments and result, `gets` and `replaced`
count calls, for the properties.
Every operation holds the mutex and is one action.  `Survivors` is the set of
possible results of `evictIfNeededLocked`: entries inserted at the same instant go
in the iteration order of the hash map, which the model leaves open.

`VolatileMap` is what a user of the cache may rely on.  It has the clock and the last call in
common with `LocalCache` (a refinement may hide neither which key was asked for nor when), and a
map from keys to values and deadlines, which all of `entries` is mapped to, expired or not.
`Store(k, v, ttl)` files `v` under `k` and may lose anything; `Hit(k)` must return what is under
`k` as long as `now <= until`, and `NoHit(k)` is allowed only if nothing is there or it is over;
`Remove(S)` takes away what is in `S` and nothing else.  The deadline is written out there and not
taken from `Expired`, so that a cache with the other boundary, one that answers with the
value of another key, or an invalidation that leaves something behind is no `VolatileMap`.

### 2.4 PolicyDecision, PolicySnapshot and SnapshotAgent

`Decision(d, r)` is what `Evaluate` answers when all its queries see state `d`.
`PolicySnapshot` follows a state through the program:

| Operator | Code |
|---|---|
| `SelectPolicy` | the five `SELECT`s of a publication (`snapshot_builder.cpp:566-680`): disabled rows come with their flag, bindings and grants are joined |
| `BuildSnapshotJson` | `BuildSnapshotJsonText` (87-203), a value with a type for each field |
| `ReadSnapshotJson` | `deserializeSnapshotFromJson` (`snapshot_dao.cpp:1088-1291`): a field that is missing or of another type is its default |
| `BuildIndexedSnapshot` | 813-850 |
| `LocalDecision` | `LocalSnapshotEngine::Check` 118-244 on that index, with the helpers of that class |

Of the columns, those a decision depends on are kept; the names, descriptions and ids
are copied and never read by a decision.  Resources are known by one abstract name, which
stands for type and id.  Vectors of rows are sets, since the keys are unique in the tables.
The text of a string is abstract: `ParseJsonString` undoes each escape of
`EscapeJsonString` one for one.  Only the deny code, the matched roles and the owner flag
are compared: the centre fills `current_roles` of a PERMISSION_NOT_FOUND and the agent does not.

In `SnapshotAgent`, `published[a]` is the sequence of policies frozen by publications of application `a`, as
`PublishPolicy_proofs` shows them to be (one state each, in order, for ever);
`withdrawn` the rows an operator has given another status; `loaded` everything the
engine has held, of which the last is current; the rest are the locals of each handler.

| Action | Code (`agent_service_impl.cpp`, `local_snapshot_engine.cpp`) |
|---|---|
| `Receive` | the call; `Refuse`: its INVALID_ARGUMENT checks, `validateRequest` 250-291 |
| `ReadSnapshot` | `getLatestSnapshot`, `getSnapshotByVersion` (`snapshot_dao.cpp:622-716`) and `Parsed`, the reading of the row's document; a pull answers, an activation goes on |
| `LoadSnapshot` | `BuildIndexedSnapshot`, then `LoadSnapshot` 22-37: the pointer is swapped |
| `ReadHasSnapshot`, `ReadAppCode`, `ReadSnapshotId`, `ReadPolicyVersion` | the four getters of `fillLocalSnapshotStatus` 553-573 |
| `CopySnapshot`, `DecideLocally` | `getSnapshotCopy` and the rest of `Check` 118-244 |
| `Restart` | the process ends; `server_main.cpp:261-282` loads the latest snapshot of `--agent_bootstrap_app_code` |
| `Publish`, `Withdraw` | another connection publishes, or sets the status of a row |

A row holds the document, the engine the index: what an activation loads has gone the
whole way.  Query and parsing may fail.  A snapshot's id is known by its application and
version, which have a unique key in the table.

### 2.5 SimulationEngine

The engine keeps nothing between calls and writes nothing, so one simulation at a time,
among changes of the tables, is all there is to see.  `sim` holds the lists of the request,
`todo` the checks its validation loops still have to make, `roles` and `perms` the effective
sets, `lost` whether a query has failed.

| Action | Code (`simulation_engine.cpp`) |
|---|---|
| `Receive`, `ReceiveIncomplete` | `SimulateCheck`, `validateRequest` 238-284 |
| `ReadApp`, `CheckPermission`, `ReadPermission`, `ReadResource` | 46-133 |
| `CheckSimulated` | one check of the loops 135-202; an incomplete row asks no query |
| `ReadRoles` | `buildEffectiveRoles` 294-320 |
| `ReadPermissions` | `buildEffectivePermssions` 330-356: the real permissions of the user, and the simulated bindings of effective roles |
| `ReadShortcut`, `ReadOwner` | `tryOwnerShortcut`, `resolveEffectiveOwner`, `findSimulatedOwnerOverride` |
| `DecideByRbac` | `evaluateByRbac` 435-530 |
| `Respond` | the answer |

`Hypothetical(d, s)` is state `d` with the simulated rows really there; the properties
compare the answer with `Decision` of it.

### 2.6 AdminManager

`standing` is what `ny_console_users` says of an administrator, `sessions` the session cache
(a copy of the super flag, made at login), `audits` the audit log; for each handler the call,
what it has learnt (`op`), and as history for the properties the state in which it arrived
(`began`), the one it wrote (`commit`), and whether a statement of it failed (`lost`).

| Action | Code (`admin_manager.cpp`, `admin_dao.cpp`) |
|---|---|
| `Arrive` | the call; one without a good token stands for all of them |
| `ReadConsoleUser`, `PutSession` | `Login` 127-206: user, status, `VerifyPassword`; token and session |
| `DropSession` | TTL or limit of the session cache |
| `Authenticate` | `authenticateOperator`, `authorizeOperator` 914-961, and the checks of arguments |
| `CheckNeeded`, `CheckAbsent` | the existence checks, each a query of its own (282-289, 452-469) |
| `FindResource`, `UpdateOwner` | `upsertResourceOwner` (595-680) |
| `InsertRow`, `ReadId` | `createRole`, `createPermission` (with the id read back), `bindPermissionToRole`, `grantRoleToUser`, and the INSERT of `upsertResourceOwner` |
| `WriteAuditLog`, `Respond` | `writeAuditLog`, best effort, and the answer |
| `ChangeConsoleUser`, `Administer`, `Tick`, `Restart` | SQL, the clock, the end of the process |

`Failed` is a statement that was not executed or whose answer was lost after it was.  The
password check is a choice.  `PublishPolicy`, `SimulateCheck` and `ListAuditLogs` appear up to
their authorisation (`OtherCall`); what they do then is in the other modules.

## 3. Runs

| Run | Instance | What it shows |
|---|---|---|
| `publish_safety` | 2 calls, 2 contents per table, 2 edits | one-state snapshots, ordered versions, version/snapshot/log atomicity, acknowledged calls keep their version, immutable snapshots, audit order, implements `PolicyHistory` |
| `publish_liveness` | 2 calls, no version row yet, no edits | `CallsFinish`: every call in the queue for the lock is answered |
| `publish_lost_ack` | as above | *violation*: see section 6 |
| `decision_safety` | 2 threads, 1 user, role, permission; publish, revoke, switch the application; failing queries; 2 changes | `CacheSound`, `AnswerJustified`, `NoRoleNoAccess` |
| `decision_grants` | 2 threads, 2 users, 2 roles, 1 resource; publish, grant, own; 2 changes | `MatchedRolesNonEmpty`, `PublishedGrantsHonoured`, `OwnerAllowJustified` |
| `decision_edits` | 1 thread, 2 roles, 2 permissions of different types, 1 resource; all twelve changes, 3 of them | every path of `Evaluate` and every edit; `UndisturbedAnswerExact`, `CacheConverges` |
| `decision_partial` | 2 threads, failing queries | *violation*: see section 6 |
| `agent_safety` | 2 threads, 2 applications, 2 policies (all enabled; the role and one permission disabled), 2 permissions, each asked for, 2 versions in all, 1 resource; every call, withdrawals, failures, restarts with bootstrap, before and after a load | `LatestIsFresh`, `ActivationTookPlace`, `LocalAnswerIsCentral`, `ReadyStaysReady`, `StatusNamesSnapshot` |
| `simulation_check` | every request and every simulation of at most one row of each kind, 2 users, 2 roles of which one is disabled, 2 permissions, 1 resource; bind, grant, own, switch a role or the resource, 2 changes; failing queries | `PredictionExact`, `PermitHolds`, `DenialOnlyMissesGrantedRoles` |
| `simulation_grant` | one simulated grant | *violation*: see section 6 |
| `admin_safety` | 2 threads, 2 users, 1 administrator, 1 token, TTL 1, clock 2; one edit of each kind and both kinds of owner setting; 1 change by others | `AcknowledgedEditDone`, `AuditedEditsHappened`, `InternalErrorExplained`, `LockedOutByTtl`, `EditsAreStoreChanges` |
| `cache_contract` | 3 keys, 2 values, TTL 0 and 1, limits 0 to 2, clock 2, 3 puts and 3 gets | `StatsBalance`, `WithinLimit`, `EvictionIsFair`, `ImplementsMap` |

Why the bounds are enough.  Two publications are enough for one to overtake, fail
under or overwrite the other, and the invariants are proved for any number of them.
Two edits let a snapshot be torn in both directions (an edit before and one after a
section).  Two threads are the smallest number in which one files what another
uses; two changes let a worker be overtaken by an edit *and* by a publication.  Three keys and
limits below three make eviction choose, with ties.
Two handlers are enough for one to load between the reading and the loading of the
other, and two applications for the wrong one to be loaded.  One simulated row of each
kind already meets the others (a binding to the granted role), and the loops treat longer lists
row by row.  Two administrators' calls are the smallest number that pass each other's
existence check; one token is enough for both, since a session is only read by calls; the
clock passes the TTL once before and once after a demotion.
`MaxEdits`, `MaxCommits`, `MaxVersion`, `MaxLoads`, `MaxTime` and `MaxOps` bound the histories and
appear in the guards by name; `MaxGrants`, `MaxBindings` and `MaxOverrides` bound the lists of a
simulation, and `Requests` of `AdminManager` lists the edits asked for.

Deadlock is checked in the decision, agent, simulation and admin runs.  It is not in the publication runs and the
cache run, whose calls, clock and operations are finite in number.

Fairness.  `PublishPolicy!LiveSpec` asks that a call which has begun takes its
next step if it can: threads are scheduled, MySQL answers, and InnoDB grants a free
lock to a waiter (its lock queue is first-in first-out, so weak fairness per call is
less than it gives; while one holds the lock the others are not enabled, but each
call runs once, so the lock is free for good in the end).  Nothing makes a call
start, fail or commit without acknowledgement.  `DecisionEngine!LiveSpec` asks that a
worker which has begun goes on, and that an entry is dropped if it could be for
ever: `PutCached` is the only thing that renews an entry, and it happens only in a thread that
missed before the entry was there, of which there are finitely many, so every entry expires.  Changes and new requests are nobody's obligation.
`decision_edits` is the run under this specification: it has one thread, because with two the
graph of the temporal check is too large; that two threads cannot file an older set under a
newer version is `CacheSound`, proved for any number.  The other specifications
state no fairness, as their properties are about what may never happen.

## 4. Properties worth knowing

* `CacheSound`: an entry under version v was read in a state of version >= v.  The
  engine reads the version first and the rows later, so a slow reader may file
  *newer* rows under an old key, never older rows under a new key.
* `AnswerJustified`: an RBAC answer holds in a state no older than the version
  current when the request arrived, and in the request's lifetime if it came from the
  database.  It may lag behind unpublished edits; that is the design of the cache.
* `PublishedGrantsHonoured` is the promise of `README.md` on versions and caches: what a
  published version grants is never denied to a later request.
* `MatchedRolesNonEmpty` holds only because the AdminService never revokes: an operator's
  `DELETE` between two queries makes a permit that names no role.  `OwnerAllowJustified` and
  `PublishedGrantsHonoured` need it too (a flag switched off before the owner is set, a grant
  deleted after it was published); their run and their theorems are about `ApiEdits` only.
* `UndisturbedAnswerExact` ties the engine to the function `Decision`, and
  `LocalAnswerIsCentral` ties the agent to the same function at the version it names:
  together they say that the two engines, written twice, decide alike.
* `PredictionExact`, `PermitHolds` and `DenialOnlyMissesGrantedRoles` say what a simulation is
  good for.  Simulated bindings, owners and grants to others are predicted to the letter.  A
  permit can be trusted while only the AdminService edits, even if queries fail, as long as
  the simulated roles are enabled; a denial cannot, when a role was granted in the simulation.
* `AcknowledgedEditDone`: of two callers who both found the row absent only one is told that
  he created it; the unique keys see to that, not the existence checks.
* `InternalErrorExplained` lists every way to an INTERNAL_ERROR without a failure: a lost race,
  or an owner set to what it was (the UPDATE affects no row).  `lost` includes statements that
  were executed and whose answer was lost.
* `LockedOutByTtl`: a demoted or disabled administrator edits on with the flag copied at login,
  for at most the TTL and the time a login took.
* `EditsAreStoreChanges` ties `AdminManager` to `PolicyStore`: the statements of a call change
  the tables in the ways the decision engine was checked against, and in no other.
* `ImplementsMap`: `Get(k)` returns what the last `Put` stored under `k`, up to and including its
  deadline and never after, whatever is swept, evicted or invalidated.
* `StatusNamesSnapshot` says how far a status can be trusted: its fields are read under four locks
  and may come from four snapshots, but only forwards, and a status that reports a snapshot names
  one.  One that reports none may name one that was loaded while it was filled.
* `LatestIsFresh` is what `getLatestSnapshot` can promise: not the latest when the call is
  answered, but none older than the latest when it arrived, unless that was withdrawn.

## 5. Proofs

Proved by TLAPS for every value of the constants allowed by the `ASSUME`s of the
modules (which only say what the constants are: sentinels are not members, the first
state is a policy state with a positive version, bounds are naturals).  Every safety
property that a passing run checks is a theorem; so are the action properties and both
refinements.  Each module has one inductive invariant, `IInv`, proved action by action in
`Invariance`; a theorem about a property is then one implication.

* `PublishPolicy_proofs`.  `IInv` adds to the checked properties
  what makes them inductive: the transaction that is past `LockApp` owns the lock and
  its new version is `CurrentVersion + 1`; its view is not older than any stored
  snapshot and every section read so far is that of the view; the snapshots are dense
  from the first version.  From it: `TypeCorrect`, `SnapshotsConsistent`, `VersionsOrdered`,
  `PublicationAtomic`, `LogTellsOfSnapshots`, `AcknowledgedKept`, `AuditProgress`,
  `SnapshotsImmutable` (an action property) and
  `Refinement` (it implements `PolicyHistory`): only the two commit actions map to `Publish`,
  with the view as witness, and `Edit` to `Edit`; the rest stutter.
* `PolicyStore_proofs`.  What the proofs about the readers share.  Histories only grow and
  versions never fall; rows are never deleted; `QueriesAgree`
  says that the three RBAC queries are consistent in one state; `ServiceOnlyAdds`, that
  no call of the AdminService takes anything away.
* `DecisionEngine_proofs`.  `IInv` records for each worker at each place *which state*
  justifies what it holds: an index of `hist` in which its permissions were read, and
  one not before its arrival in which its roles were.  Because histories only grow, a
  witness stays a witness; only the action that makes the reading must supply one.
  From it: `TypeCorrect`, `CacheNeverStaleForItsKey`, `AnswersJustified`, `NobodyWithoutRole`.
  Two more invariants stand on it.  `ExactInv` says, for a worker nothing has disturbed, which
  tests of `Decision` it has passed at each place; a change of the tables ends it, a step
  of another worker keeps it (`EvaluateIsDecision`).  `ServiceInv` is for a system in which
  only the AdminService writes, which three theorems assume (`Edits \subseteq ApiEdits`; the
  two about lists also `~Failures`): every state only adds to the earlier ones, so the flag
  still holds when the owner is read, a permission that is held is held by a role among those
  read later, and what a version before the arrival gave is in every set read since
  (`OwnersHonest`, `PermitsExplainedByRoles`, `PublicationsHonoured`).  Without these
  assumptions the three are false: section 4 says how.
* `PolicySnapshot_proofs`.  `SnapshotReadBack`: a document read is the one written, so none of the
  reader's defaults is ever taken.  `LocalAgrees`: the look-ups of the index agree with the
  queries one by one, hence for every state of an enabled application, every version and every
  request, the decision from the index of the snapshot read back is `Decision(d, r)`.
  `PayloadIsDocument` and `LocalPermitsExplained` follow.
* `SnapshotAgent_proofs`.  `IInv` says what a handler's registers were taken from: a snapshot read
  is that of a version published by then and, where the latest was asked for, not older than
  those at the arrival; a copy is one of the engine's contents since the arrival; all of these
  are indexes of documents read back, so that `LocalAgrees` decides what they answer.  The lists
  `published` and `loaded` only grow and `withdrawn` is never undone, which keeps it true.
  Theorems: `TypeCorrect`, `ChecksAreCentral`, `NoGap`, `LatestWasLatest`, `ActivationsHappen`,
  `StatusIsNamed`.
* `AdminManager_proofs`.  `IInv` adds to the properties what is known at each place (who the
  operator is, that the rows it needs are there, that the row to be created is still absent or was
  created since the arrival, that a committed statement's change is in place at `commit`), and about sessions when the copy of the flag
  was taken: a session made after its administrator lost the rights was seen before.  Theorems:
  `TypeCorrect`, `EditsAcknowledgedAreDone`, `AuditsTellTheTruth`, `ErrorsExplained`, and the
  action properties `StoreChangesOnly` and `LockedOut`.  The proof corrected the model's claim:
  `AcknowledgedEditDone` used to say that no two acknowledged calls share a state of the
  tables, which fails for an owner set to what he is; it now says so of creations only.
* `SimulationEngine_proofs`.  Two conditional invariants: while nothing disturbs the simulation
  its sets are those of the present state (`Exact`); while rows are only added what it has seen
  is still so (`Course`).  What `Simulate` computes from one state is the function `Predicted`, and
  lemmas about functions compare that with `Decision` of the changed tables.  Theorems:
  `TypeCorrect`, `PredictionsAreExact`, `WrongDenialsExplained`, `PermitsHold`, and
  `PermitsHoldForService`, which needs no condition on the history since the AdminService only adds.
* `LocalCache_proofs`.  The entries are finitely many and none is from the future.  Everything
  rests on one lemma about `evictIfNeededLocked` (`EvictFacts`): what stays is part of what
  was there, fits the limit, and the counters grow by what went.  Theorems: `TypeCorrect`,
  `CountersBalance`, `LimitHolds`, `EvictionsFair` (an action property), and `Refinement`: the
  entries with their deadlines are a `VolatileMap`, to which `Put(k, v, ttl)` is `Store(k, v, ttl)`,
  `Get(k)` a `Hit(k)` or a `NoHit(k)` of the same key, and the eviction of `SetMaxEntries` a `Forget`.

Some assumptions and definitions are there for the proofs: the sentinels `NoSnapshot` and
`NoCall` are not members of the sets they are added to.

Only model-checked: the two liveness properties, `CallsFinish` and `CacheConverges`, and the
three violations of section 6.  Fairness and ENABLED are beyond the prover.

## 6. Where the code and its words differ

* `publish_lost_ack`: a `COMMIT` whose acknowledgement is lost throws; the code then
  writes a FAILED log and an audit row "policy_version = unchanged" for a version that
  has been published.
* `decision_partial`: `loadUserPermissions` says that it writes the database's result to
  the cache; the result of a failed query, possibly empty, is written too and stays for
  the TTL.
* `simulation_grant`: `src/README.md:799` says that a simulation tells whether a role granted
  for the time being would let the request pass; `buildEffectivePermssions` adds the simulated
  bindings to the permissions the user really has and never looks up those of the granted role, so
  the answer is a denial although the real grant would permit.

Seen while reading, and not the subject of a run:

* `createRole` and `createPermission` read the id back after the INSERT; when that query fails the
  call answers INTERNAL_ERROR and writes no audit row, although the role exists and
  `sql/init.sql:315` says that the log records every change of the configuration (`ReadId`).
* An owner set to what it was is answered with INTERNAL_ERROR (`UpdateOwner`).
* The `before_text` of an owner's audit row is read on another connection before the update
  (`admin_manager.cpp:621`), and may not be what was replaced.
* A simulated grant of a disabled role is accepted (`simulation_engine.cpp:147`) and, with a
  simulated binding, permits what the real grant would not.
* The four fields of the agent's status are read under four locks and may mix two snapshots;
  two activations may load in another order than they read, so that an older version
  replaces a newer one.
* The early returns of `Evaluate` leave no decision log, although `sql/init.sql:238` says
  every decision is recorded; `src/README.md` lists it as to be done.

## 7. Not modelled, and the plan

Left out for good: RPC field copying and generated code (`*.pb.h`, `*.pb.cc`: 33,520 of the 45,197
lines under `src/`), server wiring, the hashing of passwords, wording, traces and lists that only
format rows, the character level of JSON, and code the server never reaches as
`server_main.cpp` builds it: `BuildSnapshot`, `BuildAndStoreSnapshot`, `saveSnapshot`,
`setPolicyVersion`, `batchCheckPermissions` and the non-transactional `publishPolicy`.  Of the
hand-written sources every operation that changes state and that the server reaches is an action
of a module.

Order of work, most important first:

1. `PolicyHistory`, `PublishPolicy` and its proofs (done).
2. `PolicyStore`, `DecisionEngine` and their proofs, those that need the AdminService to be the
   only writer included (done).
3. `PolicyDecision`, `PolicySnapshot`, `SnapshotAgent` and their proofs (done).
4. `AdminManager` and its proofs (done).
5. `SimulationEngine` and its proofs (done).
6. `VolatileMap`, `LocalCache` and its proofs (done).
7. Theorems that tie the modules closer: `AdminManager` as an implementation of the history of
   `PolicyStore`, and the publications of `PublishPolicy` as those `PolicyStore` and
   `SnapshotAgent` take for granted (to do).
