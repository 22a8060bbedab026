----------------------- MODULE PublishPolicy_proofs -----------------------
(***************************************************************************)
(* Proofs about PublishPolicy, for any set of calls, any table contents    *)
(* and any number of edits.                                                *)
(*                                                                         *)
(* The inductive invariant IInv says that the lock on the application row  *)
(* keeps the number a transaction computed one ahead of the version row    *)
(* (LockInv, NumberInv), and that the read view, taken under that lock, is *)
(* at least as new as every snapshot committed before (ViewInv).           *)
(***************************************************************************)
EXTENDS PublishPolicy, SequenceTheorems, TLAPS

\* A transaction is open exactly while it holds the lock.
LockInv == \A c \in Calls : pc[c] \in TxPlaces <=> lock = c

\* Under the lock the version cannot move, and old_version never leads it.
NumberInv ==
    /\ FirstVersion <= CurrentVersion
    /\ \A c \in Calls :
          /\ pc[c] \in TxPlaces => new[c] = CurrentVersion + 1
          /\ pc[c] \in TxPlaces \cup {"lock"} => old[c] <= CurrentVersion
          /\ pc[c] = "audit" => old[c] < new[c]

\* What has been read was read in the read view, which no snapshot outruns.
ViewInv ==
    \A c \in Calls :
        /\ view[c] <= Len(hist)
        /\ pc[c] \in {"idle", "lock", "upsert"} => view[c] = 0
        /\ view[c] = 0 => \A s \in Sections : image[c][s] = Unread
        /\ view[c] # 0 =>
              \A s \in Sections : image[c][s] \in {Unread, hist[view[c]][s]}
        /\ pc[c] \in {"insert", "log", "commit"} =>
              \A s \in Sections : image[c][s] # Unread
        /\ pc[c] \in TxPlaces /\ view[c] # 0 =>
              \A v \in DOMAIN snaps : snaps[v].at <= view[c]

IInv ==
    /\ TypeOK
    /\ LockInv
    /\ NumberInv
    /\ ViewInv
    /\ VersionsHaveSnapshots
    /\ SnapshotIsOneState
    /\ SnapshotsOrdered
    /\ SuccessLogMatches
    /\ AcknowledgedPublishKept
    /\ AuditShowsProgress

-----------------------------------------------------------------------------
(* Steps of one call that touch only its own place, or the logs.           *)

\* The two ways COMMIT can end, as far as the database is concerned.
Committing(c) ==
    /\ pc[c] = "commit"
    /\ CommitTransaction(c)
    /\ \E place \in {"audit", "failedlog"} : Goto(c, place)

LEMMA CommitCases ==
    ASSUME NEW c \in Calls, Commit(c) \/ CommitUnacknowledged(c)
    PROVE  Committing(c)
BY DEF Commit, CommitUnacknowledged, Committing

LEMMA SectionFacts ==
    /\ \A i \in 1 .. 5 : SectionOrder[i] \in Sections
    /\ \A s \in Sections : \E i \in 1 .. 5 : SectionOrder[i] = s
<1>1. \A i \in 1 .. 5 : SectionOrder[i] \in Sections
    BY DEF SectionOrder, Sections
<1>2. ASSUME NEW s \in Sections PROVE \E i \in 1 .. 5 : SectionOrder[i] = s
    <2>1. SectionOrder[1] = "roles" /\ SectionOrder[2] = "permissions"
          /\ SectionOrder[3] = "role_permissions" /\ SectionOrder[4] = "user_roles"
          /\ SectionOrder[5] = "resources"
        BY DEF SectionOrder
    <2>2. 1 \in 1 .. 5 /\ 2 \in 1 .. 5 /\ 3 \in 1 .. 5 /\ 4 \in 1 .. 5 /\ 5 \in 1 .. 5
        OBVIOUS
    <2> QED BY <2>1, <2>2 DEF Sections
<1> QED BY <1>1, <1>2

\* The version a commit installs is the next one.
LEMMA CommitNumber ==
    ASSUME IInv, NEW c \in Calls, Committing(c)
    PROVE  /\ CurrentVersion \in Nat /\ FirstVersion \in Nat
           /\ new[c] = CurrentVersion + 1
           /\ CurrentVersion' = CurrentVersion + 1
           /\ new[c] \notin DOMAIN snaps
           /\ lock = c
<1>1. CurrentVersion \in Nat /\ FirstVersion \in Nat
    BY BoundsAssumption DEF IInv, TypeOK, CurrentVersion, FirstVersion
<1>2. pc[c] \in TxPlaces
    BY DEF Committing, TxPlaces
<1>3. new[c] = CurrentVersion + 1 /\ lock = c
    BY <1>2 DEF IInv, NumberInv, LockInv
<1>4. row' = new[c]
    BY DEF Committing, CommitTransaction
<1>5. CurrentVersion' = CurrentVersion + 1
    BY <1>1, <1>3, <1>4 DEF CurrentVersion
<1>6. new[c] \notin DOMAIN snaps
    BY <1>1, <1>3 DEF IInv, VersionsHaveSnapshots
<1> QED BY <1>1, <1>3, <1>5, <1>6

\* The snapshot a commit stores is the whole state of the read view.
LEMMA CommitImage ==
    ASSUME IInv, NEW c \in Calls, pc[c] = "commit"
    PROVE  /\ view[c] \in 1 .. Len(hist)
           /\ image[c] = hist[view[c]]
           /\ image[c] \in Policy
<1>1. view[c] \in Nat /\ Len(hist) \in Nat /\ view[c] <= Len(hist)
    BY DEF IInv, TypeOK, ViewInv
<1>2. \A s \in Sections : image[c][s] # Unread
    BY DEF IInv, ViewInv
<1>3. "roles" \in Sections
    BY DEF Sections
<1>4. view[c] # 0
    BY <1>2, <1>3 DEF IInv, ViewInv
<1>5. view[c] \in 1 .. Len(hist)
    BY <1>1, <1>4
<1>6. hist[view[c]] \in Policy
    BY <1>5 DEF IInv, TypeOK
<1>7. \A s \in Sections : image[c][s] = hist[view[c]][s]
    BY <1>2, <1>4 DEF IInv, ViewInv
<1>8. image[c] = hist[view[c]]
    BY <1>6, <1>7 DEF IInv, TypeOK, Policy
<1> QED BY <1>5, <1>6, <1>8


\* An edit adds one state to the history and keeps the others.
LEMMA EditAppends ==
    ASSUME TypeOK, Edit
    PROVE  /\ hist' \in Seq(Policy)
           /\ Len(hist') = Len(hist) + 1
           /\ \A i \in 1 .. Len(hist) : hist'[i] = hist[i]
<1>1. PICK s \in Sections, x \in Content :
         hist' = Append(hist, [hist[Len(hist)] EXCEPT ![s] = x])
    BY DEF Edit
<1>2. hist[Len(hist)] \in Policy
    BY DEF TypeOK
<1>3. [hist[Len(hist)] EXCEPT ![s] = x] \in Policy
    BY <1>2 DEF Policy
<1> QED BY <1>1, <1>3 DEF TypeOK

-----------------------------------------------------------------------------
(* Each part of IInv is preserved by every step.                           *)

LEMMA TypeStep == IInv /\ [Next]_vars => TypeOK'
<1> SUFFICES ASSUME IInv, [Next]_vars PROVE TypeOK'
    OBVIOUS
<1>0. TypeOK
    BY DEF IInv
<1> USE DEF dbVars, callVars, Goto
<1>1. ASSUME NEW c \in Calls, ReadOldVersion(c) PROVE TypeOK'
    BY <1>0, <1>1 DEF ReadOldVersion, TypeOK, CurrentVersion, Places
<1>2. ASSUME NEW c \in Calls, LockApp(c) PROVE TypeOK'
    BY <1>0, <1>2 DEF LockApp, TypeOK, CurrentVersion, Places, TxPlaces
<1>3. ASSUME NEW c \in Calls, RefuseApp(c) PROVE TypeOK'
    BY <1>0, <1>3 DEF RefuseApp, TypeOK, Places
<1>4. ASSUME NEW c \in Calls, UpsertVersion(c) PROVE TypeOK'
    BY <1>0, <1>4 DEF UpsertVersion, TypeOK, Places, TxPlaces
<1>5. ASSUME NEW c \in Calls, ReadSection(c) PROVE TypeOK'
    <2>1. ReadView(c) \in 1 .. Len(hist)
        BY <1>0 DEF TypeOK, IInv, ViewInv, ReadView
    <2>2. hist[ReadView(c)] \in Policy
        BY <1>0, <2>1 DEF TypeOK
    <2>3. PICK i \in 1 .. 5 :
             /\ image' = [image EXCEPT ![c][SectionOrder[i]] =
                                           hist[ReadView(c)][SectionOrder[i]]]
             /\ pc' = [pc EXCEPT ![c] = IF i = 5 THEN "insert" ELSE "read"]
        BY <1>5 DEF ReadSection
    <2>4. image' \in [Calls -> [Sections -> Content \cup {Unread}]]
        BY <1>0, <2>2, <2>3, SectionFacts DEF TypeOK, Policy
    <2>5. pc' \in [Calls -> Places]
        BY <1>0, <2>3 DEF TypeOK, Places, TxPlaces
    <2>6. view' \in [Calls -> Nat]
        BY <1>0, <1>5, <2>1 DEF TypeOK, ReadSection
    <2> QED BY <1>0, <1>5, <2>4, <2>5, <2>6 DEF TypeOK, ReadSection
<1>6. ASSUME NEW c \in Calls, InsertSnapshot(c) PROVE TypeOK'
    BY <1>0, <1>6 DEF InsertSnapshot, TypeOK, Places, TxPlaces
<1>7. ASSUME NEW c \in Calls, InsertSuccessLog(c) PROVE TypeOK'
    BY <1>0, <1>7 DEF InsertSuccessLog, TypeOK, Places, TxPlaces
<1>8. ASSUME NEW c \in Calls, Committing(c) PROVE TypeOK'
    <2>1. pc' \in [Calls -> Places]
        BY <1>0, <1>8 DEF TypeOK, Committing, Places
    <2>2. [image |-> image[c], at |-> view[c], by |-> c] \in SnapshotRow
        BY <1>0, <1>8, CommitImage DEF TypeOK, SnapshotRow, Committing
    <2>3. new[c] \in Nat
        BY <1>0 DEF TypeOK
    <2>4. DOMAIN snaps' \subseteq Nat /\ \A v \in DOMAIN snaps' : snaps'[v] \in SnapshotRow
        BY <1>0, <1>8, <2>2, <2>3 DEF TypeOK, Committing, CommitTransaction
    <2>5. logs' \subseteq LogRow
        BY <1>0, <1>8, <2>3 DEF TypeOK, Committing, CommitTransaction, LogRow
    <2> QED BY <1>0, <1>8, <2>1, <2>3, <2>4, <2>5 DEF TypeOK, Committing, CommitTransaction
<1>9. ASSUME NEW c \in Calls, WriteFailedLog(c) PROVE TypeOK'
    BY <1>0, <1>9 DEF WriteFailedLog, TypeOK, Places, LogRow
<1>10. ASSUME NEW c \in Calls, AnswerOk(c) PROVE TypeOK'
    BY <1>0, <1>10 DEF AnswerOk, WriteAudit, TypeOK, Places, Finished, AuditRow
<1>11. ASSUME NEW c \in Calls, AnswerFailed(c) PROVE TypeOK'
    BY <1>0, <1>11 DEF AnswerFailed, WriteAudit, TypeOK, Places, Finished, AuditRow
<1>12. ASSUME NEW c \in Calls, FailTransaction(c) PROVE TypeOK'
    BY <1>0, <1>12 DEF FailTransaction, TypeOK, Places
<1>13. CASE Edit
    <2>1. hist' \in Seq(Policy) /\ Len(hist') > 0
        BY <1>0, <1>13, EditAppends DEF TypeOK
    <2> QED BY <1>0, <1>13, <2>1 DEF TypeOK, Edit
<1>14. CASE SwitchApp
    BY <1>0, <1>14 DEF SwitchApp, TypeOK
<1>15. CASE Crash
    BY <1>0, <1>15 DEF Crash, TypeOK, Places, Finished
<1>16. CASE UNCHANGED vars
    BY <1>0, <1>16 DEF vars, TypeOK
<1> QED
    BY <1>1, <1>2, <1>3, <1>4, <1>5, <1>6, <1>7, <1>8, <1>9, <1>10, <1>11,
       <1>12, <1>13, <1>14, <1>15, <1>16, CommitCases DEF Next, Proceed

LEMMA LockStep == IInv /\ [Next]_vars => LockInv'
<1> SUFFICES ASSUME IInv, [Next]_vars PROVE LockInv'
    OBVIOUS
<1>0. LockInv /\ pc \in [Calls -> Places] /\ NoCall \notin Calls
    BY CallsAssumption DEF IInv, TypeOK
<1> USE DEF LockInv, dbVars, callVars, Goto, TxPlaces
<1>1. ASSUME NEW c \in Calls, ReadOldVersion(c) PROVE LockInv'
    BY <1>0, <1>1 DEF ReadOldVersion
<1>2. ASSUME NEW c \in Calls, LockApp(c) PROVE LockInv'
    BY <1>0, <1>2 DEF LockApp
<1>3. ASSUME NEW c \in Calls, RefuseApp(c) PROVE LockInv'
    BY <1>0, <1>3 DEF RefuseApp
<1>4. ASSUME NEW c \in Calls, UpsertVersion(c) PROVE LockInv'
    BY <1>0, <1>4 DEF UpsertVersion
<1>5. ASSUME NEW c \in Calls, ReadSection(c) PROVE LockInv'
    BY <1>0, <1>5 DEF ReadSection
<1>6. ASSUME NEW c \in Calls, InsertSnapshot(c) PROVE LockInv'
    BY <1>0, <1>6 DEF InsertSnapshot
<1>7. ASSUME NEW c \in Calls, InsertSuccessLog(c) PROVE LockInv'
    BY <1>0, <1>7 DEF InsertSuccessLog
<1>8. ASSUME NEW c \in Calls, Committing(c) PROVE LockInv'
    BY <1>0, <1>8 DEF Committing, CommitTransaction
<1>9. ASSUME NEW c \in Calls, WriteFailedLog(c) PROVE LockInv'
    BY <1>0, <1>9 DEF WriteFailedLog
<1>10. ASSUME NEW c \in Calls, AnswerOk(c) PROVE LockInv'
    BY <1>0, <1>10 DEF AnswerOk, WriteAudit
<1>11. ASSUME NEW c \in Calls, AnswerFailed(c) PROVE LockInv'
    BY <1>0, <1>11 DEF AnswerFailed, WriteAudit
<1>12. ASSUME NEW c \in Calls, FailTransaction(c) PROVE LockInv'
    BY <1>0, <1>12 DEF FailTransaction
<1>13. CASE Edit
    BY <1>0, <1>13 DEF Edit
<1>14. CASE SwitchApp
    BY <1>0, <1>14 DEF SwitchApp
<1>15. CASE Crash
    BY <1>0, <1>15 DEF Crash, Finished
<1>16. CASE UNCHANGED vars
    BY <1>0, <1>16 DEF vars
<1> QED
    BY <1>1, <1>2, <1>3, <1>4, <1>5, <1>6, <1>7, <1>8, <1>9, <1>10, <1>11,
       <1>12, <1>13, <1>14, <1>15, <1>16, CommitCases DEF Next, Proceed
LEMMA NumberStep == IInv /\ [Next]_vars => NumberInv'
<1> SUFFICES ASSUME IInv, [Next]_vars PROVE NumberInv'
    OBVIOUS
<1>0. /\ TypeOK /\ LockInv /\ NumberInv
      /\ CurrentVersion \in Nat \ {0} /\ FirstVersion \in Nat
    BY BoundsAssumption DEF IInv, TypeOK, CurrentVersion, FirstVersion
<1>a. row' = row => CurrentVersion' = CurrentVersion /\ FirstVersion' = FirstVersion
    BY DEF CurrentVersion, FirstVersion
<1> USE DEF NumberInv, TypeOK, dbVars, callVars, Goto, TxPlaces
<1>1. ASSUME NEW c \in Calls, ReadOldVersion(c) PROVE NumberInv'
    BY <1>0, <1>a, <1>1 DEF ReadOldVersion
<1>2. ASSUME NEW c \in Calls, LockApp(c) PROVE NumberInv'
    BY <1>0, <1>a, <1>2 DEF LockApp
<1>3. ASSUME NEW c \in Calls, RefuseApp(c) PROVE NumberInv'
    BY <1>0, <1>a, <1>3 DEF RefuseApp
<1>4. ASSUME NEW c \in Calls, UpsertVersion(c) PROVE NumberInv'
    BY <1>0, <1>a, <1>4 DEF UpsertVersion
<1>5. ASSUME NEW c \in Calls, ReadSection(c) PROVE NumberInv'
    BY <1>0, <1>a, <1>5 DEF ReadSection
<1>6. ASSUME NEW c \in Calls, InsertSnapshot(c) PROVE NumberInv'
    BY <1>0, <1>a, <1>6 DEF InsertSnapshot
<1>7. ASSUME NEW c \in Calls, InsertSuccessLog(c) PROVE NumberInv'
    BY <1>0, <1>a, <1>7 DEF InsertSuccessLog
<1>8. ASSUME NEW c \in Calls, Committing(c) PROVE NumberInv'
    <2>1. /\ new[c] = CurrentVersion + 1
          /\ CurrentVersion' = CurrentVersion + 1
          /\ FirstVersion' = FirstVersion
        BY <1>8, CommitNumber DEF FirstVersion
    <2>2. \A d \in Calls : pc[d] \in TxPlaces => d = c
        BY <1>0, <1>a, <1>8, CommitNumber DEF LockInv
    <2> QED BY <1>0, <1>a, <1>8, <2>1, <2>2 DEF Committing, CommitTransaction
<1>9. ASSUME NEW c \in Calls, WriteFailedLog(c) PROVE NumberInv'
    BY <1>0, <1>a, <1>9 DEF WriteFailedLog
<1>10. ASSUME NEW c \in Calls, AnswerOk(c) PROVE NumberInv'
    BY <1>0, <1>a, <1>10 DEF AnswerOk, WriteAudit
<1>11. ASSUME NEW c \in Calls, AnswerFailed(c) PROVE NumberInv'
    BY <1>0, <1>a, <1>11 DEF AnswerFailed, WriteAudit
<1>12. ASSUME NEW c \in Calls, FailTransaction(c) PROVE NumberInv'
    BY <1>0, <1>a, <1>12 DEF FailTransaction
<1>13. CASE Edit
    BY <1>0, <1>a, <1>13 DEF Edit
<1>14. CASE SwitchApp
    BY <1>0, <1>a, <1>14 DEF SwitchApp
<1>15. CASE Crash
    BY <1>0, <1>a, <1>15 DEF Crash, Finished
<1>16. CASE UNCHANGED vars
    BY <1>0, <1>a, <1>16 DEF vars
<1> QED
    BY <1>1, <1>2, <1>3, <1>4, <1>5, <1>6, <1>7, <1>8, <1>9, <1>10, <1>11,
       <1>12, <1>13, <1>14, <1>15, <1>16, CommitCases DEF Next, Proceed


LEMMA ViewStep == IInv /\ [Next]_vars => ViewInv'
<1> SUFFICES ASSUME IInv, [Next]_vars PROVE ViewInv'
    OBVIOUS
<1>0. ViewInv /\ TypeOK
    BY DEF IInv
<1> USE DEF ViewInv, TypeOK, dbVars, callVars, Goto, TxPlaces
<1>1. ASSUME NEW c \in Calls, ReadOldVersion(c) PROVE ViewInv'
    BY <1>0, <1>1 DEF ReadOldVersion
<1>2. ASSUME NEW c \in Calls, LockApp(c) PROVE ViewInv'
    BY <1>0, <1>2 DEF LockApp
<1>3. ASSUME NEW c \in Calls, RefuseApp(c) PROVE ViewInv'
    BY <1>0, <1>3 DEF RefuseApp
<1>4. ASSUME NEW c \in Calls, UpsertVersion(c) PROVE ViewInv'
    BY <1>0, <1>4 DEF UpsertVersion
<1>5. ASSUME NEW c \in Calls, ReadSection(c) PROVE ViewInv'
    <2>1. PICK i \in 1 .. 5 :
             /\ image[c][SectionOrder[i]] = Unread
             /\ \A j \in 1 .. (i - 1) : image[c][SectionOrder[j]] # Unread
             /\ image' = [image EXCEPT ![c][SectionOrder[i]] =
                                           hist[ReadView(c)][SectionOrder[i]]]
             /\ pc' = [pc EXCEPT ![c] = IF i = 5 THEN "insert" ELSE "read"]
        BY <1>5 DEF ReadSection
    <2> DEFINE s == SectionOrder[i]
    <2>2. /\ pc[c] = "read"
          /\ view' = [view EXCEPT ![c] = ReadView(c)]
          /\ hist' = hist /\ snaps' = snaps
        BY <1>5 DEF ReadSection
    <2>3. ReadView(c) \in 1 .. Len(hist) /\ hist[ReadView(c)] \in Policy
        BY <1>0 DEF ReadView
    <2>4. s \in Sections
        BY SectionFacts
    <2>5. \A t \in Sections : image[c][t] \in {Unread, hist[ReadView(c)][t]}
        BY <1>0 DEF ReadView
    <2>6. hist[ReadView(c)][s] # Unread
        BY <2>3, <2>4, ContentAssumption DEF Policy
    <2>7. view'[c] = ReadView(c) /\ view'[c] # 0 /\ view'[c] <= Len(hist)
        BY <1>0, <2>2, <2>3
    <2>8. \A t \in Sections : image'[c][t] \in {Unread, hist[view'[c]][t]}
        BY <1>0, <2>1, <2>4, <2>5, <2>7
    <2>9. i = 5 => \A t \in Sections : image'[c][t] # Unread
        <3> SUFFICES ASSUME i = 5, NEW t \in Sections PROVE image'[c][t] # Unread
            OBVIOUS
        <3>1. PICK j \in 1 .. 5 : SectionOrder[j] = t
            BY SectionFacts
        <3>2. CASE t = s
            BY <1>0, <2>1, <2>4, <2>6, <3>2
        <3>3. CASE t # s
            <4>1. j \in 1 .. (i - 1)
                BY <3>1, <3>3
            <4>2. image[c][t] # Unread
                BY <2>1, <3>1, <4>1
            <4> QED BY <1>0, <2>1, <3>3, <4>2
        <3> QED BY <3>2, <3>3
    <2>10. \A v \in DOMAIN snaps : snaps[v].at <= ReadView(c)
        BY <1>0, <2>2 DEF ReadView, IInv, SnapshotIsOneState
    <2>11. ASSUME NEW d \in Calls, d # c
           PROVE  pc'[d] = pc[d] /\ view'[d] = view[d] /\ image'[d] = image[d]
        BY <1>0, <2>1, <2>2, <2>11
    <2>12. pc'[c] \in {"read", "insert"} /\ (pc'[c] = "insert" => i = 5)
        BY <1>0, <2>1
    <2> QED BY <1>0, <2>2, <2>7, <2>8, <2>9, <2>10, <2>11, <2>12
<1>6. ASSUME NEW c \in Calls, InsertSnapshot(c) PROVE ViewInv'
    BY <1>0, <1>6 DEF InsertSnapshot
<1>7. ASSUME NEW c \in Calls, InsertSuccessLog(c) PROVE ViewInv'
    BY <1>0, <1>7 DEF InsertSuccessLog
<1>8. ASSUME NEW c \in Calls, Committing(c) PROVE ViewInv'
    <2>1. \A d \in Calls : pc[d] \in TxPlaces => d = c
        BY <1>8, CommitNumber DEF IInv, LockInv
    <2>2. pc'[c] \notin TxPlaces \cup {"idle", "lock"}
        BY <1>0, <1>8 DEF Committing
    <2>3. \A d \in Calls : d # c => pc'[d] = pc[d]
        BY <1>0, <1>8 DEF Committing
    <2>4. hist' = hist /\ view' = view /\ image' = image
        BY <1>8 DEF Committing, CommitTransaction
    <2> QED BY <1>0, <2>1, <2>2, <2>3, <2>4
<1>9. ASSUME NEW c \in Calls, WriteFailedLog(c) PROVE ViewInv'
    BY <1>0, <1>9 DEF WriteFailedLog
<1>10. ASSUME NEW c \in Calls, AnswerOk(c) PROVE ViewInv'
    BY <1>0, <1>10 DEF AnswerOk, WriteAudit
<1>11. ASSUME NEW c \in Calls, AnswerFailed(c) PROVE ViewInv'
    BY <1>0, <1>11 DEF AnswerFailed, WriteAudit
<1>12. ASSUME NEW c \in Calls, FailTransaction(c) PROVE ViewInv'
    BY <1>0, <1>12 DEF FailTransaction
<1>13. CASE Edit
    <2>1. /\ Len(hist) \in Nat /\ Len(hist') = Len(hist) + 1
          /\ \A i \in 1 .. Len(hist) : hist'[i] = hist[i]
        BY <1>0, <1>13, EditAppends
    <2>2. UNCHANGED <<pc, view, image, snaps>>
        BY <1>13 DEF Edit
    <2>3. \A d \in Calls : view[d] # 0 => hist'[view[d]] = hist[view[d]]
        BY <1>0, <2>1
    <2>4. \A d \in Calls : view[d] <= Len(hist')
        BY <1>0, <2>1
    <2> QED BY <1>0, <2>2, <2>3, <2>4
<1>14. CASE SwitchApp
    BY <1>0, <1>14 DEF SwitchApp
<1>15. CASE Crash
    BY <1>0, <1>15 DEF Crash, Finished
<1>16. CASE UNCHANGED vars
    BY <1>0, <1>16 DEF vars
<1> QED
    BY <1>1, <1>2, <1>3, <1>4, <1>5, <1>6, <1>7, <1>8, <1>9, <1>10, <1>11,
       <1>12, <1>13, <1>14, <1>15, <1>16, CommitCases DEF Next, Proceed

\* Only a commit writes the version row and the snapshots, and only an edit
\* the policy tables.
LEMMA Writers ==
    ASSUME [Next]_vars
    PROVE  /\ (\E c \in Calls : Committing(c)) \/ UNCHANGED <<row, snaps>>
           /\ Edit \/ UNCHANGED hist
<1> USE DEF dbVars, callVars
<1>1. CASE UNCHANGED vars
    BY <1>1 DEF vars
<1>2. CASE Edit
    BY <1>2 DEF Edit
<1>3. CASE SwitchApp \/ Crash
    BY <1>3 DEF SwitchApp, Crash
<1>4. ASSUME NEW c \in Calls,
             \/ ReadOldVersion(c) \/ LockApp(c) \/ RefuseApp(c) \/ UpsertVersion(c)
             \/ ReadSection(c) \/ InsertSnapshot(c) \/ InsertSuccessLog(c)
             \/ WriteFailedLog(c) \/ AnswerOk(c) \/ AnswerFailed(c)
             \/ FailTransaction(c)
      PROVE  UNCHANGED <<row, snaps, hist>>
    BY <1>4 DEF ReadOldVersion, LockApp, RefuseApp, UpsertVersion, ReadSection,
        InsertSnapshot, InsertSuccessLog, WriteFailedLog, AnswerOk, AnswerFailed,
        WriteAudit, FailTransaction
<1>5. ASSUME NEW c \in Calls, Commit(c) \/ CommitUnacknowledged(c)
      PROVE  Committing(c) /\ UNCHANGED hist
    BY <1>5, CommitCases DEF Committing, CommitTransaction
<1> QED
    BY <1>1, <1>2, <1>3, <1>4, <1>5 DEF Next, Proceed

\* What a commit does to the snapshots.
LEMMA CommitAdds ==
    ASSUME IInv, NEW c \in Calls, Committing(c)
    PROVE  /\ DOMAIN snaps' = DOMAIN snaps \cup {new[c]}
           /\ \A v \in DOMAIN snaps : snaps'[v] = snaps[v]
           /\ snaps'[new[c]].image = image[c]
           /\ snaps'[new[c]].at = view[c]
           /\ snaps'[new[c]].by = c
           /\ new[c] \notin DOMAIN snaps
           /\ hist' = hist
<1>1. new[c] \notin DOMAIN snaps
    BY CommitNumber
<1>2. /\ snaps' = [v \in DOMAIN snaps \cup {new[c]} |->
                      IF v = new[c]
                      THEN [image |-> image[c], at |-> view[c], by |-> c]
                      ELSE snaps[v]]
      /\ hist' = hist
    BY DEF Committing, CommitTransaction
<1> QED BY <1>1, <1>2

LEMMA DenseStep == IInv /\ [Next]_vars => VersionsHaveSnapshots'
<1> SUFFICES ASSUME IInv, [Next]_vars PROVE VersionsHaveSnapshots'
    OBVIOUS
<1>0. VersionsHaveSnapshots /\ NumberInv
    BY DEF IInv
<1>1. ASSUME NEW c \in Calls, Committing(c) PROVE VersionsHaveSnapshots'
    <2>1. DOMAIN snaps' = DOMAIN snaps \cup {CurrentVersion + 1}
        BY <1>1, CommitNumber, CommitAdds
    <2>2. /\ CurrentVersion \in Nat /\ FirstVersion \in Nat
          /\ CurrentVersion' = CurrentVersion + 1 /\ FirstVersion' = FirstVersion
        BY <1>1, CommitNumber DEF FirstVersion
    <2>3. FirstVersion <= CurrentVersion
        BY <1>0 DEF NumberInv
    <2> QED BY <1>0, <2>1, <2>2, <2>3 DEF VersionsHaveSnapshots
<1>2. CASE UNCHANGED <<row, snaps>>
    BY <1>0, <1>2 DEF VersionsHaveSnapshots, CurrentVersion, FirstVersion
<1> QED BY <1>1, <1>2, Writers

LEMMA OneStateStep == IInv /\ [Next]_vars => SnapshotIsOneState'
<1> SUFFICES ASSUME IInv, [Next]_vars PROVE SnapshotIsOneState'
    OBVIOUS
<1>0. SnapshotIsOneState /\ TypeOK
    BY DEF IInv
<1>1. ASSUME NEW c \in Calls, Committing(c) PROVE SnapshotIsOneState'
    <2>1. pc[c] = "commit"
        BY <1>1 DEF Committing
    <2>2. view[c] \in 1 .. Len(hist) /\ image[c] = hist[view[c]]
        BY <2>1, CommitImage
    <2>3. /\ DOMAIN snaps' = DOMAIN snaps \cup {new[c]}
          /\ \A v \in DOMAIN snaps : snaps'[v] = snaps[v]
          /\ snaps'[new[c]].image = image[c] /\ snaps'[new[c]].at = view[c]
          /\ hist' = hist
        BY <1>1, CommitAdds
    <2> QED BY <1>0, <2>2, <2>3 DEF SnapshotIsOneState
<1>2. CASE UNCHANGED snaps /\ Edit
    <2>1. /\ Len(hist) \in Nat /\ Len(hist') = Len(hist) + 1
          /\ \A i \in 1 .. Len(hist) : hist'[i] = hist[i]
        BY <1>0, <1>2, EditAppends DEF TypeOK
    <2> QED BY <1>0, <1>2, <2>1 DEF SnapshotIsOneState
<1>3. CASE UNCHANGED <<snaps, hist>>
    BY <1>0, <1>3 DEF SnapshotIsOneState
<1>4. ASSUME NEW c \in Calls, Committing(c) PROVE UNCHANGED hist
    BY <1>4 DEF Committing, CommitTransaction
<1> QED BY <1>1, <1>2, <1>3, <1>4, Writers

LEMMA OrderedStep == IInv /\ [Next]_vars => SnapshotsOrdered'
<1> SUFFICES ASSUME IInv, [Next]_vars PROVE SnapshotsOrdered'
    OBVIOUS
<1>0. SnapshotsOrdered /\ TypeOK
    BY DEF IInv
<1>1. ASSUME NEW c \in Calls, Committing(c) PROVE SnapshotsOrdered'
    <2>1. pc[c] \in TxPlaces /\ pc[c] = "commit"
        BY <1>1 DEF Committing, TxPlaces
    <2>2. view[c] \in Nat \ {0}
        BY <2>1, CommitImage DEF IInv, TypeOK
    <2>3. \A v \in DOMAIN snaps : snaps[v].at <= view[c]
        BY <2>1, <2>2 DEF IInv, ViewInv
    <2>4. \A v \in DOMAIN snaps : v \in Nat /\ v < new[c]
        BY <1>1, CommitNumber DEF IInv, VersionsHaveSnapshots
    <2>5. new[c] \in Nat
        BY <1>0 DEF TypeOK
    <2>6. /\ DOMAIN snaps' = DOMAIN snaps \cup {new[c]}
          /\ \A v \in DOMAIN snaps : snaps'[v] = snaps[v]
          /\ snaps'[new[c]].at = view[c]
        BY <1>1, CommitAdds
    <2> QED BY <1>0, <2>2, <2>3, <2>4, <2>5, <2>6 DEF SnapshotsOrdered
<1>2. CASE UNCHANGED snaps
    BY <1>0, <1>2 DEF SnapshotsOrdered
<1> QED BY <1>1, <1>2, Writers

LEMMA LogStep == IInv /\ [Next]_vars => SuccessLogMatches'
<1> SUFFICES ASSUME IInv, [Next]_vars PROVE SuccessLogMatches'
    OBVIOUS
<1>0. SuccessLogMatches /\ TypeOK
    BY DEF IInv
<1> USE DEF dbVars, callVars
<1>1. ASSUME NEW c \in Calls, Committing(c) PROVE SuccessLogMatches'
    <2>1. logs' = logs \cup {[call |-> c, result |-> "SUCCESS", version |-> new[c]]}
        BY <1>1 DEF Committing, CommitTransaction
    <2>2. /\ DOMAIN snaps' = DOMAIN snaps \cup {new[c]}
          /\ \A v \in DOMAIN snaps : snaps'[v].by = snaps[v].by
          /\ snaps'[new[c]].by = c
          /\ new[c] \notin DOMAIN snaps
        BY <1>1, CommitAdds
    <2> QED BY <1>0, <2>1, <2>2 DEF SuccessLogMatches
<1>2. ASSUME NEW c \in Calls, WriteFailedLog(c) PROVE SuccessLogMatches'
    BY <1>0, <1>2 DEF WriteFailedLog, SuccessLogMatches
<1>3. CASE UNCHANGED <<snaps, logs>>
    BY <1>0, <1>3 DEF SuccessLogMatches
<1>4. ASSUME NEW c \in Calls,
             \/ ReadOldVersion(c) \/ LockApp(c) \/ RefuseApp(c) \/ UpsertVersion(c)
             \/ ReadSection(c) \/ InsertSnapshot(c) \/ InsertSuccessLog(c)
             \/ AnswerOk(c) \/ AnswerFailed(c) \/ FailTransaction(c)
      PROVE  UNCHANGED <<snaps, logs>>
    BY <1>4 DEF ReadOldVersion, LockApp, RefuseApp, UpsertVersion, ReadSection,
        InsertSnapshot, InsertSuccessLog, AnswerOk, AnswerFailed,
        WriteAudit, FailTransaction
<1>5. CASE Edit \/ SwitchApp \/ Crash \/ UNCHANGED vars
    BY <1>3, <1>5 DEF Edit, SwitchApp, Crash, vars
<1> QED
    BY <1>1, <1>2, <1>3, <1>4, <1>5, CommitCases DEF Next, Proceed

LEMMA AckStep == IInv /\ [Next]_vars => AcknowledgedPublishKept'
<1> SUFFICES ASSUME IInv, [Next]_vars PROVE AcknowledgedPublishKept'
    OBVIOUS
<1>0. AcknowledgedPublishKept /\ TypeOK
    BY DEF IInv
<1> USE DEF AcknowledgedPublishKept, dbVars, callVars, Goto
<1>1. ASSUME NEW c \in Calls, Committing(c) PROVE AcknowledgedPublishKept'
    <2>1. new' = new /\ \A d \in Calls : d # c => pc'[d] = pc[d]
        BY <1>0, <1>1 DEF Committing, CommitTransaction, TypeOK
    <2>2. /\ DOMAIN snaps' = DOMAIN snaps \cup {new[c]}
          /\ \A v \in DOMAIN snaps : snaps'[v] = snaps[v]
          /\ snaps'[new[c]].by = c
        BY <1>1, CommitAdds
    <2> QED BY <1>0, <2>1, <2>2
<1>2. ASSUME NEW c \in Calls, AnswerOk(c) PROVE AcknowledgedPublishKept'
    BY <1>0, <1>2 DEF AnswerOk, WriteAudit, TypeOK
<1>3. ASSUME NEW c \in Calls, LockApp(c) PROVE AcknowledgedPublishKept'
    BY <1>0, <1>3 DEF LockApp, TypeOK
<1>4. ASSUME NEW c \in Calls, NEW place \in Places \ {"audit", "ok"}, Goto(c, place),
             UNCHANGED <<snaps, new>>
      PROVE  AcknowledgedPublishKept'
    BY <1>0, <1>4 DEF TypeOK
<1>5. ASSUME NEW c \in Calls,
             \/ ReadOldVersion(c) \/ RefuseApp(c) \/ UpsertVersion(c)
             \/ ReadSection(c) \/ InsertSnapshot(c) \/ InsertSuccessLog(c)
             \/ WriteFailedLog(c) \/ AnswerFailed(c) \/ FailTransaction(c)
      PROVE  AcknowledgedPublishKept'
    <2>1. \E place \in Places \ {"audit", "ok"} : Goto(c, place)
        BY <1>5 DEF ReadOldVersion, RefuseApp, UpsertVersion, ReadSection,
            InsertSnapshot, InsertSuccessLog, WriteFailedLog, AnswerFailed,
            FailTransaction, Places, TxPlaces, Finished
    <2>2. UNCHANGED <<snaps, new>>
        BY <1>5 DEF ReadOldVersion, RefuseApp, UpsertVersion, ReadSection,
            InsertSnapshot, InsertSuccessLog, WriteFailedLog, AnswerFailed,
            WriteAudit, FailTransaction
    <2> QED BY <1>4, <2>1, <2>2
<1>6. CASE Edit \/ SwitchApp \/ UNCHANGED vars
    BY <1>0, <1>6 DEF Edit, SwitchApp, vars
<1>7. CASE Crash
    BY <1>0, <1>7 DEF Crash, Finished
<1> QED
    BY <1>1, <1>2, <1>3, <1>5, <1>6, <1>7, CommitCases DEF Next, Proceed

LEMMA AuditStep == IInv /\ [Next]_vars => AuditShowsProgress'
<1> SUFFICES ASSUME IInv, [Next]_vars PROVE AuditShowsProgress'
    OBVIOUS
<1>0. AuditShowsProgress /\ NumberInv
    BY DEF IInv
<1> USE DEF AuditShowsProgress, dbVars, callVars
<1>1. ASSUME NEW c \in Calls, AnswerOk(c) PROVE AuditShowsProgress'
    BY <1>0, <1>1 DEF AnswerOk, WriteAudit, NumberInv
<1>2. ASSUME NEW c \in Calls, AnswerFailed(c) PROVE AuditShowsProgress'
    BY <1>0, <1>2 DEF AnswerFailed, WriteAudit
<1>3. CASE UNCHANGED audits
    BY <1>0, <1>3
<1>4. ASSUME NEW c \in Calls,
             \/ ReadOldVersion(c) \/ LockApp(c) \/ RefuseApp(c) \/ UpsertVersion(c)
             \/ ReadSection(c) \/ InsertSnapshot(c) \/ InsertSuccessLog(c)
             \/ Committing(c) \/ WriteFailedLog(c) \/ FailTransaction(c)
      PROVE  UNCHANGED audits
    BY <1>4 DEF ReadOldVersion, LockApp, RefuseApp, UpsertVersion, ReadSection,
        InsertSnapshot, InsertSuccessLog, Committing, CommitTransaction,
        WriteFailedLog, FailTransaction
<1>5. CASE Edit \/ SwitchApp \/ Crash \/ UNCHANGED vars
    BY <1>3, <1>5 DEF Edit, SwitchApp, Crash, vars
<1> QED
    BY <1>1, <1>2, <1>3, <1>4, <1>5, CommitCases DEF Next, Proceed

-----------------------------------------------------------------------------
(* The theorems.                                                           *)

LEMMA InitIInv == Init => IInv
<1> SUFFICES ASSUME Init PROVE IInv
    OBVIOUS
<1> USE ContentAssumption, BoundsAssumption, CallsAssumption DEF Init
<1>1. TypeOK
    BY DEF TypeOK, Places, Policy
<1>2. LockInv /\ ViewInv
    BY DEF LockInv, ViewInv, TxPlaces
<1>3. NumberInv /\ VersionsHaveSnapshots
    BY DEF NumberInv, VersionsHaveSnapshots, CurrentVersion, FirstVersion, TxPlaces
<1>4. SnapshotIsOneState /\ SnapshotsOrdered /\ SuccessLogMatches
    BY DEF SnapshotIsOneState, SnapshotsOrdered, SuccessLogMatches
<1>5. AcknowledgedPublishKept /\ AuditShowsProgress
    BY DEF AcknowledgedPublishKept, AuditShowsProgress
<1> QED BY <1>1, <1>2, <1>3, <1>4, <1>5 DEF IInv

\* IInv holds of every reachable state.
THEOREM Invariance == Spec => []IInv
<1>1. IInv /\ [Next]_vars => IInv'
    BY TypeStep, LockStep, NumberStep, ViewStep, DenseStep, OneStateStep,
       OrderedStep, LogStep, AckStep, AuditStep DEF IInv
<1> QED BY InitIInv, <1>1, PTL DEF Spec

\* Type correctness of PublishPolicy.
THEOREM TypeCorrect == Spec => []TypeOK
<1>1. IInv => TypeOK
    BY DEF IInv
<1> QED BY Invariance, <1>1, PTL

\* Whatever is edited while a transaction reads the five policy tables, the
\* snapshot it stores is one committed state of them.
THEOREM SnapshotsConsistent == Spec => []SnapshotIsOneState
<1>1. IInv => SnapshotIsOneState
    BY DEF IInv
<1> QED BY Invariance, <1>1, PTL

\* A later version never goes back to an older state of the tables, in whatever
\* order the calls began and read them.
THEOREM VersionsOrdered == Spec => []SnapshotsOrdered
<1>1. IInv => SnapshotsOrdered
    BY DEF IInv
<1> QED BY Invariance, <1>1, PTL

\* The version row and the snapshot rows are committed together: every version
\* up to the current one has its snapshot, and no other has.
THEOREM PublicationAtomic == Spec => []VersionsHaveSnapshots
<1>1. IInv => VersionsHaveSnapshots
    BY DEF IInv
<1> QED BY Invariance, <1>1, PTL

\* A SUCCESS row of the publish log is committed with the snapshot it tells of,
\* through failures of COMMIT and crashes.
THEOREM LogTellsOfSnapshots == Spec => []SuccessLogMatches
<1>1. IInv => SuccessLogMatches
    BY DEF IInv
<1> QED BY Invariance, <1>1, PTL

\* A call that answered success keeps the version it was given.
THEOREM AcknowledgedKept == Spec => []AcknowledgedPublishKept
<1>1. IInv => AcknowledgedPublishKept
    BY DEF IInv
<1> QED BY Invariance, <1>1, PTL

\* The audit row of a success never shows the version standing or going back.
THEOREM AuditProgress == Spec => []AuditShowsProgress
<1>1. IInv => AuditShowsProgress
    BY DEF IInv
<1> QED BY Invariance, <1>1, PTL

\* No stored snapshot is ever overwritten or removed, although the statement
\* that stores one is an upsert.
THEOREM SnapshotsImmutable == Spec => PublishedForever
<1> DEFINE Kept == \A v \in DOMAIN snaps : v \in DOMAIN snaps' /\ snaps'[v] = snaps[v]
<1>1. IInv /\ [Next]_vars => Kept
    <2> SUFFICES ASSUME IInv, [Next]_vars PROVE Kept
        OBVIOUS
    <2>1. ASSUME NEW c \in Calls, Committing(c) PROVE Kept
        BY <2>1, CommitAdds
    <2>2. CASE UNCHANGED snaps
        BY <2>2
    <2> QED BY <2>1, <2>2, Writers
<1>2. IInv /\ [Next]_vars => [Kept]_vars
    BY <1>1
<1> QED BY Invariance, <1>2, PTL DEF Spec, PublishedForever
-----------------------------------------------------------------------------
(* PublishPolicy implements PolicyHistory.                                 *)

\* The published states are a sequence, one for each version since the start.
PublishedInv ==
    /\ CurrentVersion - FirstVersion \in Nat
    /\ Published \in Seq(Nat)
    /\ Len(Published) = CurrentVersion - FirstVersion
    /\ \A k \in 1 .. Len(Published) :
          /\ FirstVersion + k \in DOMAIN snaps
          /\ Published[k] = snaps[FirstVersion + k].at

LEMMA PublishedFacts == IInv => PublishedInv
<1> SUFFICES ASSUME IInv PROVE PublishedInv
    OBVIOUS
<1> DEFINE n == CurrentVersion - FirstVersion
<1>1. n \in Nat /\ CurrentVersion \in Nat /\ FirstVersion \in Nat
    BY BoundsAssumption
       DEF IInv, TypeOK, NumberInv, CurrentVersion, FirstVersion
<1>2. \A k \in 1 .. n : FirstVersion + k \in DOMAIN snaps
    BY <1>1 DEF IInv, VersionsHaveSnapshots
<1>3. \A k \in 1 .. n : snaps[FirstVersion + k].at \in Nat
    BY <1>2 DEF IInv, TypeOK, SnapshotRow
<1>4. Published = [k \in 1 .. n |-> snaps[FirstVersion + k].at]
    BY DEF Published
<1> HIDE DEF n
<1>5. Published \in Seq(Nat) /\ Len(Published) = n
    BY <1>1, <1>3, <1>4, IsASeq
<1>6. \A k \in 1 .. n : Published[k] = snaps[FirstVersion + k].at
    BY <1>4
<1> QED BY <1>1, <1>2, <1>5, <1>6 DEF n, PublishedInv

\* A commit publishes one state more, no older than the last one published.
LEMMA CommitPublishes ==
    ASSUME IInv, IInv', NEW c \in Calls, Committing(c)
    PROVE  History!Publish
<1>1. view[c] \in 1 .. Len(hist) /\ view[c] \in Nat /\ hist' = hist
    BY CommitImage DEF Committing, CommitTransaction, IInv, TypeOK
<1>2. /\ CurrentVersion \in Nat /\ FirstVersion \in Nat
      /\ new[c] = CurrentVersion + 1 /\ CurrentVersion' = CurrentVersion + 1
    BY CommitNumber
<1>3. /\ \A v \in DOMAIN snaps : snaps'[v] = snaps[v]
      /\ snaps'[new[c]].at = view[c]
    BY CommitAdds
<1>4. \A v \in DOMAIN snaps : snaps[v].at <= view[c]
    <2>1. pc[c] \in TxPlaces /\ view[c] # 0
        BY <1>1 DEF Committing, TxPlaces
    <2> QED BY <2>1 DEF IInv, ViewInv
<1>5. FirstVersion' = FirstVersion
    BY DEF FirstVersion
<1> (IInv => PublishedInv)'
    BY PublishedFacts, PTL
<1> PublishedInv /\ PublishedInv'
    BY PublishedFacts
<1>6. /\ Published \in Seq(Nat) /\ Len(Published) \in Nat
      /\ Published' \in Seq(Nat) /\ Len(Published') = Len(Published) + 1
      /\ Len(Published) = CurrentVersion - FirstVersion
    BY <1>2, <1>5 DEF PublishedInv
<1>7. \A k \in 1 .. Len(Published) : Published'[k] = Published[k]
    BY <1>3, <1>5, <1>6 DEF PublishedInv
<1>8. Published'[Len(Published) + 1] = view[c]
    <2>1. FirstVersion + (Len(Published) + 1) = new[c]
        BY <1>2, <1>6
    <2>2. Len(Published) + 1 \in 1 .. Len(Published')
        BY <1>6
    <2> QED BY <1>3, <1>5, <2>1, <2>2 DEF PublishedInv
<1>9. Published' = Append(Published, view[c])
    BY <1>1, <1>6, <1>7, <1>8, AppendProperties, SeqEqual
<1>10. view[c] \in History!Candidates
    <2>1. CASE Published = <<>>
        BY <1>1, <2>1 DEF History!Candidates
    <2>2. CASE Published # <<>>
        <3>1. Len(Published) \in 1 .. Len(Published)
            BY <1>6, <2>2, EmptySeq
        <3>2. Published[Len(Published)] <= view[c] /\ Published[Len(Published)] \in Nat
            BY <1>4, <1>6, <3>1 DEF PublishedInv
        <3> QED BY <1>1, <2>2, <3>2 DEF History!Candidates
    <2> QED BY <2>1, <2>2
<1> QED BY <1>1, <1>9, <1>10 DEF History!Publish

LEMMA EditRefines ==
    ASSUME IInv, Edit
    PROVE  History!Edit
<1>1. PICK s \in Sections, x \in Content :
         hist' = Append(hist, [hist[Len(hist)] EXCEPT ![s] = x])
    BY DEF Edit
<1>2. [hist[Len(hist)] EXCEPT ![s] = x] \in Policy
    BY DEF IInv, TypeOK, Policy
<1>3. Published' = Published
    BY DEF Edit, Published, CurrentVersion, FirstVersion
<1> QED BY <1>1, <1>2, <1>3 DEF History!Edit

\* Every behaviour of the publishing calls is one of PolicyHistory: a COMMIT is
\* its Publish, an edit of the tables its Edit, and every other step, failures
\* and crashes included, a stutter.
THEOREM Refinement == Spec => ImplementsHistory
<1>1. Init => History!Init
    <2> SUFFICES ASSUME Init PROVE History!Init
        OBVIOUS
    <2>1. Published \in Seq(Nat) /\ Len(Published) = 0
        BY InitIInv, PublishedFacts, BoundsAssumption
           DEF PublishedInv, Init, CurrentVersion, FirstVersion
    <2>2. Published = <<>>
        BY <2>1, EmptySeq
    <2> QED BY <2>2 DEF Init, History!Init
<1>2. IInv /\ IInv' /\ [Next]_vars => [History!Next]_(History!vars)
    <2> SUFFICES ASSUME IInv, IInv', [Next]_vars PROVE [History!Next]_(History!vars)
        OBVIOUS
    <2>1. ASSUME NEW c \in Calls, Committing(c) PROVE History!Next
        BY <2>1, CommitPublishes DEF History!Next
    <2>2. CASE Edit
        BY <2>2, EditRefines DEF History!Next
    <2>3. CASE UNCHANGED <<hist, row, snaps>>
        BY <2>3 DEF History!vars, Published, CurrentVersion, FirstVersion
    <2>4. ASSUME NEW c \in Calls,
                 \/ ReadOldVersion(c) \/ LockApp(c) \/ RefuseApp(c) \/ UpsertVersion(c)
                 \/ ReadSection(c) \/ InsertSnapshot(c) \/ InsertSuccessLog(c)
                 \/ WriteFailedLog(c) \/ AnswerOk(c) \/ AnswerFailed(c)
                 \/ FailTransaction(c)
          PROVE  UNCHANGED <<hist, row, snaps>>
        BY <2>4 DEF ReadOldVersion, LockApp, RefuseApp, UpsertVersion, ReadSection,
            InsertSnapshot, InsertSuccessLog, WriteFailedLog, AnswerOk,
            AnswerFailed, WriteAudit, FailTransaction, dbVars
    <2>5. CASE SwitchApp \/ Crash \/ UNCHANGED vars
        BY <2>3, <2>5 DEF SwitchApp, Crash, vars, dbVars
    <2> QED BY <2>1, <2>2, <2>3, <2>4, <2>5, CommitCases DEF Next, Proceed
<1> QED BY <1>1, <1>2, Invariance, PTL DEF Spec, ImplementsHistory, History!Spec
=============================================================================
