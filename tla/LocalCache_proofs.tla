-------------------------- MODULE LocalCache_proofs --------------------------
(***************************************************************************)
(* LocalCache, for any keys, times to live, limits and sequence of calls:  *)
(* the counters balance, the limit holds, evictions are fair, and the      *)
(* cache is a VolatileMap.                                                 *)
(*                                                                         *)
(* All of it comes from what evictIfNeededLocked does to a map and its     *)
(* counters (EvictFacts); Put and SetMaxEntries are two uses of it.        *)
(***************************************************************************)
EXTENDS LocalCache, FiniteSetTheorems, TLAPS

\* The counts of entries are counts: only finitely many are there.  No entry
\* is from the future.
IInv ==
    /\ TypeOK /\ IsFiniteSet(DOMAIN entries)
    /\ \A k \in DOMAIN entries : entries[k].inserted <= now
    /\ StatsBalance /\ WithinLimit

-----------------------------------------------------------------------------
(* Counting, and the eviction.                                             *)

\* Taking S away from D is counted right, whatever S is.
LEMMA Removal ==
    ASSUME NEW D, IsFiniteSet(D), NEW S
    PROVE  /\ IsFiniteSet(D \ S) /\ IsFiniteSet(S \cap D)
           /\ Cardinality(D) \in Nat /\ Cardinality(D \ S) \in Nat
           /\ Cardinality(S \cap D) \in Nat
           /\ Cardinality(D) = Cardinality(D \ S) + Cardinality(S \cap D)
<1>1. IsFiniteSet(D \ S) /\ Cardinality(D \ S) = Cardinality(D) - Cardinality(D \cap S)
    BY FS_Difference
<1>2. IsFiniteSet(S \cap D) /\ S \cap D = D \cap S
    BY FS_Intersection
<1>3. /\ Cardinality(D) \in Nat /\ Cardinality(D \ S) \in Nat
      /\ Cardinality(S \cap D) \in Nat
    BY <1>1, <1>2, FS_CardinalityType
<1> QED BY <1>1, <1>2, <1>3

LEMMA KeepFacts ==
    ASSUME NEW e, NEW S
    PROVE  DOMAIN Keep(e, S) = S /\ \A k \in S : Keep(e, S)[k] = e[k]
BY DEF Keep

LEMMA EvictFacts ==
    ASSUME NEW e, IsFiniteSet(DOMAIN e), NEW max \in Nat, NEW st \in Stats,
           EvictIfNeeded(e, max, st)
    PROVE  \E S \in SUBSET Live(e) :
              /\ entries' = Keep(e, S) /\ IsFiniteSet(S)
              /\ max # 0 => Cardinality(S) <= max
              /\ \A s \in S, v \in Live(e) \ S : e[v].inserted <= e[s].inserted
              /\ stats' \in Stats
              /\ stats'.hit = st.hit /\ stats'.miss = st.miss /\ stats'.put = st.put
              /\ Cardinality(S) + stats'.invalidate = Size(e) + st.invalidate
              /\ st.eviction <= st.invalidate => stats'.eviction <= stats'.invalidate
<1>1. PICK S \in Survivors(e, max) :
         /\ entries' = Keep(e, S)
         /\ stats' = [st EXCEPT !.invalidate = @ + Cardinality(DOMAIN e \ S),
                                !.eviction = @ + Cardinality(Live(e) \ S)]
    BY DEF EvictIfNeeded
<1>2. /\ Live(e) \subseteq DOMAIN e /\ IsFiniteSet(Live(e)) /\ Cardinality(Live(e)) \in Nat
    BY FS_Subset, FS_CardinalityType DEF Live
<1>3. /\ S \subseteq Live(e) /\ (max # 0 => Cardinality(S) <= max)
      /\ \A s \in S, v \in Live(e) \ S : e[v].inserted <= e[s].inserted
    <2>1. CASE max = 0 \/ Cardinality(Live(e)) <= max
        BY <2>1 DEF Survivors
    <2>2. CASE ~(max = 0 \/ Cardinality(Live(e)) <= max)
        <3>1. /\ S \subseteq Live(e) /\ Cardinality(S) = max
              /\ \A s \in S, v \in Live(e) \ S : e[v].inserted <= e[s].inserted
            BY <2>2 DEF Survivors
        <3> QED BY <3>1
    <2> QED BY <2>1, <2>2
<1>4. S \subseteq DOMAIN e /\ IsFiniteSet(S)
    BY <1>2, <1>3, FS_Subset
<1>5. /\ Cardinality(DOMAIN e \ S) \in Nat /\ Cardinality(S) \in Nat
      /\ Size(e) = Cardinality(DOMAIN e \ S) + Cardinality(S)
    <2>1. S \cap DOMAIN e = S
        BY <1>4
    <2> QED BY <2>1, Removal DEF Size
<1>6. /\ Cardinality(Live(e) \ S) \in Nat
      /\ Cardinality(Live(e) \ S) <= Cardinality(DOMAIN e \ S)
    <2>1. (Live(e) \ S) \subseteq (DOMAIN e \ S) /\ IsFiniteSet(DOMAIN e \ S)
        BY <1>2, Removal
    <2> QED BY <2>1, FS_Subset, FS_CardinalityType
<1>7. /\ stats' \in Stats
      /\ stats'.hit = st.hit /\ stats'.miss = st.miss /\ stats'.put = st.put
      /\ stats'.invalidate = st.invalidate + Cardinality(DOMAIN e \ S)
      /\ stats'.eviction = st.eviction + Cardinality(Live(e) \ S)
    <2> DEFINE invalidated == st.invalidate + Cardinality(DOMAIN e \ S)
               evicted == st.eviction + Cardinality(Live(e) \ S)
    <2>1. invalidated \in Nat /\ evicted \in Nat
        BY <1>5, <1>6 DEF Stats
    <2>2. stats' = [st EXCEPT !.invalidate = invalidated, !.eviction = evicted]
        BY <1>1
    <2> HIDE DEF invalidated, evicted
    <2>3. /\ stats' \in Stats
          /\ stats'.hit = st.hit /\ stats'.miss = st.miss /\ stats'.put = st.put
          /\ stats'.invalidate = invalidated /\ stats'.eviction = evicted
        BY <2>1, <2>2 DEF Stats
    <2> QED BY <2>3 DEF invalidated, evicted
<1>8. /\ Cardinality(S) + stats'.invalidate = Size(e) + st.invalidate
      /\ st.eviction <= st.invalidate => stats'.eviction <= stats'.invalidate
    BY <1>5, <1>6, <1>7 DEF Stats
<1> QED BY <1>1, <1>3, <1>4, <1>7, <1>8

-----------------------------------------------------------------------------
(* Put.                                                                    *)

\* The map and the counters that Put hands to evictIfNeededLocked.
Stored(k, v, ttl) ==
    [j \in DOMAIN entries \cup {k} |->
        IF j = k THEN [value |-> v, expire |-> now + ttl, inserted |-> now] ELSE entries[j]]
PutCounted == [stats EXCEPT !.put = @ + 1]

LEMMA StoredFacts ==
    ASSUME IInv, NEW k \in Keys, NEW v \in Values, NEW ttl \in Ttls
    PROVE  LET e == Stored(k, v, ttl) IN
           /\ DOMAIN e = DOMAIN entries \cup {k} /\ IsFiniteSet(DOMAIN e)
           /\ DOMAIN e \subseteq Keys
           /\ \A j \in DOMAIN e : e[j] \in Entry /\ e[j].inserted <= now
           /\ e[k].value = v /\ e[k].inserted = now
           /\ \A j \in DOMAIN entries \ {k} : e[j] = entries[j]
           /\ Size(e) + Cardinality({k} \cap DOMAIN entries) = Size(entries) + 1
           /\ Cardinality({k} \cap DOMAIN entries) \in Nat
           /\ Live(e) = Live(entries) \cup {k}
<1> DEFINE e == Stored(k, v, ttl)
           new == [value |-> v, expire |-> now + ttl, inserted |-> now]
<1>0. /\ DOMAIN entries \subseteq Keys /\ IsFiniteSet(DOMAIN entries)
      /\ \A j \in DOMAIN entries : entries[j] \in Entry /\ entries[j].inserted <= now
      /\ now \in Nat /\ ttl \in Nat
    BY CacheAssumption DEF IInv, TypeOK
<1>1. /\ DOMAIN e = DOMAIN entries \cup {k} /\ e[k] = new
      /\ \A j \in DOMAIN entries \ {k} : e[j] = entries[j]
    BY DEF Stored
<1>2. new \in Entry /\ new.value = v /\ new.inserted = now /\ now <= new.expire
    BY <1>0 DEF Entry
<1> HIDE DEF e, new
<1>3. /\ IsFiniteSet(DOMAIN e)
      /\ Cardinality(DOMAIN e) = IF k \in DOMAIN entries THEN Cardinality(DOMAIN entries)
                                 ELSE Cardinality(DOMAIN entries) + 1
    BY <1>0, <1>1, FS_AddElement
<1>4. /\ Cardinality({k} \cap DOMAIN entries) \in Nat
      /\ Size(e) + Cardinality({k} \cap DOMAIN entries) = Size(entries) + 1
    <2>1. Cardinality(DOMAIN entries) \in Nat
        BY <1>0, FS_CardinalityType
    <2>2. CASE k \in DOMAIN entries
        <3>1. {k} \cap DOMAIN entries = {k} /\ Cardinality({k}) = 1
            BY <2>2, FS_Singleton
        <3> QED BY <1>3, <2>1, <2>2, <3>1 DEF Size
    <2>3. CASE k \notin DOMAIN entries
        <3>1. {k} \cap DOMAIN entries = {} /\ Cardinality({}) = 0
            BY <2>3, FS_EmptySet
        <3> QED BY <1>3, <2>1, <2>3, <3>1 DEF Size
    <2> QED BY <2>2, <2>3
<1>5. \A j \in DOMAIN e : e[j] \in Entry /\ e[j].inserted <= now
    BY <1>0, <1>1, <1>2
<1>6. Live(e) = Live(entries) \cup {k}
    <2>1. ~(now > new.expire)
        BY <1>0, <1>2 DEF Entry
    <2> QED BY <1>1, <2>1 DEF Live, Expired
<1> QED BY <1>0, <1>1, <1>2, <1>3, <1>4, <1>5, <1>6 DEF e

-----------------------------------------------------------------------------
(* The invariant.                                                          *)

LEMMA EvictStep ==
    ASSUME IInv, NEW e, IsFiniteSet(DOMAIN e), DOMAIN e \subseteq Keys,
           \A j \in DOMAIN e : e[j] \in Entry /\ e[j].inserted <= now,
           NEW st \in Stats, EvictIfNeeded(e, limit', st), limit' \in Limits,
           st.hit = stats.hit, st.miss = stats.miss,
           st.invalidate = stats.invalidate, st.eviction = stats.eviction,
           UNCHANGED <<now, gets>>, last' \in Calls, replaced' \in Nat,
           st.put = Size(e) + replaced' + st.invalidate
    PROVE  IInv'
<1>0. limit' \in Nat
    BY CacheAssumption
<1>1. PICK S \in SUBSET Live(e) :
         /\ entries' = Keep(e, S) /\ IsFiniteSet(S)
         /\ limit' # 0 => Cardinality(S) <= limit'
         /\ stats' \in Stats
         /\ stats'.hit = st.hit /\ stats'.miss = st.miss /\ stats'.put = st.put
         /\ Cardinality(S) + stats'.invalidate = Size(e) + st.invalidate
         /\ st.eviction <= st.invalidate => stats'.eviction <= stats'.invalidate
    BY <1>0, EvictFacts
<1>2. DOMAIN entries' = S /\ S \subseteq DOMAIN e /\ \A k \in S : entries'[k] = e[k]
    BY <1>1, KeepFacts DEF Live
<1>3. TypeOK'
    BY <1>1, <1>2 DEF IInv, TypeOK
<1>4. Cardinality(S) \in Nat /\ Size(e) \in Nat
    BY <1>1, FS_CardinalityType DEF Size
<1>5. StatsBalance'
    BY <1>1, <1>2, <1>4 DEF IInv, StatsBalance, Stats, Size
<1>6. WithinLimit'
    BY <1>1, <1>2 DEF WithinLimit, Size
<1>7. \A k \in DOMAIN entries' : entries'[k].inserted <= now'
    BY <1>2
<1> QED BY <1>1, <1>2, <1>3, <1>5, <1>6, <1>7 DEF IInv

\* An operation that only takes the keys in S away, and counts them.
LEMMA RemoveStep ==
    ASSUME IInv, NEW S, entries' = Keep(entries, DOMAIN entries \ S),
           stats' \in Stats,
           stats'.invalidate = stats.invalidate + Cardinality(S \cap DOMAIN entries),
           stats'.put = stats.put, stats'.eviction = stats.eviction,
           stats'.hit + stats'.miss = gets',
           UNCHANGED <<limit, now, replaced>>, last' \in Calls, gets' \in Nat
    PROVE  IInv'
<1>1. /\ DOMAIN entries' = DOMAIN entries \ S
      /\ \A k \in DOMAIN entries' : k \in DOMAIN entries /\ entries'[k] = entries[k]
    BY KeepFacts
<1>2. /\ IsFiniteSet(DOMAIN entries') /\ Size(entries') \in Nat /\ Size(entries) \in Nat
      /\ Cardinality(S \cap DOMAIN entries) \in Nat
      /\ Size(entries) = Size(entries') + Cardinality(S \cap DOMAIN entries)
    BY <1>1, Removal DEF IInv, Size
<1>3. TypeOK'
    BY <1>1 DEF IInv, TypeOK
<1>4. limit \in Nat /\ stats \in Stats /\ replaced \in Nat
    BY CacheAssumption DEF IInv, TypeOK
<1>5. StatsBalance'
    BY <1>2, <1>4 DEF IInv, StatsBalance, Stats
<1>6. WithinLimit'
    BY <1>2, <1>4 DEF IInv, WithinLimit
<1> QED BY <1>1, <1>2, <1>3, <1>5, <1>6 DEF IInv

LEMMA InvariantStep == IInv /\ [Next]_vars => IInv'
<1> SUFFICES ASSUME IInv, [Next]_vars PROVE IInv'
    OBVIOUS
<1>0. /\ TypeOK /\ IsFiniteSet(DOMAIN entries) /\ StatsBalance /\ stats \in Stats
      /\ stats.hit + stats.miss = gets /\ last \in Calls
      /\ gets \in Nat /\ replaced \in Nat /\ now \in Nat
      /\ DOMAIN entries \subseteq Keys /\ limit \in Limits
      /\ \A j \in DOMAIN entries : entries[j] \in Entry /\ entries[j].inserted <= now
    BY DEF IInv, TypeOK, StatsBalance
<1>1. ASSUME NEW max \in Limits, SetMaxEntries(max) PROVE IInv'
    BY <1>0, <1>1, EvictStep DEF SetMaxEntries, StatsBalance
<1>2. ASSUME NEW k \in Keys, NEW v \in Values, NEW ttl \in Ttls, Put(k, v, ttl)
      PROVE  IInv'
    <2> DEFINE e == Stored(k, v, ttl)
    <2>1. /\ IsFiniteSet(DOMAIN e) /\ DOMAIN e \subseteq Keys
          /\ \A j \in DOMAIN e : e[j] \in Entry /\ e[j].inserted <= now
          /\ Size(e) + Cardinality({k} \cap DOMAIN entries) = Size(entries) + 1
          /\ Cardinality({k} \cap DOMAIN entries) \in Nat
        BY StoredFacts
    <2>2. /\ EvictIfNeeded(e, limit', PutCounted) /\ limit' = limit
          /\ replaced' = replaced + Cardinality({k} \cap DOMAIN entries)
          /\ UNCHANGED <<now, gets>>
        BY <1>2 DEF Put, Stored, PutCounted
    <2> HIDE DEF e
    <2>3. /\ PutCounted \in Stats /\ PutCounted.hit = stats.hit
          /\ PutCounted.miss = stats.miss /\ PutCounted.invalidate = stats.invalidate
          /\ PutCounted.eviction = stats.eviction /\ PutCounted.put = stats.put + 1
        BY <1>0 DEF PutCounted, Stats
    <2>4. Size(e) \in Nat /\ Size(entries) \in Nat
        BY <1>0, <2>1, FS_CardinalityType DEF Size
    <2>5. PutCounted.put = Size(e) + replaced' + PutCounted.invalidate
        BY <1>0, <2>1, <2>2, <2>3, <2>4 DEF StatsBalance, Stats
    <2>6. replaced' \in Nat /\ limit' \in Limits /\ last' \in Calls
        BY <1>0, <1>2, <2>1, <2>2 DEF Put, Calls
    <2> QED BY <2>1, <2>2, <2>3, <2>5, <2>6, EvictStep
<1>3. ASSUME UNCHANGED <<entries, limit, replaced>>, now' \in Nat, now <= now',
             gets' \in Nat, last' \in Calls, stats' \in Stats,
             stats'.hit + stats'.miss = gets', stats'.put = stats.put,
             stats'.invalidate = stats.invalidate, stats'.eviction = stats.eviction
      PROVE  IInv'
    <2>1. TypeOK' /\ StatsBalance' /\ WithinLimit'
        BY <1>0, <1>3 DEF IInv, TypeOK, StatsBalance, WithinLimit
    <2>2. \A k \in DOMAIN entries' : entries'[k].inserted <= now'
        <3> SUFFICES ASSUME NEW k \in DOMAIN entries PROVE entries[k].inserted <= now'
            BY <1>3
        <3>1. entries[k].inserted \in Nat /\ entries[k].inserted <= now
            BY <1>0 DEF Entry
        <3> QED BY <1>0, <1>3, <3>1
    <2> QED BY <1>0, <1>3, <2>1, <2>2 DEF IInv
<1>4. ASSUME NEW k \in Keys, Get(k) PROVE IInv'
    <2>1. gets' = gets + 1 /\ UNCHANGED <<limit, now, replaced>>
        BY <1>4 DEF Get
    <2>5. last' \in Calls
        <3>1. \E r \in Values \cup {Miss} : last' = [op |-> "get", key |-> k, result |-> r]
            BY <1>0, <1>4 DEF Get, Live, Entry
        <3> QED BY <3>1 DEF Calls
    <2>2. CASE k \notin DOMAIN entries
        <3>1. /\ stats' = [stats EXCEPT !.miss = @ + 1] /\ entries' = entries
            BY <1>4, <2>2 DEF Get, Live
        <3>2. /\ stats' \in Stats /\ stats'.hit + stats'.miss = gets'
              /\ stats'.put = stats.put /\ stats'.invalidate = stats.invalidate
              /\ stats'.eviction = stats.eviction
            BY <1>0, <2>1, <3>1 DEF Stats
        <3> QED BY <1>0, <1>3, <2>1, <2>5, <3>1, <3>2
    <2>3. CASE k \in DOMAIN entries /\ Expired(entries, k)
        <3>1. /\ entries' = Keep(entries, DOMAIN entries \ {k})
              /\ stats' = [stats EXCEPT !.miss = stats.miss + 1,
                                        !.invalidate = stats.invalidate + 1]
            BY <1>4, <2>3 DEF Get, Live
        <3>2. Cardinality({k} \cap DOMAIN entries) = 1
            <4>1. {k} \cap DOMAIN entries = {k}
                BY <2>3
            <4> QED BY <4>1, FS_Singleton
        <3>3. /\ stats' \in Stats /\ stats'.hit + stats'.miss = gets'
              /\ stats'.put = stats.put /\ stats'.eviction = stats.eviction
              /\ stats'.invalidate = stats.invalidate + Cardinality({k} \cap DOMAIN entries)
            <4> DEFINE missed == stats.miss + 1
                       invalidated == stats.invalidate + 1
            <4>1. missed \in Nat /\ invalidated \in Nat
                BY <1>0 DEF Stats
            <4> HIDE DEF missed, invalidated
            <4>2. /\ stats' \in Stats /\ stats'.hit = stats.hit /\ stats'.put = stats.put
                  /\ stats'.miss = missed /\ stats'.eviction = stats.eviction
                  /\ stats'.invalidate = invalidated
                BY <1>0, <3>1, <4>1 DEF Stats, missed, invalidated
            <4>3. stats.hit \in Nat /\ stats.miss \in Nat /\ stats.hit + stats.miss = gets
                BY <1>0 DEF Stats
            <4>4. stats'.hit + stats'.miss = gets'
                BY <2>1, <4>2, <4>3 DEF missed
            <4> QED BY <3>2, <4>2, <4>4 DEF invalidated
        <3>4. gets' \in Nat
            BY <1>0, <2>1
        <3> QED BY <2>1, <2>5, <3>1, <3>3, <3>4, RemoveStep
    <2>4. CASE k \in Live(entries)
        <3>1. /\ stats' = [stats EXCEPT !.hit = @ + 1] /\ entries' = entries
            BY <1>4, <2>4 DEF Get, Live
        <3>2. /\ stats' \in Stats /\ stats'.hit + stats'.miss = gets'
              /\ stats'.put = stats.put /\ stats'.invalidate = stats.invalidate
              /\ stats'.eviction = stats.eviction
            BY <1>0, <2>1, <3>1 DEF Stats
        <3> QED BY <1>0, <1>3, <2>1, <2>5, <3>1, <3>2
    <2> QED BY <2>2, <2>3, <2>4 DEF Live
<1>5. ASSUME NEW S \in SUBSET Keys, Drop(S) PROVE IInv'
    <2>1. Cardinality(S \cap DOMAIN entries) \in Nat
        BY <1>0, Removal
    <2>2. /\ stats' \in Stats /\ stats'.hit + stats'.miss = gets'
          /\ stats'.put = stats.put /\ stats'.eviction = stats.eviction
          /\ stats'.invalidate = stats.invalidate + Cardinality(S \cap DOMAIN entries)
        BY <1>0, <1>5, <2>1 DEF Drop, Stats
    <2>3. last' \in Calls
        BY <1>5 DEF Drop, Calls
    <2> QED BY <1>0, <1>5, <2>2, <2>3, RemoveStep DEF Drop
<1>6. CASE Tick
    BY <1>0, <1>3, <1>6 DEF Tick
<1>7. CASE UNCHANGED vars
    BY <1>0, <1>3, <1>7 DEF vars
<1> QED BY <1>1, <1>2, <1>4, <1>5, <1>6, <1>7, CacheAssumption
       DEF Next, Invalidate, InvalidatePrefix, Clear

THEOREM Invariance == Spec => []IInv
<1>1. Init => IInv
    <2> SUFFICES ASSUME Init PROVE IInv
        OBVIOUS
    <2>1. DOMAIN entries = {} /\ IsFiniteSet({}) /\ Size(entries) = 0 /\ limit \in Nat
        BY FS_EmptySet, CacheAssumption DEF Init, Size
    <2> QED BY <2>1 DEF Init, IInv, TypeOK, StatsBalance, WithinLimit, Stats, Calls
<1>2. IInv /\ [Next]_vars => IInv'
    BY InvariantStep
<1> QED BY <1>1, <1>2, PTL DEF Spec

THEOREM TypeCorrect == Spec => []TypeOK
<1>1. IInv => TypeOK
    BY DEF IInv
<1> QED BY Invariance, <1>1, PTL

\* The counters of the cache account for every call and every entry, by whichever
\* way it left: replaced by Put, swept, evicted, expired in Get, or invalidated.
THEOREM CountersBalance == Spec => []StatsBalance
<1>1. IInv => StatsBalance
    BY DEF IInv
<1> QED BY Invariance, <1>1, PTL

\* max_entries holds after every operation.
THEOREM LimitHolds == Spec => []WithinLimit
<1>1. IInv => WithinLimit
    BY DEF IInv
<1> QED BY Invariance, <1>1, PTL

-----------------------------------------------------------------------------
(* Fair eviction.                                                          *)

\* What the eviction from a map e says of the entries that went and stayed.
LEMMA EvictedOrder ==
    ASSUME NEW e, IsFiniteSet(DOMAIN e), NEW max \in Nat, NEW st \in Stats,
           \A i \in DOMAIN e : e[i] \in Entry, now \in Nat, EvictIfNeeded(e, max, st),
           NEW k \in Live(e) \ DOMAIN entries', NEW j \in DOMAIN entries'
    PROVE  /\ now <= entries'[j].expire /\ e[k].inserted <= entries'[j].inserted
           /\ entries'[j].inserted \in Nat
<1>1. PICK S \in SUBSET Live(e) :
         /\ entries' = Keep(e, S)
         /\ \A s \in S, v \in Live(e) \ S : e[v].inserted <= e[s].inserted
    BY EvictFacts
<1>2. DOMAIN entries' = S /\ entries'[j] = e[j] /\ j \in Live(e)
    BY <1>1, KeepFacts
<1>3. e[j] \in Entry /\ ~(now > e[j].expire)
    BY <1>2 DEF Live, Expired
<1> QED BY <1>1, <1>2, <1>3 DEF Entry

LEMMA FairStep ==
    ASSUME IInv, Next, NEW k \in Live(entries) \ DOMAIN entries',
           stats'.eviction > stats.eviction, NEW j \in DOMAIN entries'
    PROVE  now <= entries'[j].expire /\ entries[k].inserted <= entries'[j].inserted
<1>0. /\ IsFiniteSet(DOMAIN entries) /\ stats \in Stats /\ now \in Nat /\ limit \in Nat
      /\ \A i \in DOMAIN entries : entries[i] \in Entry /\ entries[i].inserted <= now
    BY CacheAssumption DEF IInv, TypeOK
<1>1. ASSUME NEW max \in Limits, SetMaxEntries(max)
      PROVE  now <= entries'[j].expire /\ entries[k].inserted <= entries'[j].inserted
    <2>1. max \in Nat /\ EvictIfNeeded(entries, max, stats)
        BY <1>1, CacheAssumption DEF SetMaxEntries
    <2> QED BY <1>0, <2>1, EvictedOrder
<1>2. ASSUME NEW i \in Keys, NEW v \in Values, NEW ttl \in Ttls, Put(i, v, ttl)
      PROVE  now <= entries'[j].expire /\ entries[k].inserted <= entries'[j].inserted
    <2> DEFINE e == Stored(i, v, ttl)
    <2>1. EvictIfNeeded(e, limit, PutCounted) /\ PutCounted \in Stats
        BY <1>0, <1>2 DEF Put, Stored, PutCounted, Stats
    <2>2. /\ IsFiniteSet(DOMAIN e)
          /\ \A x \in DOMAIN e : e[x] \in Entry
          /\ e[i].inserted = now /\ \A x \in DOMAIN entries \ {i} : e[x] = entries[x]
          /\ Live(e) = Live(entries) \cup {i}
        BY StoredFacts
    <2> HIDE DEF e
    <2>3. k \in Live(e) \ DOMAIN entries' /\ k \in DOMAIN entries
        BY <2>2 DEF Live
    <2>4. /\ now <= entries'[j].expire /\ e[k].inserted <= entries'[j].inserted
          /\ entries'[j].inserted \in Nat
        BY <1>0, <2>1, <2>2, <2>3, EvictedOrder
    <2>5. entries[k].inserted <= e[k].inserted
        BY <1>0, <2>2, <2>3 DEF Entry
    <2>6. entries[k].inserted \in Nat /\ e[k].inserted \in Nat
        BY <1>0, <2>2, <2>3 DEF Entry, Live
    <2> QED BY <2>4, <2>5, <2>6
<1>3. ASSUME stats'.eviction = stats.eviction PROVE FALSE
    BY <1>0, <1>3 DEF Stats
<1>4. ASSUME NEW i \in Keys, Get(i) PROVE stats'.eviction = stats.eviction
    BY <1>0, <1>4 DEF Get, Stats
<1>5. ASSUME NEW S, Drop(S) PROVE stats'.eviction = stats.eviction
    BY <1>0, <1>5 DEF Drop, Stats
<1>6. Tick => stats' = stats
    BY DEF Tick
<1> QED BY <1>1, <1>2, <1>3, <1>4, <1>5, <1>6
       DEF Next, Invalidate, InvalidatePrefix, Clear

\* evictIfNeededLocked gives up a live entry only when no expired one is left, and
\* an older one first.
THEOREM EvictionsFair == Spec => EvictionIsFair
<1> DEFINE Fair == \A k \in Live(entries) \ DOMAIN entries' :
                      stats'.eviction > stats.eviction =>
                         \A j \in DOMAIN entries' :
                            /\ now <= entries'[j].expire
                            /\ entries[k].inserted <= entries'[j].inserted
<1>1. IInv /\ [Next]_vars => [Fair]_vars
    BY FairStep
<1> QED BY Invariance, <1>1, PTL DEF Spec, EvictionIsFair

-----------------------------------------------------------------------------
(* The refinement.                                                         *)

\* The entries, as VolatileMap sees them.
Kept == [k \in DOMAIN entries |-> [value |-> entries[k].value, until |-> entries[k].expire]]

\* Of the entries e those in S stay.
LEMMA KeptAfter ==
    ASSUME NEW e, NEW S \in SUBSET DOMAIN e, entries' = Keep(e, S)
    PROVE  Kept' = [k \in S |-> [value |-> e[k].value, until |-> e[k].expire]]
<1>1. DOMAIN entries' = S /\ \A k \in S : entries'[k] = e[k]
    BY KeepFacts
<1> QED BY <1>1 DEF Kept

\* Entries that go are taken away from the map.
LEMMA KeptPart ==
    ASSUME NEW S \in SUBSET DOMAIN entries, entries' = Keep(entries, S)
    PROVE  Kept' = Map!Keep(Kept, S)
<1>1. Kept' = [k \in S |-> [value |-> entries[k].value, until |-> entries[k].expire]]
    BY KeptAfter
<1> QED BY <1>1 DEF Kept, Map!Keep

LEMMA MapStep == IInv /\ [Next]_vars => [Map!Next]_(Map!vars)
<1> SUFFICES ASSUME IInv, [Next]_vars PROVE Map!Next \/ UNCHANGED Map!vars
    OBVIOUS
<1>0. /\ IsFiniteSet(DOMAIN entries) /\ stats \in Stats /\ now \in Nat /\ limit \in Nat
      /\ DOMAIN entries \subseteq Keys /\ \A k \in DOMAIN entries : entries[k] \in Entry
    BY CacheAssumption DEF IInv, TypeOK
<1>1. ASSUME NEW max \in Limits, SetMaxEntries(max) PROVE Map!Next
    <2>1. max \in Nat /\ EvictIfNeeded(entries, max, stats) /\ UNCHANGED <<now, last>>
        BY <1>1, CacheAssumption DEF SetMaxEntries
    <2>2. PICK S \in SUBSET Live(entries) : entries' = Keep(entries, S)
        BY <1>0, <2>1, EvictFacts
    <2>3. S \in SUBSET DOMAIN Kept /\ Kept' = Map!Keep(Kept, S)
        BY <2>2, KeptPart DEF Live, Kept
    <2> QED BY <2>1, <2>3 DEF Map!Next, Map!Forget, Map!Lose, Kept
<1>2. ASSUME NEW k \in Keys, NEW v \in Values, NEW ttl \in Ttls, Put(k, v, ttl)
      PROVE  Map!Next
    <2> DEFINE e == Stored(k, v, ttl)
               f == [j \in DOMAIN Kept \cup {k} |->
                        IF j = k THEN [value |-> v, until |-> now + ttl] ELSE Kept[j]]
    <2>1. /\ EvictIfNeeded(e, limit, PutCounted) /\ PutCounted \in Stats /\ UNCHANGED now
          /\ last' = [op |-> "put", key |-> k, value |-> v, ttl |-> ttl]
        BY <1>0, <1>2 DEF Put, Stored, PutCounted, Stats
    <2>2. /\ DOMAIN e = DOMAIN entries \cup {k} /\ IsFiniteSet(DOMAIN e)
          /\ e[k].value = v /\ e[k].expire = now + ttl
          /\ \A j \in DOMAIN entries \ {k} : e[j] = entries[j]
        BY StoredFacts DEF Stored
    <2> HIDE DEF e
    <2>3. PICK S \in SUBSET Live(e) : entries' = Keep(e, S)
        BY <1>0, <2>1, <2>2, EvictFacts
    <2>4. S \in SUBSET DOMAIN e
        BY <2>3 DEF Live
    <2>5. Kept' = [j \in S |-> [value |-> e[j].value, until |-> e[j].expire]]
        BY <2>3, <2>4, KeptAfter
    <2>6. /\ DOMAIN f = DOMAIN e
          /\ \A j \in DOMAIN e : f[j] = [value |-> e[j].value, until |-> e[j].expire]
        BY <2>2 DEF Kept
    <2>7. S \in SUBSET DOMAIN f /\ Kept' = Map!Keep(f, S)
        BY <2>4, <2>5, <2>6 DEF Map!Keep
    <2>8. Map!Lose(f)
        BY <2>7 DEF Map!Lose, Kept
    <2>9. Map!Store(k, v, ttl)
        BY <2>1, <2>8 DEF Map!Store, Kept
    <2> QED BY <2>9 DEF Map!Next
<1>3. ASSUME NEW k \in Keys, Get(k) PROVE Map!Next
    <2>1. UNCHANGED now
        BY <1>3 DEF Get
    <2>2. CASE k \notin DOMAIN entries
        <3>1. entries' = entries /\ last' = [op |-> "get", key |-> k, result |-> Miss]
            BY <1>3, <2>2 DEF Get, Live
        <3>2. k \notin DOMAIN Kept /\ Kept' = Kept
            BY <2>2, <3>1 DEF Kept
        <3> QED BY <2>1, <3>1, <3>2 DEF Map!Next, Map!NoHit, Kept
    <2>3. CASE k \in DOMAIN entries /\ Expired(entries, k)
        <3>1. /\ entries' = Keep(entries, DOMAIN entries \ {k})
              /\ last' = [op |-> "get", key |-> k, result |-> Miss]
            BY <1>3, <2>3 DEF Get, Live
        <3>2. Kept' = Map!Keep(Kept, DOMAIN Kept \ {k})
            BY <3>1, KeptPart DEF Kept
        <3>3. Kept[k].until < now
            BY <1>0, <2>3 DEF Kept, Expired, Entry
        <3> QED BY <2>1, <3>1, <3>2, <3>3 DEF Map!Next, Map!NoHit, Kept
    <2>4. CASE k \in Live(entries)
        <3>1. /\ entries' = entries
              /\ last' = [op |-> "get", key |-> k, result |-> entries[k].value]
            BY <1>3, <2>4 DEF Get, Live
        <3>2. /\ k \in DOMAIN Kept /\ now <= Kept[k].until /\ Kept' = Kept
              /\ last' = [op |-> "get", key |-> k, result |-> Kept[k].value]
            BY <1>0, <2>4, <3>1 DEF Kept, Live, Expired, Entry
        <3> QED BY <2>1, <3>2 DEF Map!Next, Map!Hit, Kept
    <2> QED BY <2>2, <2>3, <2>4 DEF Live
<1>4. ASSUME NEW S \in SUBSET Keys, Drop(S) PROVE Map!Next
    <2>1. /\ entries' = Keep(entries, DOMAIN entries \ S) /\ UNCHANGED now
          /\ last' = [op |-> "drop", keys |-> S]
        BY <1>4 DEF Drop
    <2>2. Kept' = Map!Keep(Kept, DOMAIN Kept \ S)
        BY <2>1, KeptPart DEF Kept
    <2> QED BY <2>1, <2>2 DEF Map!Next, Map!Remove, Kept
<1>5. CASE Tick
    BY <1>5 DEF Tick, Map!Next, Map!Tick
<1>6. CASE UNCHANGED vars
    BY <1>6 DEF vars, Map!vars
<1> QED BY <1>1, <1>2, <1>3, <1>4, <1>5, <1>6, CacheAssumption
       DEF Next, Invalidate, InvalidatePrefix, Clear

\* Whatever expires, is swept, evicted or dropped, Get(k) returns what the last Put
\* stored under k, up to and including its deadline and never after, or nothing if it
\* was dropped or evicted.
THEOREM Refinement == Spec => ImplementsMap
<1>1. Init => Map!Init
    <2> SUFFICES ASSUME Init PROVE Map!Init
        OBVIOUS
    <2>1. DOMAIN entries = {}
        BY DEF Init
    <2> QED BY <2>1 DEF Init, Map!Init
<1>2. IInv /\ [Next]_vars => [Map!Next]_(Map!vars)
    BY MapStep
<1> QED BY Invariance, <1>1, <1>2, PTL DEF Spec, ImplementsMap, Map!Spec
=============================================================================
