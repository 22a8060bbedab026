----------------------------- MODULE LocalCache -----------------------------
(***************************************************************************)
(* LocalCache<T>: a map with a time to live per entry, a limit on the      *)
(* number of entries and statistics.  Its mutex makes every operation one  *)
(* step.  Time is steady_clock in units as fine as the model needs: any    *)
(* number of operations may see the same reading of it.                    *)
(***************************************************************************)
EXTENDS Naturals, FiniteSets

CONSTANTS
    Keys, Values,
    Miss,        \* the result of a lookup that finds nothing
    Prefixes,    \* for each prefix of interest, the keys that start with it
    Ttls,        \* the times to live that Put is called with
    Limits,      \* the values of max_entries, 0 for no limit
    MaxTime,     \* bound on the clock
    MaxOps       \* bound on the operations that are counted

ASSUME CacheAssumption ==
    /\ Miss \notin Values /\ Prefixes \subseteq SUBSET Keys
    /\ Ttls \subseteq Nat /\ Limits \subseteq Nat /\ Limits # {}
    /\ MaxTime \in Nat /\ MaxOps \in Nat

VARIABLES
    entries,     \* cache_: key -> [value, expire, inserted]
    limit,       \* max_entries_
    now,         \* the clock
    stats,       \* hit, miss, put, invalidate, eviction counts
    last,        \* the last call: the operation, its arguments and its result
    gets,        \* calls of Get so far
    replaced     \* Puts that replaced an entry

vars == <<entries, limit, now, stats, last, gets, replaced>>

Entry == [value : Values, expire : Nat, inserted : Nat]
Stats == [hit : Nat, miss : Nat, put : Nat, invalidate : Nat, eviction : Nat]

\* The calls of the users, with what they get.
Calls ==
    {[op |-> "none"]}
    \cup [op : {"put"}, key : Keys, value : Values, ttl : Ttls]
    \cup [op : {"get"}, key : Keys, result : Values \cup {Miss}]
    \cup [op : {"drop"}, keys : SUBSET Keys]

TypeOK ==
    /\ DOMAIN entries \subseteq Keys
    /\ \A k \in DOMAIN entries : entries[k] \in Entry
    /\ limit \in Limits
    /\ now \in Nat
    /\ stats \in Stats
    /\ last \in Calls
    /\ gets \in Nat /\ replaced \in Nat

Init ==
    /\ entries = [k \in {} |-> {}]
    /\ limit \in Limits
    /\ now = 0
    /\ stats = [hit |-> 0, miss |-> 0, put |-> 0, invalidate |-> 0, eviction |-> 0]
    /\ last = [op |-> "none"]
    /\ gets = 0 /\ replaced = 0

-----------------------------------------------------------------------------
Size(e) == Cardinality(DOMAIN e)
Keep(e, S) == [k \in S |-> e[k]]

\* Variant: an entry is over at the instant it expires.
Expired_AtDeadline(e, k) == now >= e[k].expire

\* An entry can still be read at the very instant it expires.
Expired(e, k) == now > e[k].expire
Live(e) == {k \in DOMAIN e : ~Expired(e, k)}

\* Variant: the entries that are over are not swept first.
Survivors_NoSweep(e, max) ==
    IF max = 0 \/ Size(e) <= max
    THEN {DOMAIN e}
    ELSE {S \in SUBSET DOMAIN e :
            /\ Cardinality(S) = max
            /\ \A s \in S, v \in DOMAIN e \ S : e[v].inserted <= e[s].inserted}

\* evictIfNeededLocked: the entries that are over go, then the oldest until the
\* rest fits.  Entries of the same age go in any order.
Survivors(e, max) ==
    IF max = 0 \/ Cardinality(Live(e)) <= max
    THEN {Live(e)}
    ELSE {S \in SUBSET Live(e) :
            /\ Cardinality(S) = max
            /\ \A s \in S, v \in Live(e) \ S : e[v].inserted <= e[s].inserted}

\* Variant: an eviction is not an invalidation.
EvictIfNeeded_CountsApart(e, max, st) ==
    \E S \in Survivors(e, max) :
        /\ entries' = Keep(e, S)
        /\ stats' = [st EXCEPT !.invalidate = @ + Cardinality(DOMAIN e \ Live(e)),
                               !.eviction = @ + Cardinality(Live(e) \ S)]

\* evictIfNeededLocked applied to the map e with the counters st: an eviction
\* also counts as an invalidation.
EvictIfNeeded(e, max, st) ==
    \E S \in Survivors(e, max) :
        /\ entries' = Keep(e, S)
        /\ stats' = [st EXCEPT !.invalidate = @ + Cardinality(DOMAIN e \ S),
                               !.eviction = @ + Cardinality(Live(e) \ S)]

-----------------------------------------------------------------------------
\* Variant: the limit is taken for the last index.
SetMaxEntries_LessOne(max) ==
    /\ limit' = max - 1
    /\ EvictIfNeeded(entries, max, stats)
    /\ UNCHANGED <<now, last, gets, replaced>>

\* Variant: a new limit waits for the next Put.
SetMaxEntries_Lazy(max) ==
    /\ limit' = max
    /\ UNCHANGED <<entries, now, stats, last, gets, replaced>>

SetMaxEntries(max) ==
    /\ limit' = max
    /\ EvictIfNeeded(entries, max, stats)
    /\ UNCHANGED <<now, last, gets, replaced>>

Put(k, v, ttl) ==
    /\ stats.put < MaxOps
    /\ LET new == [value |-> v, expire |-> now + ttl, inserted |-> now]
           e   == [j \in DOMAIN entries \cup {k} |-> IF j = k THEN new ELSE entries[j]]
       IN  EvictIfNeeded(e, limit, [stats EXCEPT !.put = @ + 1])
    /\ replaced' = replaced + Cardinality({k} \cap DOMAIN entries)
    /\ last' = [op |-> "put", key |-> k, value |-> v, ttl |-> ttl]
    /\ UNCHANGED <<limit, now, gets>>

Get(k) ==
    /\ gets < MaxOps /\ gets' = gets + 1
    /\ \/ /\ k \notin DOMAIN entries
          /\ stats' = [stats EXCEPT !.miss = @ + 1]
          /\ last' = [op |-> "get", key |-> k, result |-> Miss]
          /\ UNCHANGED entries
       \/ /\ k \in DOMAIN entries /\ Expired(entries, k)
          /\ entries' = Keep(entries, DOMAIN entries \ {k})
          /\ stats' = [stats EXCEPT !.miss = @ + 1, !.invalidate = @ + 1]
          /\ last' = [op |-> "get", key |-> k, result |-> Miss]
       \/ /\ k \in Live(entries)
          /\ stats' = [stats EXCEPT !.hit = @ + 1]
          /\ last' = [op |-> "get", key |-> k, result |-> entries[k].value]
          /\ UNCHANGED entries
    /\ UNCHANGED <<limit, now, replaced>>

\* Invalidate, InvalidatePrefix and Clear: the keys in S go.
Drop(S) ==
    /\ entries' = Keep(entries, DOMAIN entries \ S)
    /\ stats' = [stats EXCEPT !.invalidate = @ + Cardinality(S \cap DOMAIN entries)]
    /\ last' = [op |-> "drop", keys |-> S]
    /\ UNCHANGED <<limit, now, gets, replaced>>

Invalidate(k) == Drop({k})
InvalidatePrefix(prefix) == Drop(prefix)
Clear == Drop(Keys)

\* Time passes.
Tick ==
    /\ now < MaxTime
    /\ now' = now + 1
    /\ UNCHANGED <<entries, limit, stats, last, gets, replaced>>

Next ==
    \/ \E max \in Limits : SetMaxEntries(max)
    \/ \E k \in Keys, v \in Values, ttl \in Ttls : Put(k, v, ttl)
    \/ \E k \in Keys : Get(k) \/ Invalidate(k)
    \/ \E prefix \in Prefixes : InvalidatePrefix(prefix)
    \/ Clear \/ Tick

Spec == Init /\ [][Next]_vars

-----------------------------------------------------------------------------
(* Properties.                                                             *)

\* Over any sequence of operations the counters account for every call and
\* every entry: an entry that is put is there, was replaced, or is counted as
\* invalidated exactly once, by whichever of the six ways it left.
StatsBalance ==
    /\ stats.hit + stats.miss = gets
    /\ stats.put = Size(entries) + replaced + stats.invalidate
    /\ stats.eviction <= stats.invalidate

\* The limit holds after every operation, SetMaxEntries included.
WithinLimit == limit # 0 => Size(entries) <= limit

\* A live entry is sacrificed to the limit only when no expired entry is left
\* that could have gone instead, and none that stays is older.
EvictionIsFair ==
    [][\A k \in Live(entries) \ DOMAIN entries' :
          stats'.eviction > stats.eviction =>
             \A j \in DOMAIN entries' : /\ now <= entries'[j].expire
                                        /\ entries[k].inserted <= entries'[j].inserted]_vars

\* LocalCache is a VolatileMap: whatever expires, is swept, evicted or dropped, Get(k)
\* returns what the last Put stored under k, up to and including its deadline and never
\* after, and nothing that was dropped comes back.
Map == INSTANCE VolatileMap WITH
          store <- [k \in DOMAIN entries |->
                       [value |-> entries[k].value, until |-> entries[k].expire]]
ImplementsMap == Map!Spec
=============================================================================
