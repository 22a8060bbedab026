---------------------------- MODULE VolatileMap ----------------------------
(***************************************************************************)
(* What the users of a cache may rely on.  A lookup of a key returns what  *)
(* was last stored under that very key, up to and including its deadline   *)
(* and never after, unless it was removed or lost in between.  Only Store  *)
(* and Forget may lose something, and they may lose anything.              *)
(***************************************************************************)
EXTENDS Naturals

CONSTANTS Keys, Values, Ttls, Miss

VARIABLES
    store,   \* what is kept: key -> [value, until]
    now,     \* the clock
    last     \* the last call: the operation, its arguments and its result

vars == <<store, now, last>>

Init ==
    /\ store = [k \in {} |-> Miss]
    /\ now = 0
    /\ last = [op |-> "none"]

\* What remains of f when only the keys in S are kept.
Keep(f, S) == [k \in S |-> f[k]]

Lose(f) == \E S \in SUBSET DOMAIN f : store' = Keep(f, S)

Store(k, v, ttl) ==
    /\ last' = [op |-> "put", key |-> k, value |-> v, ttl |-> ttl]
    /\ Lose([j \in DOMAIN store \cup {k} |->
                IF j = k THEN [value |-> v, until |-> now + ttl] ELSE store[j]])
    /\ UNCHANGED now

\* A lookup that finds something.
Hit(k) ==
    /\ k \in DOMAIN store /\ now <= store[k].until
    /\ last' = [op |-> "get", key |-> k, result |-> store[k].value]
    /\ UNCHANGED <<store, now>>

\* A lookup that finds nothing; what is over may go.
NoHit(k) ==
    /\ k \in DOMAIN store => store[k].until < now
    /\ last' = [op |-> "get", key |-> k, result |-> Miss]
    /\ store' \in {store, Keep(store, DOMAIN store \ {k})}
    /\ UNCHANGED now

Remove(S) ==
    /\ last' = [op |-> "drop", keys |-> S]
    /\ store' = Keep(store, DOMAIN store \ S)
    /\ UNCHANGED now

Forget == Lose(store) /\ UNCHANGED <<now, last>>

Tick == now' = now + 1 /\ UNCHANGED <<store, last>>

Next ==
    \/ \E k \in Keys, v \in Values, ttl \in Ttls : Store(k, v, ttl)
    \/ \E k \in Keys : Hit(k) \/ NoHit(k)
    \/ \E S \in SUBSET Keys : Remove(S)
    \/ Forget \/ Tick

Spec == Init /\ [][Next]_vars
=============================================================================
