------------------------------ MODULE TTLCache ------------------------------
(***************************************************************************)
(* The in-process cache of internal/cache: a map with a time to live per   *)
(* entry and a size limit.  Each operation runs under the cache's mutex    *)
(* and is one operator from a cache content to the next; the choices the   *)
(* Go map leaves open (which entries a range loop meets first) make it a   *)
(* set of contents.                                                        *)
(***************************************************************************)
EXTENDS Integers, FiniteSets

CONSTANTS CacheKey,  \* the keys callers use
          NoItem,    \* the key is not in the map
          TTL,       \* entry life in clock units
          MaxSize    \* capacity

ASSUME CacheParameters == TTL \in Nat /\ MaxSize \in Nat \ {0}

Items(V) == [CacheKey -> [value : V, expiresAt : Int] \cup {NoItem}]

EmptyCache == [k \in CacheKey |-> NoItem]

Stored(items) == {k \in CacheKey : items[k] # NoItem}

\* Mutant of Servable: Get does not look at the expiry.
Servable_Forever(items, k, now) == items[k] # NoItem

\* Get answers from an entry until the clock is past its expiry.
Servable(items, k, now) == items[k] # NoItem /\ now <= items[k].expiresAt

\* Mutant of Drop: the entry is overwritten by a zero entry, not deleted.
Drop_Zeroes(items, K) ==
    [k \in CacheKey |-> IF k \in K THEN [value |-> NoItem, expiresAt |-> 0] ELSE items[k]]

\* Delete and DeletePrefix take keys out of the map.
Drop(items, K) == [k \in CacheKey |-> IF k \in K THEN NoItem ELSE items[k]]

\* Mutant of EvictionCount: only the quarter, which is nothing below four entries.
EvictionCount_Quarter == MaxSize \div 4

\* The eviction loop tests its count after a deletion, so it drops at least one.
EvictionCount == IF MaxSize \div 4 = 0 THEN 1 ELSE MaxSize \div 4

\* Mutant of Evictions: the limit is tested with > instead of >=.
Evictions_OneLate(items) ==
    IF Cardinality(Stored(items)) > MaxSize
    THEN {E \in SUBSET Stored(items) : Cardinality(E) = EvictionCount}
    ELSE {{}}

\* What Set may evict: nothing below capacity, else any EvictionCount entries,
\* whether or not the key it is about to set is among the stored ones.
Evictions(items) ==
    IF Cardinality(Stored(items)) >= MaxSize
    THEN {E \in SUBSET Stored(items) : Cardinality(E) = EvictionCount}
    ELSE {{}}

\* Mutant of Put: an entry that is set again keeps its old expiry.
Put_KeepsExpiry(items, k, v, now) ==
    [items EXCEPT ![k] =
        [value |-> v, expiresAt |-> IF @ # NoItem THEN @.expiresAt ELSE now + TTL]]

Put(items, k, v, now) ==
    [items EXCEPT ![k] = [value |-> v, expiresAt |-> now + TTL]]

\* Set: evict at capacity, then store.
SetResults(items, k, v, now) ==
    {Put(Drop(items, E), k, v, now) : E \in Evictions(items)}

Expired(items, now) ==
    {k \in Stored(items) : now > items[k].expiresAt}

\* The ticker of evictLoop.
EvictExpired(items, now) == Drop(items, Expired(items, now))
=============================================================================
