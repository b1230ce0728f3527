----------------------------- MODULE LocalCache -----------------------------
(***************************************************************************)
(* One TTLCache in use: the goroutines of a process call Set, Delete and   *)
(* DeletePrefix, the eviction ticker runs, time passes.  The cache is      *)
(* shown to implement LossyMap: neither eviction at capacity nor the       *)
(* entries that stay in the map after their expiry can be seen in what Get *)
(* answers.                                                                *)
(***************************************************************************)
EXTENDS TTLCache

CONSTANTS Values,
          PrefixOf,   \* the prefix ("<phone>:", "org:") each key starts with
          MaxClock    \* bound of the clock in an instance

ASSUME ClockBound == MaxClock \in Nat
ASSUME NoItemIsNotAnItem == NoItem \notin [value : Values, expiresAt : Int]

VARIABLES items, clock

cacheVars == <<items, clock>>

CacheTypeOK == items \in Items(Values) /\ clock \in Nat

CacheInit == items = EmptyCache /\ clock = 0

Set(k, v) ==
    /\ items' \in SetResults(items, k, v, clock)
    /\ UNCHANGED clock

Delete(k) ==
    /\ items' = Drop(items, {k})
    /\ UNCHANGED clock

DeletePrefix(p) ==
    /\ items' = Drop(items, {k \in CacheKey : PrefixOf[k] = p})
    /\ UNCHANGED clock

CacheEvictLoop ==
    /\ items' = EvictExpired(items, clock)
    /\ UNCHANGED clock

CacheTick ==
    /\ clock < MaxClock
    /\ clock' = clock + 1
    /\ UNCHANGED items

CacheNext ==
    \/ \E k \in CacheKey, v \in Values : Set(k, v)
    \/ \E k \in CacheKey : Delete(k) \/ DeletePrefix(PrefixOf[k])
    \/ CacheEvictLoop
    \/ CacheTick

CacheSpec == CacheInit /\ [][CacheNext]_cacheVars

-----------------------------------------------------------------------------

\* The cache never holds more than MaxSize entries, at any capacity: below four
\* entries the quarter is zero and only the order of count and test saves it.
SizeBound == Cardinality(Stored(items)) <= MaxSize

View == [k \in CacheKey |-> IF Servable(items, k, clock) THEN items[k] ELSE NoItem]

Map == INSTANCE LossyMap WITH
    MapKey <- CacheKey, MapValue <- Values, Life <- TTL, Miss <- NoItem,
    view <- View, clock <- clock

\* Seen through Get, the cache is a map that may forget but never lies.
ImplementsLossyMap == Map!MapSpec
=============================================================================
