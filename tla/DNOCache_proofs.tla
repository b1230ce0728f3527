-------------------------- MODULE DNOCache_proofs --------------------------
(***************************************************************************)
(* Proofs about the caches of DNO lookups.  First what TTLCache's          *)
(* operators do, for every kind of value.  Then LocalCache, one cache by   *)
(* itself: it never grows past its capacity, and seen through Get it       *)
(* implements LossyMap.  Then DNOLookup, the caches of all processes       *)
(* against the table, for every set of numbers, processes, lookups and     *)
(* changes, every capacity, life and lag.  The argument for the bound:     *)
(* what a lookup read, the table said at readAt or later, at most MaxLag   *)
(* ago when it is stored; an entry's expiry is its life after that.  For   *)
(* the causes: a change of a number marks every lookup that has read and   *)
(* every cache it will not invalidate.                                     *)
(***************************************************************************)
EXTENDS DNOLookup, LocalCache, FiniteSetTheorems, TLAPS

-----------------------------------------------------------------------------
(* TTLCache's operators.                                                   *)

\* A cache content within the capacity.
Within(c) == IsFiniteSet(Stored(c)) /\ Cardinality(Stored(c)) <= MaxSize

\* At least one entry is evicted at capacity, and never more than there is room for.
LEMMA EvictsOne == EvictionCount \in Nat /\ EvictionCount >= 1 /\ EvictionCount <= MaxSize
BY CacheParameters DEF EvictionCount

\* Dropping keys keeps a cache a cache, and every other entry as it was.
LEMMA DropFacts ==
    ASSUME NEW V, NEW c \in Items(V), NEW K
    PROVE  /\ Drop(c, K) \in Items(V)
           /\ \A k \in CacheKey : Drop(c, K)[k] = IF k \in K THEN NoItem ELSE c[k]
           /\ Stored(Drop(c, K)) = Stored(c) \ K
<1>1. Drop(c, K) \in Items(V)
  BY DEF Drop, Items
<1>2. \A k \in CacheKey : Drop(c, K)[k] = IF k \in K THEN NoItem ELSE c[k]
  BY DEF Drop
<1> QED BY <1>1, <1>2 DEF Stored

\* Dropping keys leaves no more entries than there were.
LEMMA DropWithin ==
    ASSUME NEW V, NEW c \in Items(V), NEW K, Within(c)
    PROVE  Within(Drop(c, K))
<1>1. Stored(c) \ K \in SUBSET Stored(c)
  OBVIOUS
<1>2. /\ IsFiniteSet(Stored(c) \ K)
      /\ Cardinality(Stored(c) \ K) <= Cardinality(Stored(c))
      /\ Cardinality(Stored(c)) \in Nat /\ Cardinality(Stored(c) \ K) \in Nat
  BY <1>1, FS_Subset, FS_CardinalityType DEF Within
<1>3. Stored(Drop(c, K)) = Stored(c) \ K
  BY DropFacts
<1> QED BY <1>2, <1>3, CacheParameters DEF Within

\* After Set the key has the new entry, and every other key its old one or none.
LEMMA SetFacts ==
    ASSUME NEW V, NEW c \in Items(V), NEW k \in CacheKey, NEW v \in V,
           NEW t \in Int, NEW d \in SetResults(c, k, v, t)
    PROVE  /\ d \in Items(V)
           /\ d[k] = [value |-> v, expiresAt |-> t + TTL]
           /\ \A l \in CacheKey \ {k} : d[l] \in {c[l], NoItem}
<1> DEFINE e == [value |-> v, expiresAt |-> t + TTL]
<1>1. PICK E \in Evictions(c) : d = Put(Drop(c, E), k, v, t)
  BY DEF SetResults
<1>2. e \in [value : V, expiresAt : Int]
  BY CacheParameters
<1> DEFINE r == Drop(c, E)
<1>3. r \in Items(V) /\ \A l \in CacheKey : r[l] \in {c[l], NoItem}
  BY DropFacts
<1>4. d = [r EXCEPT ![k] = e]
  BY <1>1 DEF Put
<1> HIDE DEF r, e
<1>5. d \in Items(V) /\ d[k] = e /\ \A l \in CacheKey \ {k} : d[l] = r[l]
  BY <1>2, <1>3, <1>4 DEF Items
<1> QED BY <1>3, <1>5 DEF e

\* Set evicts before it stores, so the content stays within the capacity.
LEMMA SetWithin ==
    ASSUME NEW V, NEW c \in Items(V), NEW k \in CacheKey, NEW v \in V,
           NEW t \in Int, NEW d \in SetResults(c, k, v, t), Within(c)
    PROVE  Within(d)
<1>1. PICK E \in Evictions(c) : d = Put(Drop(c, E), k, v, t)
  BY DEF SetResults
<1> DEFINE left == Stored(c) \ E
<1>2. IsFiniteSet(left) /\ Cardinality(left) <= MaxSize - 1
  <2>1. IsFiniteSet(Stored(c)) /\ Cardinality(Stored(c)) \in Nat
        /\ Cardinality(Stored(c)) <= MaxSize
    BY FS_CardinalityType DEF Within
  <2>2. CASE Cardinality(Stored(c)) >= MaxSize
    <3>1. E \subseteq Stored(c) /\ Cardinality(E) = EvictionCount
      BY <1>1, <2>2 DEF Evictions
    <3>2. /\ IsFiniteSet(left)
          /\ Cardinality(left) = Cardinality(Stored(c)) - Cardinality(Stored(c) \cap E)
      BY <2>1, FS_Difference
    <3>3. Stored(c) \cap E = E
      BY <3>1
    <3>4. MaxSize \in Nat /\ EvictionCount \in Nat /\ EvictionCount >= 1
      BY EvictsOne, CacheParameters
    <3>5. Cardinality(left) = Cardinality(Stored(c)) - EvictionCount
      BY <3>1, <3>2, <3>3
    <3>6. IsFiniteSet(left)
      BY <3>2
    <3> HIDE DEF left
    <3> QED BY <2>1, <3>4, <3>5, <3>6
  <2>3. CASE ~ (Cardinality(Stored(c)) >= MaxSize)
    <3>1. E = {}
      BY <1>1, <2>3 DEF Evictions
    <3>2. left = Stored(c)
      BY <3>1
    <3> QED BY <2>1, <2>3, <3>2, CacheParameters
  <2> QED BY <2>2, <2>3
<1> HIDE DEF left
<1>3. /\ IsFiniteSet(left \cup {k})
      /\ Cardinality(left \cup {k}) \in {Cardinality(left), Cardinality(left) + 1}
      /\ Cardinality(left) \in Nat
  BY <1>2, FS_AddElement, FS_CardinalityType
<1>4. Stored(d) \in SUBSET (left \cup {k})
  <2>1. Stored(Drop(c, E)) = left /\ DOMAIN Drop(c, E) = CacheKey
    BY DropFacts DEF left, Drop
  <2>2. \A l \in CacheKey \ {k} : d[l] = Drop(c, E)[l]
    BY <1>1, <2>1 DEF Put
  <2> QED BY <2>1, <2>2 DEF Stored
<1>5. /\ IsFiniteSet(Stored(d)) /\ Cardinality(Stored(d)) <= Cardinality(left \cup {k})
      /\ Cardinality(Stored(d)) \in Nat
  BY <1>3, <1>4, FS_Subset, FS_CardinalityType
<1> QED BY <1>2, <1>3, <1>5, CacheParameters DEF Within

-----------------------------------------------------------------------------
(* LocalCache: the capacity.                                               *)

CacheIInv == CacheTypeOK /\ Within(items)

\* The cache starts empty.
LEMMA CacheInitInv == CacheInit => CacheIInv
<1> SUFFICES ASSUME CacheInit PROVE CacheIInv
  OBVIOUS
<1>1. CacheTypeOK /\ Stored(items) = {}
  BY DEF CacheInit, CacheTypeOK, EmptyCache, Items, Stored
<1> QED BY <1>1, FS_EmptySet, CacheParameters DEF CacheIInv, Within

\* Every operation keeps the content within the capacity.
LEMMA CacheStepInv == CacheIInv /\ [CacheNext]_cacheVars => CacheIInv'
<1> SUFFICES ASSUME CacheIInv, [CacheNext]_cacheVars PROVE CacheIInv'
  OBVIOUS
<1> USE DEF CacheIInv
<1>0. items \in Items(Values) /\ clock \in Nat /\ Within(items)
  BY DEF CacheTypeOK
<1>1. ASSUME NEW k \in CacheKey, NEW v \in Values, Set(k, v)
      PROVE  CacheIInv'
  <2>1. items' \in SetResults(items, k, v, clock) /\ clock' = clock /\ clock \in Int
    BY <1>0, <1>1 DEF Set
  <2>2. items' \in Items(Values)
    BY <1>0, <2>1, SetFacts
  <2>3. Within(items')
    BY <1>0, <2>1, SetWithin
  <2> QED BY <1>0, <2>1, <2>2, <2>3 DEF CacheTypeOK, Within
<1>2. ASSUME NEW K, items' = Drop(items, K), clock' = clock
      PROVE  CacheIInv'
  <2>1. items' \in Items(Values)
    BY <1>0, <1>2, DropFacts
  <2>2. Within(items')
    BY <1>0, <1>2, DropWithin
  <2> QED BY <1>0, <1>2, <2>1, <2>2 DEF CacheTypeOK, Within
<1>3. ASSUME NEW k \in CacheKey, Delete(k) \/ DeletePrefix(PrefixOf[k])
      PROVE  CacheIInv'
  BY <1>2, <1>3 DEF Delete, DeletePrefix
<1>4. CASE CacheEvictLoop
  BY <1>2, <1>4 DEF CacheEvictLoop, EvictExpired
<1>5. CASE CacheTick
  BY <1>0, <1>5 DEF CacheTick, CacheTypeOK, Within
<1>6. CASE UNCHANGED cacheVars
  BY <1>6 DEF cacheVars, CacheTypeOK, Within
<1> QED BY <1>1, <1>3, <1>4, <1>5, <1>6 DEF CacheNext

\* The invariant holds in every reachable state.
THEOREM CacheInvariance == CacheSpec => []CacheIInv
BY CacheInitInv, CacheStepInv, PTL DEF CacheSpec

\* The content and the clock keep their types.
THEOREM CacheTypeCorrect == CacheSpec => []CacheTypeOK
<1>1. CacheIInv => CacheTypeOK
  BY DEF CacheIInv
<1> QED BY CacheInvariance, <1>1, PTL

\* The cache never holds more than MaxSize entries, for every MaxSize.
THEOREM CapacityHolds == CacheSpec => []SizeBound
<1>1. CacheIInv => SizeBound
  BY DEF CacheIInv, Within, SizeBound
<1> QED BY CacheInvariance, <1>1, PTL

-----------------------------------------------------------------------------
(* LocalCache: the refinement.                                             *)

\* The empty cache is the empty map.
LEMMA InitRefines == CacheInit => Map!MapInit
BY DEF CacheInit, Map!MapInit, View, EmptyCache, Servable

\* Every operation is one of the map, or cannot be seen.
LEMMA StepRefines ==
    ASSUME CacheIInv, [CacheNext]_cacheVars
    PROVE  [Map!MapNext]_(Map!mapVars)
<1> USE DEF CacheIInv, CacheTypeOK
<1>0. items \in Items(Values) /\ clock \in Nat /\ Within(items)
  OBVIOUS
<1>1. ASSUME NEW k \in CacheKey, NEW v \in Values, Set(k, v)
      PROVE  Map!MapSet(k, v)
  <2>1. /\ items'[k] = [value |-> v, expiresAt |-> clock + TTL]
        /\ \A l \in CacheKey \ {k} : items'[l] \in {items[l], NoItem}
        /\ clock' = clock
    BY <1>0, <1>1, SetFacts DEF Set
  <2>2. items'[k] # NoItem /\ clock <= items'[k].expiresAt
    BY <1>0, <2>1, CacheParameters, NoItemIsNotAnItem
  <2>3. View'[k] = items'[k]
    BY <2>1, <2>2 DEF View, Servable
  <2>4. \A l \in CacheKey \ {k} : View'[l] \in {View[l], NoItem}
    BY <2>1 DEF View, Servable
  <2>5. View' = [l \in CacheKey |-> View'[l]]
    BY DEF View
  <2> QED BY <2>1, <2>3, <2>4, <2>5 DEF Map!MapSet, Map!MayForget, Map!Shape
<1>2. ASSUME NEW K \in SUBSET CacheKey, items' = Drop(items, K), clock' = clock
      PROVE  Map!MapDelete(K)
  <2>1. \A l \in CacheKey : items'[l] = IF l \in K THEN NoItem ELSE items[l]
    BY <1>0, <1>2, DropFacts
  <2> QED BY <1>2, <2>1 DEF Map!MapDelete, View, Servable
<1>3. ASSUME NEW k \in CacheKey, Delete(k) \/ DeletePrefix(PrefixOf[k])
      PROVE  \E K \in SUBSET CacheKey : Map!MapDelete(K)
  <2>1. CASE Delete(k)
    <3>1. {k} \in SUBSET CacheKey
      OBVIOUS
    <3> QED BY <1>2, <2>1, <3>1 DEF Delete
  <2>2. CASE DeletePrefix(PrefixOf[k])
    <3>1. {l \in CacheKey : PrefixOf[l] = PrefixOf[k]} \in SUBSET CacheKey
      OBVIOUS
    <3> QED BY <1>2, <2>2, <3>1 DEF DeletePrefix
  <2> QED BY <1>3, <2>1, <2>2
<1>4. CASE CacheEvictLoop
  <2>1. \A l \in CacheKey : items'[l] =
          IF l \in Expired(items, clock) THEN NoItem ELSE items[l]
    BY <1>0, <1>4, DropFacts DEF CacheEvictLoop, EvictExpired
  <2>2. \A l \in Expired(items, clock) : ~ Servable(items, l, clock)
    <3>1. \A l \in Expired(items, clock) : items[l].expiresAt \in Int /\ clock > items[l].expiresAt
      BY <1>0 DEF Expired, Stored, Items
    <3> QED BY <1>0, <3>1 DEF Servable
  <2>3. View' = View /\ clock' = clock
    BY <1>4, <2>1, <2>2 DEF CacheEvictLoop, View, Servable
  <2> QED BY <2>3 DEF Map!mapVars
<1>5. CASE CacheTick
  <2>1. clock' = clock + 1 /\ items' = items
    BY <1>5 DEF CacheTick
  <2>2. ASSUME NEW l \in CacheKey
        PROVE  View'[l] = IF View[l] # NoItem /\ clock' > View[l].expiresAt
                          THEN NoItem ELSE View[l]
    <3>1. items[l] # NoItem => items[l].expiresAt \in Int
      BY <1>0 DEF Items
    <3> QED BY <1>0, <2>1, <3>1 DEF View, Servable
  <2>3. View' = [l \in CacheKey |-> View'[l]]
    BY DEF View
  <2>4. clock' > clock
    BY <1>0, <2>1
  <2> QED BY <2>2, <2>3, <2>4 DEF Map!MapNext, Map!MapTick
<1>6. CASE UNCHANGED cacheVars
  BY <1>6 DEF cacheVars, View, Servable, Map!mapVars
<1> QED BY <1>1, <1>3, <1>4, <1>5, <1>6 DEF CacheNext, Map!MapNext

\* Seen through Get, the cache is a map that may forget but never lies.
THEOREM CacheImplementsLossyMap == CacheSpec => ImplementsLossyMap
<1>1. CacheIInv /\ [CacheNext]_cacheVars => [Map!MapNext]_(Map!mapVars)
  BY StepRefines
<1> QED BY CacheInvariance, InitRefines, <1>1, PTL DEF CacheSpec, ImplementsLossyMap, Map!MapSpec

-----------------------------------------------------------------------------
(* DNOLookup: the invariant.                                               *)

\* The table's answers are seen now, and none was seen later than now.
Fresh ==
    \A k \in CacheKey :
        /\ seen[k][Answer(active, k)] = now
        /\ \A b \in BOOLEAN : seen[k][b] <= now

\* What lookups have read and caches have stored was seen recently enough.
ReadsBound ==
    \A x \in Lookups : Phase(x, "store") =>
        /\ lookup[x].readAt <= now /\ now <= lookup[x].readAt + MaxLag
        /\ \A k \in lookup[x].keys : lookup[x].readAt <= seen[k][lookup[x].answer[k]]

EntriesBound ==
    \A q \in Procs, k \in CacheKey : cache[q][k] # NoItem =>
        cache[q][k].expiresAt <= seen[k][cache[q][k].value] + TTL + MaxLag

\* What lookups have read and caches have stored is the table's answer, or marked.
ReadsMarked ==
    \A x \in Lookups : Phase(x, "store") =>
        \A k \in lookup[x].keys :
            lookup[x].answer[k] = Answer(active, k) \/ k[1] \in lookup[x].raced

Due(q, k) == \E y \in Changes : /\ change[y] # None
                                /\ change[y].proc = q
                                /\ change[y].key[1] = k[1]

EntriesMarked ==
    \A q \in Procs, k \in CacheKey : cache[q][k] # NoItem =>
        \/ cache[q][k].value = Answer(active, k)
        \/ <<q, k>> \in tainted
        \/ Due(q, k)

TimeInv == Fresh /\ ReadsBound /\ EntriesBound
CauseInv == ReadsMarked /\ EntriesMarked
IInv == TypeOK /\ TimeInv /\ CauseInv

-----------------------------------------------------------------------------
(* Operators.                                                              *)

\* The expiry arithmetic is over integers.
LEMMA Numbers == TTL \in Int /\ MaxLag \in Int /\ TTL >= 0 /\ MaxLag >= 0 /\ Start \in Int
BY CacheParameters, LookupParameters DEF Start

\* A change of rows of one number leaves the answers for other numbers alone.
LEMMA OtherNumbers ==
    ASSUME TypeOK, NEW p \in Phones, NEW R \in SUBSET RowKey, NEW b \in BOOLEAN,
           \A r \in R : r[1] = p, SetRows(R, b)
    PROVE  /\ active' \in [RowKey -> BOOLEAN]
           /\ \A k \in CacheKey : k[1] # p => Answer(active', k) = Answer(active, k)
<1>1. active' \in [RowKey -> BOOLEAN]
  BY DEF SetRows, TypeOK
<1>2. ASSUME NEW k \in CacheKey, k[1] # p
      PROVE  Answer(active', k) = Answer(active, k)
  <2>1. \A r \in Covering(k[1], k[2]) : r \in RowKey /\ r[1] = k[1]
    BY LookupParameters DEF Covering, RowKey
  <2>2. \A r \in Covering(k[1], k[2]) : active'[r] = active[r]
    BY <1>2, <2>1 DEF SetRows
  <2> QED BY <2>2 DEF Answer
<1> QED BY <1>1, <1>2

\* The answers are Booleans.
LEMMA AnswerType ==
    ASSUME NEW a \in [RowKey -> BOOLEAN], NEW k \in CacheKey
    PROVE  Answer(a, k) \in BOOLEAN
BY DEF Answer

-----------------------------------------------------------------------------
(* Steps that several actions share.                                       *)

\* The record of a lookup that has read.
LEMMA StoringRecord ==
    ASSUME TypeOK, NEW x \in Lookups, Phase(x, "store")
    PROVE  lookup[x] \in Storing
BY DEF TypeOK, Phase, Selecting

\* Remember: the answers given now are seen now; nothing seen is forgotten.
LEMMA RememberFacts ==
    ASSUME TypeOK, Fresh, active' \in [RowKey -> BOOLEAN], now' \in Int, now' >= now,
           Remember
    PROVE  /\ seen' \in [CacheKey -> [BOOLEAN -> Int]]
           /\ Fresh'
           /\ \A k \in CacheKey, b \in BOOLEAN : seen[k][b] <= seen'[k][b]
<1>1. \A k \in CacheKey, b \in BOOLEAN :
        seen'[k][b] = IF b = Answer(active', k) THEN now' ELSE seen[k][b]
  BY DEF Remember
<1>2. \A k \in CacheKey, b \in BOOLEAN : seen[k][b] \in Int /\ seen[k][b] <= now
  BY DEF TypeOK, Fresh
<1>3. \A k \in CacheKey : Answer(active', k) \in BOOLEAN
  BY AnswerType
<1>4. seen' \in [CacheKey -> [BOOLEAN -> Int]]
  BY <1>2 DEF Remember
<1>5. now \in Int
  BY DEF TypeOK
<1>6. Fresh'
  BY <1>1, <1>2, <1>3, <1>5 DEF Fresh
<1>7. \A k \in CacheKey, b \in BOOLEAN : seen[k][b] <= seen'[k][b]
  BY <1>1, <1>2, <1>5
<1> QED BY <1>4, <1>6, <1>7

\* Taint marks every lookup that has read, and the caches of Q.
LEMMA TaintFacts ==
    ASSUME TypeOK, NEW p \in Phones, NEW Q \in SUBSET Procs, Taint(p, Q)
    PROVE  /\ lookup' \in [Lookups -> Selecting \cup Storing \cup {None}]
           /\ tainted' \subseteq Procs \X CacheKey
           /\ \A q \in Procs, k \in CacheKey :
                <<q, k>> \in tainted' <=> <<q, k>> \in tainted \/ (q \in Q /\ k[1] = p)
           /\ \A x \in Lookups : Phase(x, "store")' <=> Phase(x, "store")
           /\ \A x \in Lookups : Phase(x, "store") =>
                /\ lookup'[x].keys = lookup[x].keys
                /\ lookup'[x].answer = lookup[x].answer
                /\ lookup'[x].readAt = lookup[x].readAt
                /\ lookup'[x].raced = lookup[x].raced \cup {p}
<1>1. \A x \in Lookups : lookup'[x] = IF Phase(x, "store")
                          THEN [lookup[x] EXCEPT !.raced = @ \cup {p}] ELSE lookup[x]
  BY DEF Taint
<1>2. ASSUME NEW x \in Lookups, Phase(x, "store")
      PROVE  /\ lookup'[x] \in Storing
             /\ lookup'[x].keys = lookup[x].keys
             /\ lookup'[x].answer = lookup[x].answer
             /\ lookup'[x].readAt = lookup[x].readAt
             /\ lookup'[x].raced = lookup[x].raced \cup {p}
  <2>1. lookup[x] \in Storing
    BY <1>2, StoringRecord
  <2>2. lookup'[x] = [lookup[x] EXCEPT !.raced = @ \cup {p}]
    BY <1>1, <1>2
  <2> QED BY <2>1, <2>2 DEF Storing
<1>3. \A x \in Lookups : lookup'[x] \in Selecting \cup Storing \cup {None}
  BY <1>1, <1>2 DEF TypeOK
<1>4. lookup' \in [Lookups -> Selecting \cup Storing \cup {None}]
  BY <1>3 DEF Taint
<1>5. \A x \in Lookups : Phase(x, "store")' <=> Phase(x, "store")
  <2>1. \A x \in Lookups : Phase(x, "store") => Phase(x, "store")'
    BY <1>2, NothingIsNotSomething DEF Phase, Storing
  <2>2. \A x \in Lookups : ~ Phase(x, "store") => ~ Phase(x, "store")'
    BY <1>1 DEF Phase
  <2> QED BY <2>1, <2>2
<1>6. tainted' = tainted \cup (Q \X KeysOf(p))
  BY DEF Taint
<1>7. tainted' \subseteq Procs \X CacheKey
  BY <1>6 DEF KeysOf, TypeOK
<1>8. \A q \in Procs, k \in CacheKey :
        <<q, k>> \in tainted' <=> <<q, k>> \in tainted \/ (q \in Q /\ k[1] = p)
  BY <1>6 DEF KeysOf
<1> QED BY <1>2, <1>4, <1>5, <1>7, <1>8

\* A step that changes rows of number p, after which every cache is tainted for p or
\* will be invalidated, keeps the invariant.
LEMMA TableStep ==
    ASSUME IInv, NEW p \in Phones, NEW Q \in SUBSET Procs,
           active' \in [RowKey -> BOOLEAN],
           \A k \in CacheKey : k[1] # p => Answer(active', k) = Answer(active, k),
           Taint(p, Q), Remember, cache' = cache, now' = now,
           change' \in [Changes -> Change \cup {None}],
           \A q \in Procs, k \in CacheKey : Due(q, k) => Due(q, k)',
           \A q \in Procs \ Q, k \in CacheKey : k[1] = p => Due(q, k)'
    PROVE  IInv'
<1> USE DEF IInv, TimeInv, CauseInv
<1>1. now' \in Int /\ now' >= now
  BY DEF TypeOK
<1>2. /\ seen' \in [CacheKey -> [BOOLEAN -> Int]] /\ Fresh'
      /\ \A k \in CacheKey, b \in BOOLEAN : seen[k][b] <= seen'[k][b]
  BY <1>1, RememberFacts
<1>3. TypeOK'
  BY <1>1, <1>2, TaintFacts DEF TypeOK
<1>4. ReadsBound'
  <2> SUFFICES ASSUME NEW x \in Lookups, Phase(x, "store"), NEW k \in lookup[x].keys
               PROVE  /\ lookup[x].readAt <= now /\ now <= lookup[x].readAt + MaxLag
                      /\ lookup[x].readAt <= seen'[k][lookup[x].answer[k]]
    <3>1. \A x \in Lookups : Phase(x, "store") =>
            lookup[x].readAt <= now /\ now <= lookup[x].readAt + MaxLag
      BY DEF ReadsBound
    <3> QED BY <3>1, TaintFacts DEF ReadsBound
  <2>1. lookup[x] \in Storing
    BY StoringRecord
  <2>2. /\ k \in CacheKey /\ lookup[x].answer[k] \in BOOLEAN /\ lookup[x].readAt \in Int
    BY <2>1 DEF Storing
  <2>3. /\ lookup[x].readAt <= now /\ now <= lookup[x].readAt + MaxLag
        /\ lookup[x].readAt <= seen[k][lookup[x].answer[k]]
    BY DEF ReadsBound
  <2>4. /\ seen[k][lookup[x].answer[k]] \in Int
        /\ seen'[k][lookup[x].answer[k]] \in Int
        /\ seen[k][lookup[x].answer[k]] <= seen'[k][lookup[x].answer[k]]
    BY <1>2, <2>2 DEF TypeOK
  <2> QED BY <2>2, <2>3, <2>4
<1>5. EntriesBound'
  <2> SUFFICES ASSUME NEW q \in Procs, NEW k \in CacheKey, cache[q][k] # NoItem
               PROVE  cache[q][k].expiresAt <= seen'[k][cache[q][k].value] + TTL + MaxLag
    BY DEF EntriesBound
  <2>1. cache[q][k].value \in BOOLEAN /\ cache[q][k].expiresAt \in Int
    BY DEF TypeOK, Items
  <2>2. /\ seen[k][cache[q][k].value] \in Int /\ seen'[k][cache[q][k].value] \in Int
        /\ seen[k][cache[q][k].value] <= seen'[k][cache[q][k].value]
    BY <1>2, <2>1 DEF TypeOK
  <2>3. cache[q][k].expiresAt <= seen[k][cache[q][k].value] + TTL + MaxLag
    BY DEF EntriesBound
  <2> QED BY <2>1, <2>2, <2>3, Numbers
<1>6. ReadsMarked'
  <2> SUFFICES ASSUME NEW x \in Lookups, Phase(x, "store"), NEW k \in lookup[x].keys
               PROVE  \/ lookup[x].answer[k] = Answer(active', k)
                      \/ k[1] \in lookup[x].raced \cup {p}
    BY TaintFacts DEF ReadsMarked
  <2>1. k \in CacheKey
    BY StoringRecord DEF Storing
  <2> QED BY <2>1 DEF ReadsMarked
<1>7. EntriesMarked'
  BY TaintFacts DEF EntriesMarked
<1> QED BY <1>2, <1>3, <1>4, <1>5, <1>6, <1>7

-----------------------------------------------------------------------------
(* The actions.                                                            *)

\* The caches are empty and no lookup runs.
LEMMA InitInv == Init => IInv
<1> SUFFICES ASSUME Init PROVE IInv
  OBVIOUS
<1> USE LookupParameters, NothingIsNotSomething, Numbers DEF Init
<1>1. \A k \in CacheKey : Answer(active, k) = FALSE
  <2> SUFFICES ASSUME NEW k \in CacheKey PROVE \A r \in Covering(k[1], k[2]) : ~ active[r]
    BY DEF Answer
  <2> QED BY DEF Covering, RowKey
<1>2. TypeOK
  <2>1. cache \in [Procs -> Items(BOOLEAN)]
    BY DEF Items, EmptyCache
  <2>2. seen \in [CacheKey -> [BOOLEAN -> Int]]
    <3>1. [b \in BOOLEAN |-> IF b THEN 0 ELSE Start] \in [BOOLEAN -> Int]
      OBVIOUS
    <3> QED BY <3>1
  <2>3. active \in [RowKey -> BOOLEAN] /\ now \in Int /\ tainted \subseteq Procs \X CacheKey
    OBVIOUS
  <2>4. lookup \in [Lookups -> Selecting \cup Storing \cup {None}]
    OBVIOUS
  <2>5. change \in [Changes -> Change \cup {None}]
    OBVIOUS
  <2> QED BY <2>1, <2>2, <2>3, <2>4, <2>5 DEF TypeOK
<1>3. Fresh
  <2>1. now = Start /\ 0 <= Start
    BY CacheParameters DEF Start
  <2>2. \A k \in CacheKey : seen[k][FALSE] = Start /\ seen[k][TRUE] = 0
    OBVIOUS
  <2>3. \A k \in CacheKey : seen[k][Answer(active, k)] = now
    BY <1>1, <2>1, <2>2
  <2>4. \A k \in CacheKey : seen[k][FALSE] <= now /\ seen[k][TRUE] <= now
    BY <2>1, <2>2
  <2>5. \A b \in BOOLEAN : b = TRUE \/ b = FALSE
    OBVIOUS
  <2>6. \A k \in CacheKey, b \in BOOLEAN : seen[k][b] <= now
    BY <2>4, <2>5
  <2> QED BY <2>3, <2>6 DEF Fresh
<1>4. ReadsBound /\ ReadsMarked
  BY DEF ReadsBound, ReadsMarked, Phase
<1>5. EntriesBound /\ EntriesMarked
  BY DEF EntriesBound, EntriesMarked, EmptyCache
<1> QED BY <1>2, <1>3, <1>4, <1>5 DEF IInv, TimeInv, CauseInv

\* The change a caller has made and has yet to invalidate.
LEMMA ChangeMade ==
    ASSUME TypeOK, NEW y \in Changes, NEW o \in {"add", "remove"}, NEW w \in ChangeProcs,
           NEW p \in Phones, NEW c \in RowChannels, change[y] = None,
           change' = [change EXCEPT ![y] = [op |-> o, proc |-> w, key |-> <<p, c>>]]
    PROVE  /\ change' \in [Changes -> Change \cup {None}]
           /\ \A q \in Procs, k \in CacheKey : Due(q, k) => Due(q, k)'
           /\ \A q \in Procs \ (Procs \ {w}), k \in CacheKey : k[1] = p => Due(q, k)'
<1> DEFINE r == [op |-> o, proc |-> w, key |-> <<p, c>>]
<1>1. r \in Change /\ r # None
  BY LookupParameters, NothingIsNotSomething DEF Change, RowKey
<1>2. r.proc = w /\ r.key[1] = p
  OBVIOUS
<1> HIDE DEF r
<1>3. change' = [change EXCEPT ![y] = r]
  BY DEF r
<1>4. change' \in [Changes -> Change \cup {None}]
  BY <1>1, <1>3 DEF TypeOK
<1>5. change'[y] = r /\ \A z \in Changes \ {y} : change'[z] = change[z]
  BY <1>3 DEF TypeOK
<1>6. \A q \in Procs, k \in CacheKey : Due(q, k) => Due(q, k)'
  BY <1>5 DEF Due
<1>7. \A k \in CacheKey : k[1] = p => Due(w, k)'
  BY <1>1, <1>2, <1>5 DEF Due
<1> QED BY <1>4, <1>6, <1>7

\* AddNumber's upsert and RemoveNumber's update.
LEMMA ChangeStep ==
    ASSUME IInv, NEW y \in Changes, NEW w \in ChangeProcs, NEW p \in Phones,
           NEW c \in RowChannels, Add(y, w, p, c) \/ Remove(y, w, p, c)
    PROVE  IInv'
<1>0. TypeOK /\ <<p, c>> \in RowKey /\ <<p, "both">> \in RowKey
  BY LookupParameters DEF IInv, RowKey
<1>1. PICK R \in SUBSET RowKey, b \in BOOLEAN :
        (\A r \in R : r[1] = p) /\ SetRows(R, b)
  <2>1. CASE Add(y, w, p, c)
    <3>1. \A r \in {<<p, c>>} : r \in RowKey /\ r[1] = p
      BY <1>0
    <3> QED BY <2>1, <3>1 DEF Add
  <2>2. CASE Remove(y, w, p, c)
    <3>1. PICK R \in (SUBSET Covering(p, c)) \ {{}} : SetRows(R, FALSE)
      BY <2>2 DEF Remove
    <3>2. \A r \in R : r \in RowKey /\ r[1] = p
      BY <1>0, <3>1 DEF Covering
    <3> QED BY <3>1, <3>2
  <2> QED BY <2>1, <2>2
<1>2. /\ active' \in [RowKey -> BOOLEAN]
      /\ \A k \in CacheKey : k[1] # p => Answer(active', k) = Answer(active, k)
  BY <1>0, <1>1, OtherNumbers
<1>3. PICK o \in {"add", "remove"} :
        /\ change[y] = None
        /\ change' = [change EXCEPT ![y] = [op |-> o, proc |-> w, key |-> <<p, c>>]]
  BY DEF Add, Remove
<1>4. Taint(p, Procs \ {w}) /\ Remember /\ cache' = cache /\ now' = now
  BY DEF Add, Remove
<1>5. /\ change' \in [Changes -> Change \cup {None}]
      /\ \A q \in Procs, k \in CacheKey : Due(q, k) => Due(q, k)'
      /\ \A q \in Procs \ (Procs \ {w}), k \in CacheKey : k[1] = p => Due(q, k)'
  BY <1>0, <1>3, ChangeMade
<1>6. Procs \ {w} \in SUBSET Procs
  OBVIOUS
<1> QED BY <1>2, <1>4, <1>5, <1>6, TableStep

\* Changes nothing invalidates.
LEMMA SystemStep ==
    ASSUME IInv, NEW p \in Phones,
           (\E r \in RowKey : r[1] = p /\ SystemAdd(r)) \/ SystemClear(p)
    PROVE  IInv'
<1>0. TypeOK
  BY DEF IInv
<1>1. PICK R \in SUBSET RowKey, b \in BOOLEAN :
        (\A r \in R : r[1] = p) /\ SetRows(R, b)
  <2>1. ASSUME NEW r \in RowKey, r[1] = p, SystemAdd(r)
        PROVE  \E R \in SUBSET RowKey, b \in BOOLEAN :
                 (\A s \in R : s[1] = p) /\ SetRows(R, b)
    <3>1. {r} \in SUBSET RowKey /\ \A s \in {r} : s[1] = p
      BY <2>1
    <3> QED BY <2>1, <3>1 DEF SystemAdd
  <2>2. CASE SystemClear(p)
    <3>1. PICK R \in SUBSET ({p} \X RowChannels) : SetRows(R, FALSE)
      BY <2>2 DEF SystemClear
    <3>2. \A r \in R : r \in RowKey /\ r[1] = p
      BY <3>1 DEF RowKey
    <3> QED BY <3>1, <3>2
  <2> QED BY <2>1, <2>2
<1>2. /\ active' \in [RowKey -> BOOLEAN]
      /\ \A k \in CacheKey : k[1] # p => Answer(active', k) = Answer(active, k)
  BY <1>0, <1>1, OtherNumbers
<1>3. Taint(p, Procs) /\ Remember /\ UNCHANGED <<cache, change, now>>
  BY DEF SystemAdd, SystemClear
<1>4. /\ change' \in [Changes -> Change \cup {None}]
      /\ \A q \in Procs, k \in CacheKey : Due(q, k) => Due(q, k)'
  BY <1>0, <1>3 DEF TypeOK, Due
<1>5. Procs \in SUBSET Procs /\ Procs \ Procs = {}
  OBVIOUS
<1> QED BY <1>2, <1>3, <1>4, <1>5, TableStep

\* Time passes.
LEMMA TickStep ==
    ASSUME IInv, Tick
    PROVE  IInv'
<1> USE DEF IInv, TimeInv, CauseInv
<1>1. /\ now' = now + 1 /\ now \in Int /\ UNCHANGED <<active, cache, lookup, change, tainted>>
      /\ active' \in [RowKey -> BOOLEAN]
  BY DEF Tick, TypeOK
<1>2. /\ seen' \in [CacheKey -> [BOOLEAN -> Int]] /\ Fresh'
      /\ \A k \in CacheKey, b \in BOOLEAN : seen[k][b] <= seen'[k][b]
  BY <1>1, RememberFacts DEF Tick
<1>3. TypeOK'
  BY <1>1, <1>2 DEF TypeOK
<1>4. ReadsBound'
  <2> SUFFICES ASSUME NEW x \in Lookups, Phase(x, "store"), NEW k \in lookup[x].keys
               PROVE  /\ lookup[x].readAt <= now'
                      /\ lookup[x].readAt <= seen'[k][lookup[x].answer[k]]
    <3>1. ASSUME NEW x \in Lookups, Phase(x, "store")
          PROVE  lookup[x].readAt <= now' /\ now' <= lookup[x].readAt + MaxLag
      <4>1. lookup[x].readAt \in Int
        BY <3>1, StoringRecord DEF Storing
      <4>2. now < lookup[x].readAt + MaxLag /\ lookup[x].readAt <= now
        BY <3>1 DEF Tick, ReadsBound
      <4> QED BY <1>1, <4>1, <4>2, Numbers
    <3>2. \A x \in Lookups : Phase(x, "store")' <=> Phase(x, "store")
      BY <1>1 DEF Phase
    <3> QED BY <1>1, <3>1, <3>2 DEF ReadsBound
  <2>1. /\ k \in CacheKey /\ lookup[x].answer[k] \in BOOLEAN /\ lookup[x].readAt \in Int
    BY StoringRecord DEF Storing
  <2>2. lookup[x].readAt <= now /\ lookup[x].readAt <= seen[k][lookup[x].answer[k]]
    BY DEF ReadsBound
  <2>3. /\ seen[k][lookup[x].answer[k]] \in Int
        /\ seen'[k][lookup[x].answer[k]] \in Int
        /\ seen[k][lookup[x].answer[k]] <= seen'[k][lookup[x].answer[k]]
    BY <1>2, <2>1 DEF TypeOK
  <2> QED BY <1>1, <2>1, <2>2, <2>3
<1>5. EntriesBound'
  <2> SUFFICES ASSUME NEW q \in Procs, NEW k \in CacheKey, cache[q][k] # NoItem
               PROVE  cache[q][k].expiresAt <= seen'[k][cache[q][k].value] + TTL + MaxLag
    BY <1>1 DEF EntriesBound
  <2>1. cache[q][k].value \in BOOLEAN /\ cache[q][k].expiresAt \in Int
    BY DEF TypeOK, Items
  <2>2. /\ seen[k][cache[q][k].value] \in Int /\ seen'[k][cache[q][k].value] \in Int
        /\ seen[k][cache[q][k].value] <= seen'[k][cache[q][k].value]
    BY <1>2, <2>1 DEF TypeOK
  <2>3. cache[q][k].expiresAt <= seen[k][cache[q][k].value] + TTL + MaxLag
    BY DEF EntriesBound
  <2> QED BY <2>1, <2>2, <2>3, Numbers
<1>6. ReadsMarked' /\ EntriesMarked'
  BY <1>1 DEF ReadsMarked, EntriesMarked, Phase, Due
<1> QED BY <1>2, <1>3, <1>4, <1>5, <1>6

\* A lookup that starts or fails has read nothing.
LEMMA StartStep ==
    ASSUME IInv, NEW x \in Lookups,
           (\E q \in LookupProcs, K \in (SUBSET CacheKey) \ {{}} : StartLookup(x, q, K))
             \/ SelectFails(x)
    PROVE  IInv'
<1> USE DEF IInv, TimeInv, CauseInv
<1>1. PICK r \in Selecting \cup {None} : lookup' = [lookup EXCEPT ![x] = r]
  <2>1. ASSUME NEW q \in LookupProcs, NEW K \in (SUBSET CacheKey) \ {{}}, StartLookup(x, q, K)
        PROVE  \E r \in Selecting \cup {None} : lookup' = [lookup EXCEPT ![x] = r]
    <3>1. [phase |-> "select", proc |-> q, keys |-> K] \in Selecting
      BY LookupParameters DEF Selecting
    <3> QED BY <2>1, <3>1 DEF StartLookup
  <2>2. CASE SelectFails(x)
    BY <2>2 DEF SelectFails
  <2> QED BY <2>1, <2>2
<1>2. UNCHANGED <<active, cache, change, now, seen, tainted>>
  BY DEF StartLookup, SelectFails
<1>3. /\ \A z \in Lookups \ {x} : lookup'[z] = lookup[z]
      /\ lookup'[x] = r /\ lookup' \in [Lookups -> Selecting \cup Storing \cup {None}]
  BY <1>1 DEF TypeOK
<1>4. TypeOK' /\ Fresh' /\ EntriesBound' /\ EntriesMarked'
  BY <1>2, <1>3 DEF TypeOK, Fresh, EntriesBound, EntriesMarked, Due
<1>5. ~ Phase(x, "store")'
  BY <1>3 DEF Phase, Selecting
<1>6. ReadsBound' /\ ReadsMarked'
  BY <1>2, <1>3, <1>5 DEF ReadsBound, ReadsMarked, Phase
<1> QED BY <1>4, <1>6

\* What is read now is the table's answer, seen now.
LEMMA SelectStep ==
    ASSUME IInv, NEW x \in Lookups, Select(x)
    PROVE  IInv'
<1> USE DEF IInv, TimeInv, CauseInv
<1> DEFINE K == lookup[x].keys
           r == [phase |-> "store", proc |-> lookup[x].proc, keys |-> K,
                 answer |-> [k \in CacheKey |-> k \in K /\ Answer(active, k)],
                 readAt |-> now, raced |-> {}]
<1>1. lookup[x].proc \in Procs /\ K \in SUBSET CacheKey
  BY DEF Select, Phase, TypeOK, Selecting, Storing
<1>2. [k \in CacheKey |-> k \in K /\ Answer(active, k)] \in [CacheKey -> BOOLEAN]
  BY DEF Answer
<1>3. r \in Storing
  BY <1>1, <1>2 DEF Storing, TypeOK
<1>4. UNCHANGED <<active, cache, change, now, seen, tainted>>
  BY DEF Select
<1>5. lookup' = [lookup EXCEPT ![x] = r]
  BY DEF Select
<1>6. /\ r.phase = "store" /\ r.readAt = now /\ r.keys = K
      /\ \A k \in K : r.answer[k] = Answer(active, k)
  BY <1>1, AnswerType DEF TypeOK
<1> HIDE DEF r, K
<1>7. /\ \A z \in Lookups \ {x} : lookup'[z] = lookup[z]
      /\ lookup'[x] = r /\ lookup' \in [Lookups -> Selecting \cup Storing \cup {None}]
  BY <1>3, <1>5 DEF TypeOK
<1>8. TypeOK' /\ Fresh' /\ EntriesBound' /\ EntriesMarked'
  BY <1>4, <1>7 DEF TypeOK, Fresh, EntriesBound, EntriesMarked, Due
<1>9. \A k \in K : r.readAt <= seen[k][r.answer[k]]
  BY <1>1, <1>6 DEF Fresh, TypeOK, K
<1>10. now <= now + MaxLag
  BY Numbers DEF TypeOK
<1>11. ReadsBound' /\ ReadsMarked'
  BY <1>4, <1>6, <1>7, <1>9, <1>10 DEF ReadsBound, ReadsMarked, Phase, TypeOK
<1> QED BY <1>8, <1>11

\* A step after which every cache holds no other entry than before.
LEMMA ForgetStep ==
    ASSUME IInv, UNCHANGED <<active, lookup, now, seen>>,
           cache' \in [Procs -> Items(BOOLEAN)],
           \A q \in Procs, k \in CacheKey : cache'[q][k] \in {cache[q][k], NoItem},
           change' \in [Changes -> Change \cup {None}],
           tainted' \subseteq Procs \X CacheKey,
           \A q \in Procs, k \in CacheKey :
              cache'[q][k] # NoItem /\ (<<q, k>> \in tainted \/ Due(q, k))
                => <<q, k>> \in tainted' \/ Due(q, k)'
    PROVE  IInv'
<1> USE DEF IInv, TimeInv, CauseInv
<1>1. TypeOK' /\ Fresh'
  BY DEF TypeOK, Fresh
<1>2. EntriesBound' /\ EntriesMarked'
  BY DEF EntriesBound, EntriesMarked
<1>3. ReadsBound' /\ ReadsMarked'
  BY DEF ReadsBound, ReadsMarked, Phase
<1> QED BY <1>1, <1>2, <1>3

\* The ticker forgets expired entries.
LEMMA EvictStep ==
    ASSUME IInv, NEW q \in Procs, EvictLoop(q)
    PROVE  IInv'
<1>1. TypeOK /\ UNCHANGED <<active, lookup, change, now, seen, tainted>>
  BY DEF IInv, EvictLoop
<1> DEFINE d == Drop(cache[q], Expired(cache[q], now))
<1>2. d \in Items(BOOLEAN) /\ \A k \in CacheKey : d[k] \in {cache[q][k], NoItem}
  <2>1. cache[q] \in Items(BOOLEAN)
    BY <1>1 DEF TypeOK
  <2> QED BY <2>1, DropFacts
<1>3. cache' = [cache EXCEPT ![q] = d]
  BY DEF EvictLoop, EvictExpired
<1> HIDE DEF d
<1>4. /\ cache' \in [Procs -> Items(BOOLEAN)]
      /\ \A z \in Procs, k \in CacheKey : cache'[z][k] \in {cache[z][k], NoItem}
  BY <1>1, <1>2, <1>3 DEF TypeOK
<1>5. /\ change' \in [Changes -> Change \cup {None}] /\ tainted' \subseteq Procs \X CacheKey
      /\ \A z \in Procs, k \in CacheKey : Due(z, k)' <=> Due(z, k)
  BY <1>1 DEF TypeOK, Due
<1> QED BY <1>1, <1>4, <1>5, ForgetStep

\* An invalidation drops every entry its change was the cause for.
LEMMA InvalidateStep ==
    ASSUME IInv, NEW y \in Changes, Invalidate(y)
    PROVE  IInv'
<1> DEFINE w == change[y].proc
           p == change[y].key[1]
           d == Drop(cache[w], KeysOf(p))
<1>1. /\ TypeOK /\ UNCHANGED <<active, lookup, now, seen>>
      /\ change[y] # None /\ change' = [change EXCEPT ![y] = None]
      /\ cache' = [cache EXCEPT ![w] = d] /\ tainted' = tainted \ ({w} \X KeysOf(p))
  BY DEF IInv, Invalidate, InvalidatedKeys
<1>2. w \in Procs
  BY <1>1 DEF TypeOK, Change
<1>3. d \in Items(BOOLEAN)
      /\ \A k \in CacheKey : d[k] = IF k[1] = p THEN NoItem ELSE cache[w][k]
  <2>1. cache[w] \in Items(BOOLEAN)
    BY <1>1, <1>2 DEF TypeOK
  <2> QED BY <2>1, DropFacts DEF KeysOf
<1> HIDE DEF d
<1>4. /\ cache' \in [Procs -> Items(BOOLEAN)]
      /\ \A q \in Procs, k \in CacheKey :
            cache'[q][k] = IF q = w /\ k[1] = p THEN NoItem ELSE cache[q][k]
  BY <1>1, <1>2, <1>3 DEF TypeOK
<1>5. /\ change' \in [Changes -> Change \cup {None}]
      /\ change'[y] = None /\ \A z \in Changes \ {y} : change'[z] = change[z]
  BY <1>1 DEF TypeOK
<1>6. \A q \in Procs, k \in CacheKey : ~ (q = w /\ k[1] = p) =>
        /\ Due(q, k) => Due(q, k)'
        /\ <<q, k>> \in tainted => <<q, k>> \in tainted'
  BY <1>1, <1>5 DEF Due, KeysOf
<1>7. tainted' \subseteq Procs \X CacheKey
  BY <1>1 DEF TypeOK
<1>8. \A q \in Procs, k \in CacheKey :
         cache'[q][k] # NoItem /\ (<<q, k>> \in tainted \/ Due(q, k))
           => <<q, k>> \in tainted' \/ Due(q, k)'
  BY <1>4, <1>6
<1>9. \A q \in Procs, k \in CacheKey : cache'[q][k] \in {cache[q][k], NoItem}
  BY <1>4
<1> HIDE DEF w, p
<1> QED BY <1>1, <1>4, <1>5, <1>7, <1>8, <1>9, ForgetStep

\* An operation that fails half way marks what it will not invalidate.
LEMMA HalfWayStep ==
    ASSUME IInv, NEW y \in Changes, change[y] # None, EndsHalfWay(y)
    PROVE  IInv'
<1> USE DEF IInv, TimeInv, CauseInv
<1> DEFINE w == change[y].proc
           p == change[y].key[1]
<1>1. /\ UNCHANGED <<active, cache, now, seen>> /\ change[y] # None
      /\ change' = [change EXCEPT ![y] = None] /\ Taint(p, {w})
  BY DEF EndsHalfWay
<1>2. w \in Procs /\ p \in Phones
  BY <1>1 DEF TypeOK, Change, RowKey
<1> HIDE DEF w, p
<1>3. /\ lookup' \in [Lookups -> Selecting \cup Storing \cup {None}]
      /\ tainted' \subseteq Procs \X CacheKey
      /\ \A q \in Procs, k \in CacheKey :
           <<q, k>> \in tainted' <=> <<q, k>> \in tainted \/ (q = w /\ k[1] = p)
      /\ \A x \in Lookups : Phase(x, "store")' <=> Phase(x, "store")
      /\ \A x \in Lookups : Phase(x, "store") =>
           /\ lookup'[x].keys = lookup[x].keys
           /\ lookup'[x].answer = lookup[x].answer
           /\ lookup'[x].readAt = lookup[x].readAt
           /\ lookup'[x].raced = lookup[x].raced \cup {p}
  <2>1. {w} \in SUBSET Procs
    BY <1>2
  <2> QED BY <1>1, <1>2, <2>1, TaintFacts
<1>4. /\ change' \in [Changes -> Change \cup {None}]
      /\ \A z \in Changes \ {y} : change'[z] = change[z]
  BY <1>1 DEF TypeOK
<1>5. TypeOK' /\ Fresh'
  BY <1>1, <1>3, <1>4 DEF TypeOK, Fresh
<1>6. ReadsBound' /\ ReadsMarked'
  BY <1>1, <1>3 DEF ReadsBound, ReadsMarked
<1>7. \A q \in Procs, k \in CacheKey : Due(q, k) => Due(q, k)' \/ (q = w /\ k[1] = p)
  BY <1>4 DEF Due, w, p
<1>8. EntriesBound' /\ EntriesMarked'
  BY <1>1, <1>3, <1>7 DEF EntriesBound, EntriesMarked
<1> QED BY <1>5, <1>6, <1>8

\* An entry is stored at most MaxLag after its read, and unmarked only if the number
\* did not change since.
LEMMA StoreStep ==
    ASSUME IInv, NEW x \in Lookups, NEW k \in CacheKey, Store(x, k)
    PROVE  IInv'
<1> USE DEF IInv, TimeInv, CauseInv
<1> DEFINE l == lookup[x]
           q == l.proc
           v == l.answer[k]
           e == [value |-> v, expiresAt |-> now + TTL]
<1>1. l \in Storing /\ k \in l.keys
  BY StoringRecord DEF Store
<1>2. /\ q \in Procs /\ v \in BOOLEAN /\ l.readAt \in Int /\ now \in Int
      /\ cache[q] \in Items(BOOLEAN)
  BY <1>1 DEF Storing, TypeOK
<1>3. UNCHANGED <<active, change, now, seen>>
  BY DEF Store
<1>4. PICK c \in SetResults(cache[q], k, v, now) : cache' = [cache EXCEPT ![q] = c]
  BY DEF Store
<1>5. /\ c \in Items(BOOLEAN) /\ c[k] = e
      /\ \A j \in CacheKey \ {k} : c[j] \in {cache[q][j], NoItem}
  BY <1>2, <1>4, SetFacts
<1>6. /\ cache' \in [Procs -> Items(BOOLEAN)]
      /\ cache'[q][k] = e
      /\ \A z \in Procs, j \in CacheKey :
            z # q \/ j # k => cache'[z][j] \in {cache[z][j], NoItem}
  BY <1>2, <1>4, <1>5 DEF TypeOK
<1>7. /\ tainted' = IF k[1] \in l.raced THEN tainted \cup {<<q, k>>} ELSE tainted \ {<<q, k>>}
      /\ tainted' \subseteq Procs \X CacheKey
  BY <1>2 DEF Store, TypeOK
<1>8. /\ lookup' \in [Lookups -> Selecting \cup Storing \cup {None}]
      /\ \A z \in Lookups \ {x} : lookup'[z] = lookup[z]
      /\ Phase(x, "store")' =>
            /\ lookup'[x].keys \subseteq l.keys /\ lookup'[x].answer = l.answer
            /\ lookup'[x].readAt = l.readAt /\ lookup'[x].raced = l.raced
  <2> DEFINE r == IF l.keys = {k} THEN None ELSE [l EXCEPT !.keys = l.keys \ {k}]
  <2>1. lookup' = [lookup EXCEPT ![x] = r]
    BY DEF Store
  <2>2. /\ r \in Storing \cup {None}
        /\ r # None => /\ r.keys \subseteq l.keys /\ r.answer = l.answer
                       /\ r.readAt = l.readAt /\ r.raced = l.raced
    BY <1>1 DEF Storing
  <2> HIDE DEF r, l
  <2> QED BY <2>1, <2>2 DEF TypeOK, Phase
<1>9. /\ l.readAt <= now /\ now <= l.readAt + MaxLag /\ l.readAt <= seen[k][v]
      /\ v = Answer(active, k) \/ k[1] \in l.raced
  <2>1. Phase(x, "store")
    BY DEF Store
  <2> QED BY <1>1, <2>1 DEF ReadsBound, ReadsMarked
<1>10. e.value = v /\ e.expiresAt = now + TTL
  OBVIOUS
<1>11. e.expiresAt <= seen[k][v] + TTL + MaxLag
  <2>1. seen[k][v] \in Int
    BY <1>2 DEF TypeOK
  <2> QED BY <1>2, <1>9, <1>10, <2>1, Numbers
<1>12. \A z \in Lookups \ {x} : Phase(z, "store")' <=> Phase(z, "store")
  BY <1>8 DEF Phase
<1> HIDE DEF e, v, q, l
<1>13. TypeOK' /\ Fresh'
  BY <1>3, <1>6, <1>7, <1>8 DEF TypeOK, Fresh
<1>14. ReadsBound' /\ ReadsMarked'
  <2>1. Phase(x, "store")
    BY DEF Store
  <2> QED BY <1>3, <1>8, <1>12, <2>1 DEF ReadsBound, ReadsMarked, l
<1>15. EntriesBound'
  BY <1>3, <1>6, <1>10, <1>11 DEF EntriesBound
<1>16. EntriesMarked'
  <2>1. ASSUME NEW z \in Procs, NEW j \in CacheKey, z # q \/ j # k, cache'[z][j] # NoItem
        PROVE  \/ cache'[z][j].value = Answer(active, j)
               \/ <<z, j>> \in tainted'
               \/ Due(z, j)
    <3>1. <<z, j>> # <<q, k>>
      BY <2>1
    <3>2. <<z, j>> \in tainted => <<z, j>> \in tainted'
      BY <1>7, <3>1
    <3>3. cache'[z][j] = cache[z][j] /\ cache[z][j] # NoItem
      BY <1>6, <2>1
    <3> QED BY <3>2, <3>3 DEF EntriesMarked
  <2>2. cache'[q][k].value = Answer(active, k) \/ <<q, k>> \in tainted'
    BY <1>6, <1>7, <1>9, <1>10
  <2>3. \A z \in Procs, j \in CacheKey : Due(z, j)' <=> Due(z, j)
    BY <1>3 DEF Due
  <2> QED BY <1>3, <2>1, <2>2, <2>3 DEF EntriesMarked
<1> QED BY <1>13, <1>14, <1>15, <1>16

-----------------------------------------------------------------------------

\* The invariant holds in every reachable state.
THEOREM Invariance == Spec => []IInv
<1>1. IInv /\ UNCHANGED vars => IInv'
  BY DEF IInv, TimeInv, CauseInv, vars, TypeOK, Fresh, ReadsBound, EntriesBound,
         ReadsMarked, EntriesMarked, Phase, Due
<1>2. ASSUME IInv, NEW r \in RowKey, SystemAdd(r)
      PROVE  IInv'
  <2>1. r[1] \in Phones
    BY DEF RowKey
  <2> QED BY <1>2, <2>1, SystemStep
<1>3. ASSUME IInv, NEW y \in Changes, AddFails(y) \/ RemoveFails(y)
      PROVE  IInv'
  BY <1>3, HalfWayStep DEF AddFails, RemoveFails
<1>4. IInv /\ Next => IInv'
  BY <1>2, <1>3, StartStep, SelectStep, StoreStep, EvictStep, ChangeStep, InvalidateStep,
     SystemStep, TickStep DEF Next
<1>5. IInv /\ [Next]_vars => IInv'
  BY <1>1, <1>4
<1> QED BY InitInv, <1>5, PTL DEF Spec

\* Every variable keeps its type.
THEOREM TypeCorrect == Spec => []TypeOK
<1>1. IInv => TypeOK
  BY DEF IInv
<1> QED BY Invariance, <1>1, PTL

\* No cached answer is older than the entry's life and one lookup's lag.
THEOREM StalenessIsBounded == Spec => []BoundedStaleness
<1>1. IInv => BoundedStaleness
  <2> SUFFICES ASSUME IInv, NEW q \in Procs, NEW k \in CacheKey, Servable(cache[q], k, now)
               PROVE  now - seen[k][cache[q][k].value] <= TTL + MaxLag
    BY DEF BoundedStaleness
  <2>1. cache[q][k] # NoItem /\ now <= cache[q][k].expiresAt
    BY DEF Servable
  <2>2. /\ cache[q][k].value \in BOOLEAN /\ cache[q][k].expiresAt \in Int /\ now \in Int
        /\ seen \in [CacheKey -> [BOOLEAN -> Int]]
    BY <2>1 DEF IInv, TypeOK, Items
  <2>3. seen[k][cache[q][k].value] \in Int
    BY <2>2
  <2>4. cache[q][k].expiresAt <= seen[k][cache[q][k].value] + TTL + MaxLag
    BY <2>1 DEF IInv, TimeInv, EntriesBound
  <2> QED BY <2>1, <2>2, <2>3, <2>4, Numbers
<1> QED BY Invariance, <1>1, PTL

\* Every stale answer has a cause.
THEOREM StaleAnswersExplained == Spec => []StaleHasACause
<1>1. IInv => StaleHasACause
  BY DEF IInv, CauseInv, EntriesMarked, Due, StaleHasACause, Servable
<1> QED BY Invariance, <1>1, PTL
=============================================================================
