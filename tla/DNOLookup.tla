----------------------------- MODULE DNOLookup -----------------------------
(***************************************************************************)
(* QueryNumber over its cache, against the operations that change the      *)
(* list.  The services are separate processes: a lookup fills the cache of *)
(* the process it runs in (the query service), AddNumber and RemoveNumber  *)
(* drop the number from the cache of the process they run in (the portal   *)
(* or the worker), and ITG ingest, NPAC events and the TSS sync drop       *)
(* nothing.  A lookup reads the table first and stores what it read later, *)
(* and a change updates the table first and invalidates later.             *)
(*                                                                         *)
(* A row is reduced to whether it is active; DNORegistry has the rest.     *)
(* Two history variables: "seen" is when the table last gave each answer,  *)
(* "tainted" is which cache entries no invalidation will reach any more.   *)
(***************************************************************************)
EXTENDS TTLCache

CONSTANTS Phones,
          RowChannels,   \* channels of rows in an instance
          Procs,         \* service processes, each with its own dnoCache
          LookupProcs,   \* processes that serve lookups
          ChangeProcs,   \* processes that serve AddNumber and RemoveNumber
          Lookups,       \* lookups served at the same time
          Changes,       \* additions and removals served at the same time
          SystemChanges, \* whether ITG, NPAC and TSS changes happen too
          None,          \* an idle slot
          MaxLag,        \* bound of the time between a lookup's read and its Set
          MaxTime        \* bound of the clock in an instance

RowKey == Phones \X RowChannels
Start  == TTL + MaxLag + 1

ASSUME LookupParameters ==
    /\ CacheKey \subseteq RowKey
    /\ "both" \in RowChannels
    /\ LookupProcs \subseteq Procs
    /\ ChangeProcs \subseteq Procs
    /\ SystemChanges \in BOOLEAN
    /\ MaxLag \in Nat
    /\ MaxTime \in Nat

VARIABLES active,  \* dno_numbers: which rows are active
          cache,   \* dnoCache of each process
          lookup,  \* lookups that missed in their cache
          change,  \* changes that have updated the table and not invalidated yet
          now,
          seen, tainted

vars == <<active, cache, lookup, change, now, seen, tainted>>

\* A lookup that will read the table, and one that has read it.  QueryNumber has
\* one key; BulkQuery reads all its uncached keys in one statement.
Selecting == [phase : {"select"}, proc : Procs, keys : SUBSET CacheKey]
Storing   == [phase : {"store"}, proc : Procs, keys : SUBSET CacheKey,
              answer : [CacheKey -> BOOLEAN], readAt : Int, raced : SUBSET Phones]
Change    == [op : {"add", "remove"}, proc : Procs, key : RowKey]

ASSUME NothingIsNotSomething ==
    /\ NoItem \notin [value : BOOLEAN, expiresAt : Int]
    /\ None \notin Selecting \cup Storing \cup Change

TypeOK ==
    /\ active \in [RowKey -> BOOLEAN]
    /\ cache \in [Procs -> Items(BOOLEAN)]
    /\ lookup \in [Lookups -> Selecting \cup Storing \cup {None}]
    /\ change \in [Changes -> Change \cup {None}]
    /\ now \in Int
    /\ seen \in [CacheKey -> [BOOLEAN -> Int]]
    /\ tainted \subseteq Procs \X CacheKey

Covering(p, c) == {<<p, c>>, <<p, "both">>}

\* SELECT ... WHERE (channel = c OR channel = 'both') AND status = 'active'.
Answer(a, k) == \E r \in Covering(k[1], k[2]) : a[r]

KeysOf(p) == {k \in CacheKey : k[1] = p}

SetRows(R, b) == active' = [r \in RowKey |-> IF r \in R THEN b ELSE active[r]]

\* History: every answer the table gives after this step is seen now.
Remember ==
    seen' = [k \in CacheKey |-> [b \in BOOLEAN |->
                IF b = Answer(active', k) THEN now' ELSE seen[k][b]]]

Init ==
    /\ active = [r \in RowKey |-> FALSE]
    /\ cache = [q \in Procs |-> EmptyCache]
    /\ lookup = [x \in Lookups |-> None]
    /\ change = [y \in Changes |-> None]
    /\ now = Start
    /\ seen = [k \in CacheKey |-> [b \in BOOLEAN |-> IF b THEN 0 ELSE Start]]
    /\ tainted = {}

-----------------------------------------------------------------------------
(* Lookups.  A cached answer is returned without a step of this model.     *)

Phase(x, s) == lookup[x] # None /\ lookup[x].phase = s

\* Get missed for every key of K.
StartLookup(x, q, K) ==
    /\ lookup[x] = None
    /\ \A k \in K : ~ Servable(cache[q], k, now)
    /\ lookup' = [lookup EXCEPT ![x] = [phase |-> "select", proc |-> q, keys |-> K]]
    /\ UNCHANGED <<active, cache, change, now, seen, tainted>>

Select(x) ==
    /\ Phase(x, "select")
    /\ lookup' = [lookup EXCEPT ![x] =
          [phase |-> "store", proc |-> @.proc, keys |-> @.keys,
           answer |-> [k \in CacheKey |-> k \in @.keys /\ Answer(active, k)],
           readAt |-> now, raced |-> {}]]
    /\ UNCHANGED <<active, cache, change, now, seen, tainted>>

\* The statement failed: the error goes to the caller and nothing is cached.
SelectFails(x) ==
    /\ Phase(x, "select")
    /\ lookup' = [lookup EXCEPT ![x] = None]
    /\ UNCHANGED <<active, cache, change, now, seen, tainted>>

\* Set of one key; the expiry counts from here, not from the read.
Store(x, k) ==
    /\ Phase(x, "store")
    /\ k \in lookup[x].keys
    /\ LET q == lookup[x].proc IN
       /\ \E c \in SetResults(cache[q], k, lookup[x].answer[k], now) :
             cache' = [cache EXCEPT ![q] = c]
       /\ tainted' = IF k[1] \in lookup[x].raced
                     THEN tainted \cup {<<q, k>>} ELSE tainted \ {<<q, k>>}
    /\ lookup' = [lookup EXCEPT ![x] =
          IF @.keys = {k} THEN None
          ELSE [@ EXCEPT !.keys = lookup[x].keys \ {k}]]
    /\ UNCHANGED <<active, change, now, seen>>

EvictLoop(q) ==
    /\ cache' = [cache EXCEPT ![q] = EvictExpired(@, now)]
    /\ UNCHANGED <<active, lookup, change, now, seen, tainted>>

-----------------------------------------------------------------------------
(* Changes of the list.                                                    *)

\* Lookups that have read rows of p, and entries for p in the caches of Q, are
\* not seen by an invalidation that is yet to come.
Taint(p, Q) ==
    /\ lookup' = [x \in Lookups |->
          IF Phase(x, "store") THEN [lookup[x] EXCEPT !.raced = @ \cup {p}]
          ELSE lookup[x]]
    /\ tainted' = tainted \cup (Q \X KeysOf(p))

\* AddNumber's upsert.
Add(y, w, p, c) ==
    /\ change[y] = None
    /\ SetRows({<<p, c>>}, TRUE)
    /\ change' = [change EXCEPT ![y] = [op |-> "add", proc |-> w, key |-> <<p, c>>]]
    /\ Taint(p, Procs \ {w})
    /\ UNCHANGED <<cache, now>>
    /\ Remember

\* RemoveNumber's update: the caller's own among the covering rows.
Remove(y, w, p, c) ==
    /\ change[y] = None
    /\ \E R \in (SUBSET Covering(p, c)) \ {{}} : SetRows(R, FALSE)
    /\ change' = [change EXCEPT ![y] = [op |-> "remove", proc |-> w, key |-> <<p, c>>]]
    /\ Taint(p, Procs \ {w})
    /\ UNCHANGED <<cache, now>>
    /\ Remember

\* Mutant of InvalidatedKeys: only the key of the changed row is dropped.
InvalidatedKeys_Exact(p, c) == KeysOf(p) \cap {<<p, c>>}

\* A row of channel both answers lookups of every channel.
InvalidatedKeys(p, c) == KeysOf(p)

\* dnoCache.DeletePrefix(phone + ":"): every channel of the number, this process.
Invalidate(y) ==
    /\ change[y] # None
    /\ LET w == change[y].proc
           K == InvalidatedKeys(change[y].key[1], change[y].key[2])
       IN /\ cache' = [cache EXCEPT ![w] = Drop(@, K)]
          /\ tainted' = tainted \ ({w} \X K)
    /\ change' = [change EXCEPT ![y] = None]
    /\ UNCHANGED <<active, lookup, now, seen>>

\* The table has changed, and the operation returns before its invalidation.
EndsHalfWay(y) ==
    /\ Taint(change[y].key[1], {change[y].proc})
    /\ change' = [change EXCEPT ![y] = None]
    /\ UNCHANGED <<active, cache, now, seen>>

\* AddNumber's second statement, which reads the id of the row, failed.
AddFails(y) == change[y] # None /\ change[y].op = "add" /\ EndsHalfWay(y)

\* The driver could not say how many rows RemoveNumber's update took.
RemoveFails(y) == change[y] # None /\ change[y].op = "remove" /\ EndsHalfWay(y)

\* ITG ingest, a disconnecting NPAC event, the TSS sync: no invalidation.
SystemAdd(r) ==
    /\ SystemChanges
    /\ SetRows({r}, TRUE)
    /\ Taint(r[1], Procs)
    /\ UNCHANGED <<cache, change, now>>
    /\ Remember

\* A porting NPAC event clears the auto rows of a number: no invalidation.
SystemClear(p) ==
    /\ SystemChanges
    /\ \E R \in SUBSET ({p} \X RowChannels) : SetRows(R, FALSE)
    /\ Taint(p, Procs)
    /\ UNCHANGED <<cache, change, now>>
    /\ Remember

\* Time passes, but no lookup stays more than MaxLag between its read and its
\* last Set: all it does there is to append to the query log's buffer.
Tick ==
    /\ now < MaxTime
    /\ \A x \in Lookups : Phase(x, "store") => now < lookup[x].readAt + MaxLag
    /\ now' = now + 1
    /\ UNCHANGED <<active, cache, lookup, change, tainted>>
    /\ Remember

Next ==
    \/ \E x \in Lookups, q \in LookupProcs, K \in (SUBSET CacheKey) \ {{}} :
          StartLookup(x, q, K)
    \/ \E x \in Lookups : Select(x) \/ SelectFails(x)
    \/ \E x \in Lookups, k \in CacheKey : Store(x, k)
    \/ \E q \in Procs : EvictLoop(q)
    \/ \E y \in Changes, w \in ChangeProcs, p \in Phones, c \in RowChannels :
          Add(y, w, p, c) \/ Remove(y, w, p, c)
    \/ \E y \in Changes : Invalidate(y) \/ AddFails(y) \/ RemoveFails(y)
    \/ \E r \in RowKey : SystemAdd(r)
    \/ \E p \in Phones : SystemClear(p)
    \/ Tick

Spec == Init /\ [][Next]_vars

-----------------------------------------------------------------------------
(* Properties.                                                             *)

\* Whatever changes the list, in whatever process, and however reads, fills and
\* invalidations interleave: an answer a cache gives now is one the table gave at
\* most the entry's life and one lookup's lag ago.
BoundedStaleness ==
    \A q \in Procs, k \in CacheKey :
        Servable(cache[q], k, now)
            => now - seen[k][cache[q][k].value] <= TTL + MaxLag

\* A cached answer differs from the table only for a reason: a change of that
\* number is between its update and its invalidation in this process, or the
\* entry is tainted (another process or a system operation made the change, the
\* lookup read before the change and stored after the invalidation, or AddNumber or
\* RemoveNumber failed half way).  So the invalidation reaches every channel of the number.
StaleHasACause ==
    \A q \in Procs, k \in CacheKey :
        /\ Servable(cache[q], k, now)
        /\ cache[q][k].value # Answer(active, k)
        => \/ <<q, k>> \in tainted
           \/ \E y \in Changes : /\ change[y] # None
                                 /\ change[y].proc = q
                                 /\ change[y].key[1] = k[1]

\* README: "DNO lookups cached with TTL, invalidated on add/remove".  When no
\* addition or removal is under way, what a cache answers is what the table says.
\* Not so across processes, hence in no run: the project's README, section 3.
InvalidatedOnChange ==
    (\A y \in Changes : change[y] = None) =>
        \A q \in Procs, k \in CacheKey :
            Servable(cache[q], k, now) => cache[q][k].value = Answer(active, k)
=============================================================================
