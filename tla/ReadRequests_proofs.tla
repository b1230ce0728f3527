------------------------- MODULE ReadRequests_proofs -------------------------
(***************************************************************************)
(* Proofs about ReadRequests, for any numbers, lists, page sizes and       *)
(* changes by others: a bulk answer has what each entry would get alone, a *)
(* walk through the pages sees what is left alone, a summary that is not   *)
(* the list's has a cause, reports add up and "compliant" is earned.       *)
(***************************************************************************)
EXTENDS ReadRequests, FiniteSetTheorems, SequenceTheorems, WellFoundedInduction, TLAPS

-----------------------------------------------------------------------------
(* Pages.                                                                  *)

\* The rows that come before k.
Above(stamp, k) == {x \in DOMAIN stamp : stamp[x] > stamp[k]}

\* No other row has the time stamp of k.
Alone(stamp, k) ==
    k \in DOMAIN stamp /\ \A x \in DOMAIN stamp \ {k} : stamp[x] # stamp[k]

\* The smaller of two numbers.
LEMMA MinOfTwo ==
    ASSUME NEW a \in Int, NEW b \in Int
    PROVE  Min({a, b}) = IF a <= b THEN a ELSE b
<1>1. \E x \in {a, b} : \A y \in {a, b} : x <= y
  OBVIOUS
<1>2. Min({a, b}) \in {a, b} /\ \A y \in {a, b} : Min({a, b}) <= y
  BY <1>1 DEF Min
<1> QED BY <1>2

\* A row with a stamp of its own is among the first n just if fewer than n come
\* before it.
LEMMA AmongTheFirst ==
    ASSUME NEW stamp, IsFiniteSet(DOMAIN stamp), \A x \in DOMAIN stamp : stamp[x] \in Int,
           NEW k, Alone(stamp, k), NEW n \in Nat, NEW S \in Newest(stamp, n)
    PROVE  k \in S <=> Cardinality(Above(stamp, k)) < n
<1> DEFINE A == Above(stamp, k)
<1>0. /\ S \subseteq DOMAIN stamp /\ Cardinality(S) = n
      /\ \A x \in S, y \in DOMAIN stamp \ S : stamp[x] >= stamp[y]
  BY DEF Newest
<1>1. /\ IsFiniteSet(S) /\ IsFiniteSet(A)
      /\ Cardinality(A) \in Nat
  BY <1>0, FS_Subset, FS_CardinalityType DEF Above
<1>2. CASE k \in S
  <2>1. A \subseteq S /\ k \notin A /\ k \in DOMAIN stamp
    BY <1>0, <1>2 DEF Above, Alone
  <2>2. A \cup {k} \in SUBSET S
    BY <1>2, <2>1
  <2>3. Cardinality(A \cup {k}) = Cardinality(A) + 1
    BY <1>1, <2>1, FS_AddElement
  <2>4. Cardinality(A \cup {k}) <= n
    BY <1>0, <1>1, <2>2, FS_Subset
  <2> QED BY <1>1, <1>2, <2>3, <2>4
<1>3. CASE k \notin S
  <2>1. S \in SUBSET A
    BY <1>0, <1>3 DEF Above, Alone
  <2>2. n <= Cardinality(A)
    BY <1>0, <1>1, <2>1, FS_Subset
  <2> QED BY <1>1, <1>3, <2>2
<1> QED BY <1>2, <1>3

\* What a slice is made of.
LEMMA SliceParts ==
    ASSUME NEW stamp, NEW from, NEW to, NEW rows \in Slice(stamp, from, to)
    PROVE  \E S \in Newest(stamp, to), skipped \in Newest(stamp, from) : rows = S \ skipped
<1> DEFINE F == Newest(stamp, to)
           G == Newest(stamp, from)
<1>1. rows \in {S \ skipped : S \in F, skipped \in G}
  BY DEF Slice
<1> HIDE DEF F, G
<1>2. \E S \in F, skipped \in G : rows = S \ skipped
  BY <1>1
<1> QED BY <1>2 DEF F, G

\* Fewer rows than there are come before k.
LEMMA FewerAbove ==
    ASSUME NEW stamp, IsFiniteSet(DOMAIN stamp), \A x \in DOMAIN stamp : stamp[x] \in Int,
           NEW k, Alone(stamp, k)
    PROVE  /\ Cardinality(DOMAIN stamp) \in Nat /\ Cardinality(Above(stamp, k)) \in Nat
           /\ Cardinality(Above(stamp, k)) < Cardinality(DOMAIN stamp)
<1> DEFINE n == Cardinality(DOMAIN stamp)
           a == Cardinality(Above(stamp, k))
<1>1. Above(stamp, k) \in SUBSET (DOMAIN stamp \ {k})
  BY DEF Above, Alone
<1>2. IsFiniteSet(DOMAIN stamp \ {k}) /\ Cardinality(DOMAIN stamp \ {k}) = n - 1
  BY FS_RemoveElement DEF Alone
<1>3. IsFiniteSet(Above(stamp, k)) /\ a <= n - 1
  BY <1>1, <1>2, FS_Subset
<1>4. n \in Nat /\ a \in Nat
  BY <1>3, FS_CardinalityType
<1> QED BY <1>3, <1>4

\* A page that starts at k's place or before it has k, or k comes on a later one.
LEMMA OnThePage ==
    ASSUME NEW stamp, IsFiniteSet(DOMAIN stamp), \A x \in DOMAIN stamp : stamp[x] \in Int,
           NEW k, Alone(stamp, k), NEW page \in Nat \ {0}, NEW size \in Nat \ {0},
           NEW rows \in Pages(stamp, page, size), k \notin rows,
           Cardinality(Above(stamp, k)) >= (page - 1) * size
    PROVE  Cardinality(Above(stamp, k)) >= page * size
<1> DEFINE n == Cardinality(DOMAIN stamp)
           a == Cardinality(Above(stamp, k))
           o == (page - 1) * size
<1>1. n \in Nat /\ a \in Nat /\ a < n
  BY FewerAbove
<1>2. o \in Nat /\ page * size = o + size
  <2>1. page - 1 \in Nat /\ size \in Nat
    OBVIOUS
  <2>2. o \in Nat
    <3>1. \A u, v \in Nat : u * v \in Nat
      OBVIOUS
    <3> QED BY <2>1, <3>1
  <2>3. page * size = (page - 1) * size + size
    OBVIOUS
  <2> QED BY <2>2, <2>3
<1>3. Min({n, o}) = o
  BY <1>1, <1>2, MinOfTwo
<1>4. PICK S \in Newest(stamp, Min({n, o + size})), skipped \in Newest(stamp, o) :
         rows = S \ skipped
  <2>1. rows \in Slice(stamp, Min({n, o}), Min({n, Min({n, o}) + size}))
    BY DEF Pages
  <2> HIDE DEF o, n
  <2>2. rows \in Slice(stamp, o, Min({n, o + size}))
    BY <1>3, <2>1
  <2> QED BY <2>2, SliceParts
<1> HIDE DEF o
<1>5. k \notin skipped
  BY <1>1, <1>2, <1>4, AmongTheFirst DEF o
<1>6. k \notin S
  BY <1>4, <1>5
<1>7. Min({n, o + size}) = IF n <= o + size THEN n ELSE o + size
  BY <1>1, <1>2, MinOfTwo
<1>8. ~ (a < Min({n, o + size}))
  <2>1. Min({n, o + size}) \in Nat
    BY <1>1, <1>2, <1>7
  <2> QED BY <1>4, <1>6, <2>1, AmongTheFirst
<1> QED BY <1>1, <1>2, <1>7, <1>8

\* The pages the client is told of hold all rows.
LEMMA PagesHoldAll ==
    ASSUME NEW total \in Nat, NEW size \in Nat \ {0}, NEW page \in Nat,
           ~ (page < TotalPages(total, size))
    PROVE  page * size >= total
<1> DEFINE b == total + size - 1
           q == b \div size
           m == b % size
<1>1. b \in Nat
  OBVIOUS
<1>2. q \in Int /\ m \in 0..(size - 1) /\ b = size * q + m
  BY <1>1
<1>3. page >= q
  BY <1>2 DEF TotalPages
<1> HIDE DEF q, m
<1>4. size * q >= total
  BY <1>2
<1>5. page * size >= size * q
  <2>1. (page - q) * size >= 0
    BY <1>2, <1>3
  <2>2. (page - q) * size = page * size - size * q
    BY <1>2
  <2> QED BY <1>2, <2>1, <2>2
<1> QED BY <1>2, <1>4, <1>5

-----------------------------------------------------------------------------
(* The database and its replica.                                           *)

Typed ==
    /\ topic \in Topic
    /\ db \in Databases /\ replica \in Databases
    /\ now \in 1..MaxChanges + 1
    /\ pending \in [{"add", "remove"} -> 0..MaxChanges]
    /\ changes \in 0..MaxChanges

\* What e keeps of an earlier d: the trail is appended to, the log grows, and a row
\* that is touched gets a stamp that is no older.
Grown(d, e) ==
    /\ d.queries <= e.queries
    /\ Len(d.audit) <= Len(e.audit)
    /\ \A i \in 1..Len(d.audit) : e.audit[i] = d.audit[i]
    /\ \A k \in Key : d.at[k] <= e.at[k]

\* No row is stamped later than now, each change leaves at most one entry in the
\* trail, which began with one, and the replica is behind.
DatabaseInv ==
    /\ db.hits <= db.queries /\ replica.hits <= replica.queries
    /\ now <= changes + 1
    /\ Len(db.audit) > 0 /\ Len(db.audit) + pending.add + pending.remove <= changes + 1
    /\ \A k \in Key : db.at[k] <= now
    /\ Grown(replica, db)

\* The trails in Databases are the short sequences.
LEMMA TrailsAreSequences ==
    ASSUME NEW s
    PROVE  s \in UNION {[1..n -> 0..MaxChanges + 1] : n \in 0..MaxChanges + 1}
             <=> s \in Seq(0..MaxChanges + 1) /\ Len(s) <= MaxChanges + 1
<1>0. MaxChanges \in Nat
  BY InstanceParameters
<1>1. ASSUME NEW n \in 0..MaxChanges + 1, s \in [1..n -> 0..MaxChanges + 1]
      PROVE  s \in Seq(0..MaxChanges + 1) /\ Len(s) <= MaxChanges + 1
  BY <1>0, <1>1
<1>2. ASSUME s \in Seq(0..MaxChanges + 1), Len(s) <= MaxChanges + 1
      PROVE  \E n \in 0..MaxChanges + 1 : s \in [1..n -> 0..MaxChanges + 1]
  BY <1>0, <1>2
<1> QED BY <1>1, <1>2

\* The fields of a database.
LEMMA DatabaseFields ==
    ASSUME NEW d \in Databases
    PROVE  /\ d.dno \in DNOTable /\ d.at \in [Key -> 0..MaxChanges + 1]
           /\ d.audit \in Seq(0..MaxChanges + 1) /\ Len(d.audit) \in 0..MaxChanges + 1
           /\ d.queries \in 0..MaxLogged /\ d.hits \in 0..MaxLogged
           /\ d.queries \in Nat /\ d.hits \in Nat
<1>1. /\ d.dno \in DNOTable /\ d.at \in [Key -> 0..MaxChanges + 1]
      /\ d.audit \in UNION {[1..n -> 0..MaxChanges + 1] : n \in 0..MaxChanges + 1}
      /\ d.queries \in 0..MaxLogged /\ d.hits \in 0..MaxLogged
  BY DEF Databases
<1>2. d.audit \in Seq(0..MaxChanges + 1) /\ Len(d.audit) <= MaxChanges + 1
  BY <1>1, TrailsAreSequences
<1>3. Len(d.audit) \in 0..MaxChanges + 1
  BY <1>2, InstanceParameters
<1>4. d.queries \in Nat /\ d.hits \in Nat
  BY <1>1, InstanceParameters
<1> QED BY <1>1, <1>2, <1>3, <1>4

\* Nothing is lost where nothing happens.
LEMMA GrownReflexive ==
    ASSUME NEW d \in Databases
    PROVE  Grown(d, d)
<1>1. d.queries \in Nat /\ Len(d.audit) \in Nat /\ d.at \in [Key -> Int]
  <2>1. d.at \in [Key -> 0..MaxChanges + 1] /\ Len(d.audit) \in 0..MaxChanges + 1
        /\ d.queries \in Nat
    BY DatabaseFields
  <2> QED BY <2>1
<1> QED BY <1>1 DEF Grown

\* Growing twice is growing.
LEMMA GrownTransitive ==
    ASSUME NEW c \in Databases, NEW d \in Databases, NEW e \in Databases,
           Grown(c, d), Grown(d, e)
    PROVE  Grown(c, e)
<1>1. /\ c.queries \in Nat /\ d.queries \in Nat /\ e.queries \in Nat
      /\ Len(c.audit) \in Nat /\ Len(d.audit) \in Nat /\ Len(e.audit) \in Nat
      /\ c.at \in [Key -> 0..MaxChanges + 1] /\ d.at \in [Key -> 0..MaxChanges + 1]
      /\ e.at \in [Key -> 0..MaxChanges + 1]
  BY DatabaseFields
<1>2. c.queries <= e.queries /\ Len(c.audit) <= Len(e.audit)
  BY <1>1 DEF Grown
<1>3. \A i \in 1..Len(c.audit) : e.audit[i] = c.audit[i]
  BY <1>1 DEF Grown
<1>4. \A k \in Key : c.at[k] <= e.at[k]
  <2> SUFFICES ASSUME NEW k \in Key PROVE c.at[k] <= e.at[k]
    OBVIOUS
  <2>1. c.at[k] \in Int /\ d.at[k] \in Int /\ e.at[k] \in Int
    BY <1>1
  <2>2. c.at[k] <= d.at[k] /\ d.at[k] <= e.at[k]
    BY DEF Grown
  <2> QED BY <2>1, <2>2
<1> QED BY <1>2, <1>3, <1>4 DEF Grown

\* A change of the list, stamped t.
LEMMA ChangeShape ==
    ASSUME Typed, DatabaseInv, NEW K, NEW table \in DNOTable, NEW t \in {now, now + 1},
           NEW b, Change(K, table, t, b)
    PROVE  /\ Written(db', b) /\ db' \in Databases /\ Grown(db, db')
           /\ db'.hits = db.hits /\ db'.queries = db.queries /\ db'.audit = db.audit
           /\ changes' = changes + 1 /\ changes' \in 0..MaxChanges
           /\ now' \in 1..MaxChanges + 1 /\ now' <= changes' + 1
           /\ \A k \in Key : db'.at[k] <= now'
<1> DEFINE at == [k \in Key |-> IF k \in K THEN t ELSE db.at[k]]
           d == [db EXCEPT !.dno = table, !.at = at]
<1>0. MaxChanges \in Nat /\ db \in Databases /\ now \in 1..MaxChanges + 1
      /\ changes \in 0..MaxChanges
  BY InstanceParameters DEF Typed
<1>1. /\ changes < MaxChanges /\ changes' = changes + 1 /\ now' = t
      /\ Written(d, b)
  BY DEF Change
<1>2. now' \in 1..MaxChanges + 1 /\ now' <= changes' + 1 /\ changes' \in 0..MaxChanges
      /\ now' >= now /\ now' \in 0..MaxChanges + 1
  BY <1>0, <1>1 DEF DatabaseInv
<1>3. /\ db.at \in [Key -> 0..MaxChanges + 1] /\ \A k \in Key : db.at[k] <= now
  BY <1>0, DatabaseFields DEF DatabaseInv
<1>4. \A k \in Key : at[k] \in 0..MaxChanges + 1 /\ db.at[k] <= at[k] /\ at[k] <= now'
  <2> SUFFICES ASSUME NEW k \in Key
               PROVE  at[k] \in 0..MaxChanges + 1 /\ db.at[k] <= at[k] /\ at[k] <= now'
    OBVIOUS
  <2>1. db.at[k] \in 0..MaxChanges + 1 /\ db.at[k] <= now
    BY <1>3
  <2> QED BY <1>0, <1>1, <1>2, <2>1
<1>5. at \in [Key -> 0..MaxChanges + 1]
  BY <1>4
<1> HIDE DEF at
<1>6. /\ d \in Databases /\ d.at = at /\ d.hits = db.hits /\ d.queries = db.queries
      /\ d.audit = db.audit
  BY <1>0, <1>5 DEF Databases
<1> HIDE DEF d
<1>7. db' = d
  BY <1>1 DEF Written
<1>8. Grown(db, d)
  <2>1. db.queries \in Nat /\ Len(db.audit) \in Nat
    BY <1>0, DatabaseFields
  <2> QED BY <1>4, <1>6, <2>1 DEF Grown
<1> QED BY <1>1, <1>2, <1>4, <1>6, <1>7, <1>8

-----------------------------------------------------------------------------
(* What the statements of others do to the list.                           *)

\* AddNumber's statement leaves a table.
LEMMA UpsertSubscriberTyped ==
    ASSUME NEW t \in DNOTable, NEW p \in Phones, NEW c \in Channel, NEW o \in Orgs
    PROVE  UpsertSubscriber(t, p, c, o) \in DNOTable
<1> DEFINE r == t[<<p, c>>]
           s == [r EXCEPT !.status = "active"]
           new == [dataset |-> "subscriber", status |-> "active", org |-> o]
<1>1. <<p, c>> \in Key /\ r \in Row \cup {NoRow}
  BY DEF Key, DNOTable
<1>2. new \in Row /\ (r \in Row => s \in Row)
  BY DEF Row, Dataset, Status
<1>3. UpsertSubscriber(t, p, c, o)
        = [t EXCEPT ![<<p, c>>] = IF Exists(t, <<p, c>>) THEN s ELSE new]
  BY <1>1 DEF UpsertSubscriber, DNOTable
<1> HIDE DEF s, new
<1> QED BY <1>1, <1>2, <1>3 DEF DNOTable, Exists

\* So does that of a porting event.
LEMMA UpsertSystemTyped ==
    ASSUME NEW t \in DNOTable, NEW p \in Phones, NEW c \in Channel, NEW d \in Dataset
    PROVE  UpsertSystem(t, p, c, d) \in DNOTable
<1> DEFINE r == t[<<p, c>>]
           s == [r EXCEPT !.status = "active", !.dataset = d]
           new == [dataset |-> d, status |-> "active", org |-> NoOrg]
<1>1. <<p, c>> \in Key /\ r \in Row \cup {NoRow}
  BY DEF Key, DNOTable
<1>2. new \in Row /\ (r \in Row => s \in Row)
  BY DEF Row, Status
<1>3. UpsertSystem(t, p, c, d)
        = [t EXCEPT ![<<p, c>>] = IF Exists(t, <<p, c>>) THEN s ELSE new]
  BY <1>1 DEF UpsertSystem, DNOTable
<1> HIDE DEF s, new
<1> QED BY <1>1, <1>2, <1>3 DEF DNOTable, Exists

\* And RemoveNumber's.
LEMMA DeactivateTyped ==
    ASSUME NEW t \in DNOTable, NEW K, \A k \in K : Exists(t, k)
    PROVE  Deactivate(t, K) \in DNOTable
<1> SUFFICES ASSUME NEW k \in Key
             PROVE  (IF k \in K THEN [t[k] EXCEPT !.status = "inactive"] ELSE t[k])
                      \in Row \cup {NoRow}
  BY DEF Deactivate, DNOTable
<1> DEFINE s == [t[k] EXCEPT !.status = "inactive"]
<1>1. t[k] \in Row \cup {NoRow} /\ (k \in K => t[k] # NoRow)
  BY DEF DNOTable, Exists
<1>2. t[k] \in Row => s \in Row
  BY DEF Row, Status
<1> HIDE DEF s
<1>3. k \in K => s \in Row \cup {NoRow}
  BY <1>1, <1>2
<1> QED BY <1>1, <1>3 DEF s

-----------------------------------------------------------------------------
(* Steps of others.                                                        *)

\* What they do to the request in progress: nothing, or it is overtaken, or the
\* database it reads has moved on.
Moved ==
    /\ topic' = topic
    /\ Grown(Source, Source')
    /\ \/ req' = req /\ (req = Idle \/ Source' = Source)
       \/ req # Idle /\ Source' = Source /\ \E b : req' = [req EXCEPT !.overtaken = b]
       \/ req # Idle /\ req' = Noticed(Source, Source')

\* A statement on the database.
LEMMA WrittenMoves ==
    ASSUME Typed, NEW d \in Databases, Grown(db, d), NEW b, Written(d, b)
    PROVE  Moved
<1>1. topic' = topic /\ replica' = replica /\ db' = d
  BY DEF Written
<1>2. CASE OnReplica
  <2>1. Source = replica /\ Source' = Source
    BY <1>1, <1>2 DEF Source, OnReplica
  <2>2. Grown(Source, Source')
    BY <2>1, GrownReflexive DEF Typed
  <2>3. CASE req = Idle
    <3>1. req' = req
      BY <2>3 DEF Written
    <3> QED BY <1>1, <2>1, <2>2, <3>1 DEF Moved
  <2>4. CASE req # Idle
    <3>1. req' = [req EXCEPT !.overtaken = @ \/ b]
      BY <1>2, <2>4 DEF Written
    <3>2. \E x : req' = [req EXCEPT !.overtaken = x]
      BY <3>1
    <3> QED BY <1>1, <2>1, <2>2, <2>4, <3>2 DEF Moved
  <2> QED BY <2>3, <2>4
<1>3. CASE ~ OnReplica
  <2>1. Source = db /\ Source' = d
    BY <1>1, <1>3 DEF Source, OnReplica
  <2>2. CASE req = Idle
    <3>1. req' = req
      BY <2>2 DEF Written
    <3> QED BY <1>1, <2>1, <2>2, <3>1 DEF Moved
  <2>3. CASE req # Idle
    <3>1. req' = Noticed(db, d)
      BY <1>3, <2>3 DEF Written
    <3> QED BY <1>1, <2>1, <2>3, <3>1 DEF Moved
  <2> QED BY <2>2, <2>3
<1> QED BY <1>2, <1>3

\* A change of the list, with what it leaves to do.
LEMMA ChangeMoves ==
    ASSUME Typed, DatabaseInv, NEW K, NEW table \in DNOTable, NEW t \in {now, now + 1},
           NEW b, Change(K, table, t, b),
           pending' = pending \/ \E kind \in {"add", "remove"} : Unfinished(kind)
    PROVE  Typed' /\ DatabaseInv' /\ Moved
<1>1. /\ Written(db', b) /\ db' \in Databases /\ Grown(db, db')
      /\ db'.hits = db.hits /\ db'.queries = db.queries /\ db'.audit = db.audit
      /\ changes' = changes + 1 /\ changes' \in 0..MaxChanges
      /\ now' \in 1..MaxChanges + 1 /\ now' <= changes' + 1
      /\ \A k \in Key : db'.at[k] <= now'
  BY ChangeShape
<1>2. topic' = topic /\ replica' = replica
  BY <1>1 DEF Written
<1>3. Grown(replica, db')
  BY <1>1, GrownTransitive DEF DatabaseInv, Typed
<1>4. /\ pending' \in [{"add", "remove"} -> 0..MaxChanges]
      /\ Len(db.audit) + pending'.add + pending'.remove <= changes' + 1
  <2>0. /\ pending.add \in Nat /\ pending.remove \in Nat /\ changes \in Nat /\ MaxChanges \in Nat
        /\ Len(db.audit) \in Nat /\ pending \in [{"add", "remove"} -> 0..MaxChanges]
        /\ Len(db.audit) > 0 /\ Len(db.audit) + pending.add + pending.remove <= changes + 1
    BY InstanceParameters, DatabaseFields DEF Typed, DatabaseInv
  <2>1. CASE pending' = pending
    BY <1>1, <2>0, <2>1
  <2>2. CASE pending' = [pending EXCEPT !["add"] = @ + 1]
    BY <1>1, <2>0, <2>2
  <2>3. CASE pending' = [pending EXCEPT !["remove"] = @ + 1]
    BY <1>1, <2>0, <2>3
  <2> QED BY <2>1, <2>2, <2>3 DEF Unfinished
<1>5. Moved
  BY <1>1, WrittenMoves
<1> QED BY <1>1, <1>2, <1>3, <1>4, <1>5 DEF Typed, DatabaseInv

\* What is fixed about a step: types and the parts DatabaseInv is about.
LEMMA SmallNumbers ==
    ASSUME Typed, DatabaseInv
    PROVE  /\ MaxChanges \in Nat /\ MaxLogged \in Nat
           /\ pending.add \in Nat /\ pending.remove \in Nat
           /\ pending \in [{"add", "remove"} -> 0..MaxChanges]
           /\ changes \in Nat /\ changes <= MaxChanges
           /\ now \in Nat /\ now <= changes + 1
           /\ Len(db.audit) \in Nat /\ Len(db.audit) > 0
           /\ Len(db.audit) + pending.add + pending.remove <= changes + 1
BY InstanceParameters, DatabaseFields DEF Typed, DatabaseInv

\* One addition or removal less to finish.
LEMMA OneLess ==
    ASSUME Typed, DatabaseInv, NEW kind \in {"add", "remove"}, pending[kind] > 0,
           pending' = [pending EXCEPT ![kind] = @ - 1]
    PROVE  /\ pending' \in [{"add", "remove"} -> 0..MaxChanges]
           /\ pending'.add \in Nat /\ pending'.remove \in Nat
           /\ \A n \in Nat : n <= Len(db.audit) + 1 =>
                 n <= MaxChanges + 1 /\ n + pending'.add + pending'.remove <= changes + 1
<1>1. /\ pending.add \in Nat /\ pending.remove \in Nat /\ MaxChanges \in Nat
      /\ pending \in [{"add", "remove"} -> 0..MaxChanges]
  BY SmallNumbers
<1>2. /\ pending' \in [{"add", "remove"} -> 0..MaxChanges]
      /\ pending'.add \in Nat /\ pending'.remove \in Nat
      /\ pending'.add + pending'.remove + 1 = pending.add + pending.remove
  <2>1. CASE kind = "add"
    BY <1>1, <2>1
  <2>2. CASE kind = "remove"
    BY <1>1, <2>2
  <2> QED BY <2>1, <2>2
<1> DEFINE a == pending'.add + pending'.remove
           l == Len(db.audit)
<1>3. /\ a \in Nat /\ l \in Nat /\ changes \in Nat /\ changes <= MaxChanges
      /\ l + a + 1 <= changes + 1
  <2>1. /\ l \in Nat /\ changes \in Nat /\ changes <= MaxChanges
        /\ l + pending.add + pending.remove <= changes + 1
    BY SmallNumbers
  <2> HIDE DEF l
  <2> QED BY <1>1, <1>2, <2>1
<1>4. ASSUME NEW n \in Nat, n <= l + 1
      PROVE  n <= MaxChanges + 1 /\ n + pending'.add + pending'.remove <= changes + 1
  <2>1. n + a <= changes + 1 /\ n <= MaxChanges + 1
    <3> HIDE DEF a, l
    <3> QED BY <1>1, <1>3, <1>4
  <2> QED BY <1>2, <2>1
<1> QED BY <1>2, <1>4

\* The audit entry and the invalidation.
LEMMA FinishMoves ==
    ASSUME Typed, DatabaseInv, NEW kind \in {"add", "remove"}, Finish(kind)
    PROVE  Typed' /\ DatabaseInv' /\ Moved
<1>0. db \in Databases /\ replica \in Databases /\ now \in 1..MaxChanges + 1
  BY DEF Typed
<1>1. /\ pending' \in [{"add", "remove"} -> 0..MaxChanges]
      /\ \A n \in Nat : n <= Len(db.audit) + 1 =>
            n <= MaxChanges + 1 /\ n + pending'.add + pending'.remove <= changes + 1
      /\ now' = now /\ changes' = changes
  BY OneLess DEF Finish
<1>2. PICK kept \in BOOLEAN :
        Written([db EXCEPT !.audit = IF kept THEN Append(@, now) ELSE @], TRUE)
  BY DEF Finish
<1> DEFINE trail == IF kept THEN Append(db.audit, now) ELSE db.audit
           d == [db EXCEPT !.audit = trail]
<1>3. Written(d, TRUE)
  BY <1>2
<1>4. /\ db.audit \in Seq(0..MaxChanges + 1) /\ now \in 0..MaxChanges + 1
      /\ Len(db.audit) \in Nat
  BY <1>0, DatabaseFields
<1>5. /\ trail \in Seq(0..MaxChanges + 1)
      /\ Len(trail) <= Len(db.audit) + 1 /\ Len(db.audit) <= Len(trail)
      /\ \A i \in 1..Len(db.audit) : trail[i] = db.audit[i]
  <2> DEFINE old == db.audit
             new == Append(old, now)
  <2>1. old \in Seq(0..MaxChanges + 1) /\ Len(old) \in Nat
    BY <1>4
  <2> HIDE DEF old
  <2>2. /\ new \in Seq(0..MaxChanges + 1) /\ Len(new) = Len(old) + 1
        /\ \A i \in 1..Len(old) : new[i] = old[i]
    BY <1>4, <2>1
  <2>3. trail = IF kept THEN new ELSE old
    BY DEF old
  <2> HIDE DEF new, trail
  <2>4. CASE kept
    BY <2>1, <2>2, <2>3, <2>4 DEF old
  <2>5. CASE ~ kept
    BY <2>1, <2>3, <2>5 DEF old
  <2> QED BY <2>4, <2>5
<1>6. Len(trail) <= MaxChanges + 1
  <2>1. Len(trail) \in Nat
    BY <1>5
  <2> QED BY <1>1, <1>5, <2>1
<1> HIDE DEF trail
<1>7. /\ d \in Databases /\ d.audit = trail /\ d.at = db.at /\ d.hits = db.hits
      /\ d.queries = db.queries
  <2>1. trail \in UNION {[1..n -> 0..MaxChanges + 1] : n \in 0..MaxChanges + 1}
    BY <1>5, <1>6, TrailsAreSequences
  <2> QED BY <1>0, <2>1 DEF Databases
<1> HIDE DEF d
<1>8. Grown(db, d)
  <2>1. Grown(db, db)
    BY <1>0, GrownReflexive
  <2> QED BY <1>5, <1>7, <2>1 DEF Grown
<1>9. Moved
  BY <1>3, <1>7, <1>8, WrittenMoves
<1>10. db' = d /\ topic' = topic /\ replica' = replica
  BY <1>3 DEF Written
<1>11. Grown(replica, d)
  BY <1>0, <1>7, <1>8, GrownTransitive DEF DatabaseInv
<1>12. Len(d.audit) > 0 /\ Len(d.audit) + pending'.add + pending'.remove <= changes + 1
  <2>1. Len(trail) \in Nat /\ Len(db.audit) > 0
    BY <1>5, SmallNumbers
  <2>2. Len(trail) + pending'.add + pending'.remove <= changes + 1
    BY <1>1, <1>5, <2>1
  <2>3. Len(trail) > 0
    BY <1>4, <1>5, <2>1
  <2> QED BY <1>7, <2>2, <2>3
<1> QED BY <1>1, <1>7, <1>9, <1>10, <1>11, <1>12 DEF Typed, DatabaseInv

\* An addition or a removal that ends without either.
LEMMA GiveUpMoves ==
    ASSUME Typed, DatabaseInv, NEW kind \in {"add", "remove"}, GiveUp(kind)
    PROVE  Typed' /\ DatabaseInv' /\ Moved
<1>1. /\ pending' \in [{"add", "remove"} -> 0..MaxChanges]
      /\ \A n \in Nat : n <= Len(db.audit) + 1 =>
            n <= MaxChanges + 1 /\ n + pending'.add + pending'.remove <= changes + 1
      /\ now' = now /\ changes' = changes /\ Written(db, TRUE)
  BY OneLess DEF GiveUp
<1>2. Moved
  BY <1>1, WrittenMoves, GrownReflexive DEF Typed
<1>3. db' = db /\ topic' = topic /\ replica' = replica
  BY <1>1 DEF Written
<1>4. Len(db.audit) + pending'.add + pending'.remove <= changes + 1
  <2>1. Len(db.audit) \in Nat
    BY SmallNumbers
  <2>2. Len(db.audit) <= Len(db.audit) + 1
    BY <2>1
  <2> QED BY <1>1, <2>1, <2>2
<1> QED BY <1>1, <1>2, <1>3, <1>4 DEF Typed, DatabaseInv

\* The query log grows.
LEMMA QueryLoggedMoves ==
    ASSUME Typed, DatabaseInv, NEW n \in {0, 1}, QueryLogged(n)
    PROVE  Typed' /\ DatabaseInv' /\ Moved
<1> DEFINE d == [db EXCEPT !.queries = @ + 1, !.hits = @ + n]
<1>0. /\ db \in Databases /\ replica \in Databases /\ MaxLogged \in Nat
      /\ db.queries \in Nat /\ db.hits \in Nat
      /\ db.queries < MaxLogged /\ db.hits <= db.queries
  BY DatabaseFields, InstanceParameters DEF Typed, DatabaseInv, QueryLogged
<1>1. Written(d, FALSE) /\ now' = now /\ changes' = changes /\ pending' = pending
  BY DEF QueryLogged
<1>2. db.queries + 1 \in 0..MaxLogged /\ db.hits + n \in 0..MaxLogged
  BY <1>0
<1>3. /\ d \in Databases /\ d.audit = db.audit /\ d.at = db.at
      /\ d.queries = db.queries + 1 /\ d.hits = db.hits + n
  BY <1>0, <1>2 DEF Databases
<1> HIDE DEF d
<1>4. Grown(db, d)
  <2>1. Grown(db, db)
    BY <1>0, GrownReflexive
  <2>2. db.queries <= d.queries
    BY <1>0, <1>3
  <2> QED BY <1>3, <2>1, <2>2 DEF Grown
<1>5. Moved
  BY <1>1, <1>3, <1>4, WrittenMoves
<1>6. db' = d /\ topic' = topic /\ replica' = replica
  BY <1>1 DEF Written
<1>7. Grown(replica, d)
  BY <1>0, <1>3, <1>4, GrownTransitive DEF DatabaseInv
<1>8. d.hits <= d.queries
  BY <1>0, <1>3
<1> QED BY <1>1, <1>3, <1>5, <1>6, <1>7, <1>8 DEF Typed, DatabaseInv

\* The replica catches up.
LEMMA ReplicateMoves ==
    ASSUME Typed, DatabaseInv, OnReplica, Replicate
    PROVE  Typed' /\ DatabaseInv' /\ Moved
<1>1. /\ replica' = db /\ topic' = topic /\ db' = db /\ now' = now /\ pending' = pending
      /\ changes' = changes
      /\ req' = IF req = Idle THEN req ELSE Noticed(replica, db)
  BY DEF Replicate
<1>2. Source = replica /\ Source' = db
  BY <1>1 DEF Source, OnReplica
<1>3. Moved
  BY <1>1, <1>2 DEF Moved, DatabaseInv
<1>4. Grown(db, db)
  BY GrownReflexive DEF Typed
<1> QED BY <1>1, <1>3, <1>4 DEF Typed, DatabaseInv

\* Whatever others do.
LEMMA OthersMove ==
    ASSUME Typed, DatabaseInv, Others
    PROVE  Typed' /\ DatabaseInv' /\ Moved
<1>0. db \in Databases /\ db.dno \in DNOTable /\ AddChannels \subseteq Channel
  BY DatabaseFields, InstanceParameters DEF Typed
<1>1. ASSUME NEW p \in Phones, NEW c \in AddChannels, NEW t \in Ticks, AddNumber(p, c, t)
      PROVE  Typed' /\ DatabaseInv' /\ Moved
  <2>1. PICK o \in Orgs :
           Change({<<p, c>>}, UpsertSubscriber(db.dno, p, c, o), t, FALSE)
    BY <1>1 DEF AddNumber
  <2>2. UpsertSubscriber(db.dno, p, c, o) \in DNOTable
    BY <1>0, UpsertSubscriberTyped
  <2>3. Unfinished("add") /\ t \in {now, now + 1}
    BY <1>1 DEF AddNumber, Ticks
  <2> QED BY <2>1, <2>2, <2>3, ChangeMoves
<1>2. ASSUME NEW p \in Phones, NEW c \in AddChannels, NEW t \in Ticks, RemoveNumber(p, c, t)
      PROVE  Typed' /\ DatabaseInv' /\ Moved
  <2>1. PICK o \in Orgs :
           LET K == RemoveTargets(db.dno, p, c, o) IN
             Change(K, Deactivate(db.dno, K), t, FALSE)
    BY <1>2 DEF RemoveNumber
  <2> DEFINE K == RemoveTargets(db.dno, p, c, o)
  <2>2. Change(K, Deactivate(db.dno, K), t, FALSE)
    BY <2>1
  <2>3. \A k \in K : Exists(db.dno, k)
    BY DEF RemoveTargets
  <2>4. Unfinished("remove") /\ t \in {now, now + 1}
    BY <1>2 DEF RemoveNumber, Ticks
  <2> HIDE DEF K
  <2>5. Deactivate(db.dno, K) \in DNOTable
    BY <1>0, <2>3, DeactivateTyped
  <2> QED BY <2>2, <2>4, <2>5, ChangeMoves
<1>3. ASSUME NEW p \in Phones, NEW t \in Ticks, ChangeElsewhere(p, t)
      PROVE  Typed' /\ DatabaseInv' /\ Moved
  <2>1. Change({<<p, Voice>>}, UpsertSystem(db.dno, p, Voice, "auto"), t, TRUE)
    BY <1>3 DEF ChangeElsewhere
  <2>2. UpsertSystem(db.dno, p, Voice, "auto") \in DNOTable
    BY <1>0, UpsertSystemTyped DEF Voice, Channel, Dataset
  <2>3. pending' = pending /\ t \in {now, now + 1}
    BY <1>3 DEF ChangeElsewhere, Ticks
  <2> QED BY <2>1, <2>2, <2>3, ChangeMoves
<1>4. ASSUME Expire PROVE Typed' /\ DatabaseInv' /\ Moved
  <2>1. UNCHANGED <<topic, db, replica, now, pending, changes, req>>
    BY <1>4 DEF Expire
  <2>2. Source' = Source /\ Source \in Databases
    BY <2>1 DEF Source, OnReplica, Typed
  <2>3. Moved
    BY <2>1, <2>2, GrownReflexive DEF Moved
  <2> QED BY <2>1, <2>3 DEF Typed, DatabaseInv
<1> QED BY <1>1, <1>2, <1>3, <1>4, FinishMoves, GiveUpMoves, QueryLoggedMoves, ReplicateMoves
        DEF Others

-----------------------------------------------------------------------------
(* The request in progress.                                                *)

\* Where a request about its topic can be.
InPlace ==
    \/ req.pc = "answered"
    \/ topic = "bulk" /\ req.pc = "select"
    \/ topic = "analysis" /\ req.pc = "analyze"
    \/ topic \in {"numbers", "audit"} /\ req.pc \in {"count", "page"}
    \/ topic \in {"summary", "compliance"} /\ req.pc = "read"

\* A request in progress is where its kind can be, and what it would read now is
\* among the databases it could have read.
Posed ==
    req # Idle =>
        /\ InPlace
        /\ {"pc", "moments", "grew", "shrank", "overtaken"} \subseteq DOMAIN req
        /\ IsFiniteSet(req.moments) /\ req.moments \subseteq Databases
        /\ Source \in req.moments

\* The source is a database.
LEMMA SourceTyped == Typed => Source \in Databases
BY DEF Typed, Source

\* What others leave of a request.
LEMMA Carried ==
    ASSUME Posed, Moved, req # Idle
    PROVE  /\ req' # Idle /\ DOMAIN req' = DOMAIN req
           /\ \A x \in DOMAIN req \ {"moments", "grew", "shrank", "overtaken"} :
                 req'[x] = req[x]
           /\ req.moments \subseteq req'.moments
           /\ req'.moments \subseteq req.moments \cup {Source'}
           /\ Source' \in req'.moments
<1> DEFINE e == Source'
<1>0. /\ "moments" \in DOMAIN req /\ Source \in req.moments
  BY DEF Posed
<1>1. CASE req' = req /\ Source' = Source
  BY <1>0, <1>1
<1>2. CASE Source' = Source /\ \E b : req' = [req EXCEPT !.overtaken = b]
  <2>1. PICK b : req' = [req EXCEPT !.overtaken = b]
    BY <1>2
  <2>2. DOMAIN req' = DOMAIN req /\ req'.moments = req.moments
    BY <1>0, <2>1
  <2>3. req' # Idle
    BY <1>0, <2>2 DEF Idle
  <2>4. \A x \in DOMAIN req \ {"overtaken"} : req'[x] = req[x]
    BY <2>1
  <2> QED BY <1>0, <1>2, <2>2, <2>3, <2>4
<1>3. CASE req' = Noticed(Source, Source')
  <2> HIDE DEF e
  <2>0. req' = Noticed(Source, e)
    BY <1>3 DEF e
  <2>1. DOMAIN req' = DOMAIN req /\ req'.moments = req.moments \cup {e}
    BY <1>0, <2>0 DEF Noticed
  <2>2. req' # Idle
    BY <1>0, <2>1 DEF Idle
  <2>3. \A x \in DOMAIN req \ {"moments", "grew", "shrank"} : req'[x] = req[x]
    BY <2>0 DEF Noticed
  <2> QED BY <2>1, <2>2, <2>3 DEF e
<1> QED BY <1>1, <1>2, <1>3 DEF Moved

\* It stays posed.
LEMMA OthersPosed ==
    ASSUME Typed', Posed, Moved
    PROVE  Posed'
<1>1. CASE req = Idle
  <2>1. req' = Idle
    BY <1>1 DEF Moved
  <2> QED BY <2>1 DEF Posed, Idle
<1>2. CASE req # Idle
  <2>1. /\ DOMAIN req' = DOMAIN req
        /\ \A x \in DOMAIN req \ {"moments", "grew", "shrank", "overtaken"} :
              req'[x] = req[x]
        /\ req'.moments \subseteq req.moments \cup {Source'}
        /\ Source' \in req'.moments
    BY <1>2, Carried
  <2>2. "pc" \in DOMAIN req /\ IsFiniteSet(req.moments) /\ req.moments \subseteq Databases
    BY <1>2 DEF Posed
  <2>3. req'.pc = req.pc /\ topic' = topic
    BY <2>1, <2>2 DEF Moved
  <2>4. InPlace'
    BY <1>2, <2>3 DEF Posed, InPlace
  <2>5. Source' \in Databases
    BY SourceTyped DEF Typed, Source
  <2>6. IsFiniteSet(req'.moments)
    <3>1. IsFiniteSet(req.moments \cup {Source'})
      BY <2>2, FS_AddElement
    <3> QED BY <2>1, <3>1, FS_Subset
  <2>7. req'.moments \subseteq Databases
    BY <2>1, <2>2, <2>5
  <2> QED BY <1>2, <2>1, <2>4, <2>6, <2>7 DEF Posed
<1> QED BY <1>1, <1>2

-----------------------------------------------------------------------------
(* Steps of the request.                                                   *)

\* What is under way when a step is taken decides which step it is.
LEMMA OnTopic ==
    ASSUME Posed, Requests
    PROVE  \/ Fail
           \/ topic = "bulk" /\ ((\E list \in Lists : BulkStart(list)) \/ BulkSelect)
           \/ /\ topic = "analysis"
              /\ (\E list \in Lists : AnalyzeStart(list)) \/ AnalyzeBatch \/ AnalyzeReply
           \/ /\ topic \in {"numbers", "audit"}
              /\ \/ \E n \in AskedSizes, filter \in {"all", "active"} : Walk(topic, filter, n)
                 \/ WalkCount \/ WalkPage
           \/ /\ topic = "summary"
              /\ SummaryCached \/ SummaryStart \/ SummaryRead \/ SummaryStore
           \/ /\ topic = "compliance"
              /\ ComplianceStart \/ ComplianceRead \/ ComplianceReply
<1>0. req = Idle => req.pc = "idle"
  BY DEF Idle
<1>1. CASE \E list \in Lists : BulkStart(list) \/ AnalyzeStart(list)
  BY <1>1 DEF BulkStart, AnalyzeStart, Begin
<1>2. CASE BulkSelect \/ AnalyzeBatch \/ AnalyzeReply \/ WalkCount \/ WalkPage
  BY <1>0, <1>2 DEF BulkSelect, AnalyzeBatch, AnalyzeReply, WalkCount, WalkPage, Posed, InPlace
<1>3. ASSUME NEW n \in AskedSizes,
             AuditStart(n) \/ \E filter \in {"all", "active"} : ListStart(filter, n)
      PROVE  topic \in {"numbers", "audit"} /\ \E filter \in {"all", "active"} : Walk(topic, filter, n)
  BY <1>3 DEF AuditStart, ListStart, Walk, Begin
<1>4. CASE SummaryCached \/ SummaryStart \/ SummaryRead \/ SummaryStore
  BY <1>4 DEF SummaryCached, SummaryStart, SummaryRead, SummaryStore, Reading, Begin
<1>5. CASE ComplianceStart \/ ComplianceRead \/ ComplianceReply
  BY <1>5 DEF ComplianceStart, ComplianceRead, ComplianceReply, Reading, Begin
<1>6. CASE ReadFails \/ Close
  BY <1>6 DEF ReadFails, Close
<1> QED BY <1>1, <1>2, <1>3, <1>4, <1>5, <1>6 DEF Requests

\* A request that begins.
LEMMA BeginShape ==
    ASSUME NEW about, NEW pc, NEW fields, Begin(about, pc, fields)
    PROVE  /\ topic = about /\ req = Idle /\ req' # Idle
           /\ DOMAIN req' = {"pc", "moments", "grew", "shrank", "overtaken"} \cup DOMAIN fields
           /\ req'.pc = pc /\ req'.moments = {Source}
           /\ ~ req'.grew /\ ~ req'.shrank
           /\ \A x \in DOMAIN fields \ {"pc", "moments", "grew", "shrank", "overtaken"} :
                 req'[x] = fields[x]
           /\ UNCHANGED <<topic, db, replica, now, summary, pending, changes>>
BY DEF Begin, Over, Idle

\* A request that goes on.
LEMMA ToShape ==
    ASSUME Posed, NEW pc, NEW fields, To(pc, fields), "pc" \notin DOMAIN fields,
           req # Idle
    PROVE  /\ DOMAIN req' = DOMAIN req \cup DOMAIN fields /\ req' # Idle
           /\ req'.pc = pc
           /\ \A x \in DOMAIN fields : req'[x] = fields[x]
           /\ \A x \in DOMAIN req \ DOMAIN fields : x # "pc" => req'[x] = req[x]
           /\ UNCHANGED <<topic, db, replica, now, pending, changes>>
<1>1. "pc" \in DOMAIN req /\ "moments" \in DOMAIN req
  BY DEF Posed
<1>2. req' = Over([pc |-> pc], Over(fields, req))
  BY DEF To
<1>3. DOMAIN req' = DOMAIN req \cup DOMAIN fields
  BY <1>1, <1>2 DEF Over
<1>4. req' # Idle
  BY <1>1, <1>3 DEF Idle
<1> QED BY <1>1, <1>2, <1>3, <1>4 DEF Over, To

\* Where a request can begin, and where one can go on to, and with what.
StartsAt(about, pc) ==
    \/ pc = "answered"
    \/ about = "bulk" /\ pc = "select"
    \/ about = "analysis" /\ pc = "analyze"
    \/ about \in {"numbers", "audit"} /\ pc \in {"count", "page"}
    \/ about \in {"summary", "compliance"} /\ pc = "read"

GoesTo(pc, fields) ==
    /\ DOMAIN fields \cap {"pc", "moments"} = {}
    /\ \/ pc \in {"answered", req.pc}
       \/ req.pc \in {"count", "page"} /\ pc \in {"count", "page"}

\* A request that begins is posed.
LEMMA BeginPosed ==
    ASSUME Typed, NEW about, NEW pc, NEW fields, Begin(about, pc, fields), StartsAt(about, pc)
    PROVE  Posed'
<1>1. /\ topic = about /\ topic' = topic /\ db' = db /\ replica' = replica
      /\ {"pc", "moments", "grew", "shrank", "overtaken"} \subseteq DOMAIN req'
      /\ req'.pc = pc /\ req'.moments = {Source}
  BY BeginShape
<1>2. Source' = Source /\ Source \in Databases
  BY <1>1, SourceTyped DEF Source, OnReplica
<1>3. IsFiniteSet({Source})
  BY FS_Singleton
<1>4. InPlace'
  BY <1>1 DEF InPlace, StartsAt
<1> QED BY <1>1, <1>2, <1>3, <1>4 DEF Posed

\* One that goes on stays so.
LEMMA ToPosed ==
    ASSUME Posed, NEW pc, NEW fields, To(pc, fields), req # Idle, GoesTo(pc, fields)
    PROVE  Posed'
<1>1. /\ DOMAIN req' = DOMAIN req \cup DOMAIN fields /\ req'.pc = pc
      /\ \A x \in DOMAIN req \ DOMAIN fields : x # "pc" => req'[x] = req[x]
      /\ topic' = topic /\ db' = db /\ replica' = replica
  BY ToShape DEF GoesTo
<1>2. Source' = Source
  BY <1>1 DEF Source, OnReplica
<1>3. /\ {"pc", "moments", "grew", "shrank", "overtaken"} \subseteq DOMAIN req
      /\ InPlace /\ IsFiniteSet(req.moments) /\ req.moments \subseteq Databases
      /\ Source \in req.moments
  BY DEF Posed
<1>4. req'.moments = req.moments
  BY <1>1, <1>3 DEF GoesTo
<1>5. InPlace'
  BY <1>1, <1>3 DEF InPlace, GoesTo
<1> QED BY <1>1, <1>2, <1>3, <1>4, <1>5 DEF Posed

\* Every step of a request keeps it posed and changes nothing of the rest.
LEMMA RequestsPosed ==
    ASSUME Typed, Posed, Requests
    PROVE  Posed' /\ UNCHANGED <<topic, db, replica, now, pending, changes>>
<1>0. req = Idle => req.pc = "idle"
  BY DEF Idle
<1>1. CASE Fail
  BY <1>1 DEF Fail, Posed
<1>2. ASSUME NEW about, NEW pc, NEW fields, Begin(about, pc, fields), StartsAt(about, pc)
      PROVE  Posed' /\ UNCHANGED <<topic, db, replica, now, pending, changes>>
  <2>1. Posed'
    BY <1>2, BeginPosed
  <2> QED BY <1>2, <2>1 DEF Begin
<1>3. ASSUME NEW pc, NEW fields, To(pc, fields), req # Idle, GoesTo(pc, fields)
      PROVE  Posed' /\ UNCHANGED <<topic, db, replica, now, pending, changes>>
  BY <1>3, ToPosed DEF To
<1>4. CASE topic = "bulk" /\ ((\E list \in Lists : BulkStart(list)) \/ BulkSelect)
  <2>1. CASE \E list \in Lists : BulkStart(list)
    <3>1. PICK fields : Begin("bulk", "select", fields)
      BY <2>1 DEF BulkStart
    <3>2. StartsAt("bulk", "select")
      BY DEF StartsAt
    <3> QED BY <1>2, <3>1, <3>2
  <2>2. CASE BulkSelect
    <3>1. req # Idle /\ req.pc = "select"
      BY <1>0, <2>2 DEF BulkSelect, BulkReply
    <3>2. PICK fields : To("answered", fields) /\ GoesTo("answered", fields)
      BY <3>1, <2>2 DEF BulkSelect, BulkReply, GoesTo
    <3> QED BY <1>3, <3>1, <3>2
  <2> QED BY <1>4, <2>1, <2>2
<1>5. CASE /\ topic = "analysis"
           /\ (\E list \in Lists : AnalyzeStart(list)) \/ AnalyzeBatch \/ AnalyzeReply
  <2>1. CASE \E list \in Lists : AnalyzeStart(list)
    <3>1. PICK fields : Begin("analysis", "analyze", fields)
      BY <2>1 DEF AnalyzeStart
    <3>2. StartsAt("analysis", "analyze")
      BY DEF StartsAt
    <3> QED BY <1>2, <3>1, <3>2
  <2>2. CASE AnalyzeBatch
    <3>1. req # Idle /\ req.pc = "analyze"
      BY <1>0, <2>2 DEF AnalyzeBatch
    <3>2. PICK fields : To("analyze", fields) /\ GoesTo("analyze", fields)
      BY <3>1, <2>2 DEF AnalyzeBatch, GoesTo
    <3> QED BY <1>3, <3>1, <3>2
  <2>3. CASE AnalyzeReply
    <3>1. req # Idle /\ req.pc = "analyze"
      BY <1>0, <2>3 DEF AnalyzeReply
    <3>2. PICK fields : To("answered", fields) /\ GoesTo("answered", fields)
      BY <3>1, <2>3 DEF AnalyzeReply, GoesTo
    <3> QED BY <1>3, <3>1, <3>2
  <2> QED BY <1>5, <2>1, <2>2, <2>3
<1>6. CASE /\ topic \in {"numbers", "audit"}
           /\ \/ \E n \in AskedSizes, filter \in {"all", "active"} : Walk(topic, filter, n)
              \/ WalkCount \/ WalkPage
  <2>1. CASE \E n \in AskedSizes, filter \in {"all", "active"} : Walk(topic, filter, n)
    <3>1. PICK fields : Begin(topic, "count", fields)
      BY <2>1 DEF Walk
    <3>2. StartsAt(topic, "count")
      BY <1>6 DEF StartsAt
    <3> QED BY <1>2, <3>1, <3>2
  <2>2. CASE WalkCount
    <3>1. req # Idle /\ req.pc = "count"
      BY <1>0, <2>2 DEF WalkCount
    <3>2. PICK fields : To("page", fields) /\ GoesTo("page", fields)
      BY <3>1, <2>2 DEF WalkCount, GoesTo
    <3> QED BY <1>3, <3>1, <3>2
  <2>3. CASE WalkPage
    <3>1. req # Idle /\ req.pc = "page"
      BY <1>0, <2>3 DEF WalkPage
    <3>2. PICK pc, fields : To(pc, fields) /\ GoesTo(pc, fields)
      BY <3>1, <2>3 DEF WalkPage, GoesTo
    <3> QED BY <1>3, <3>1, <3>2
  <2> QED BY <1>6, <2>1, <2>2, <2>3
<1>7. CASE /\ topic = "summary"
           /\ SummaryCached \/ SummaryStart \/ SummaryRead \/ SummaryStore
  <2>1. CASE SummaryCached
    <3>1. PICK fields : Begin("summary", "answered", fields)
      BY <2>1 DEF SummaryCached
    <3>2. StartsAt("summary", "answered")
      BY DEF StartsAt
    <3> QED BY <1>2, <3>1, <3>2
  <2>2. CASE SummaryStart
    <3>1. PICK fields : Begin("summary", "read", fields)
      BY <2>2 DEF SummaryStart
    <3>2. StartsAt("summary", "read")
      BY DEF StartsAt
    <3> QED BY <1>2, <3>1, <3>2
  <2>3. CASE SummaryRead
    <3>1. req # Idle /\ req.pc = "read"
      BY <1>0, <2>3 DEF SummaryRead, Reading
    <3>2. PICK fields : To("read", fields) /\ GoesTo("read", fields)
      BY <3>1, <2>3 DEF SummaryRead, Reading, GoesTo
    <3> QED BY <1>3, <3>1, <3>2
  <2>4. CASE SummaryStore
    <3>1. req # Idle /\ req.pc = "read"
      BY <1>0, <2>4 DEF SummaryStore, Reading
    <3>2. PICK fields : To("answered", fields) /\ GoesTo("answered", fields)
      BY <3>1, <2>4 DEF SummaryStore, Reading, GoesTo
    <3> QED BY <1>3, <3>1, <3>2
  <2> QED BY <1>7, <2>1, <2>2, <2>3, <2>4
<1>8. CASE /\ topic = "compliance"
           /\ ComplianceStart \/ ComplianceRead \/ ComplianceReply
  <2>1. CASE ComplianceStart
    <3>1. PICK fields : Begin("compliance", "read", fields)
      BY <2>1 DEF ComplianceStart
    <3>2. StartsAt("compliance", "read")
      BY DEF StartsAt
    <3> QED BY <1>2, <3>1, <3>2
  <2>2. CASE ComplianceRead
    <3>1. req # Idle /\ req.pc = "read"
      BY <1>0, <2>2 DEF ComplianceRead, Reading
    <3>2. PICK fields : To("read", fields) /\ GoesTo("read", fields)
      BY <3>1, <2>2 DEF ComplianceRead, Reading, GoesTo
    <3> QED BY <1>3, <3>1, <3>2
  <2>3. CASE ComplianceReply
    <3>1. req # Idle /\ req.pc = "read"
      BY <1>0, <2>3 DEF ComplianceReply, Reading
    <3>2. PICK fields : To("answered", fields) /\ GoesTo("answered", fields)
      BY <3>1, <2>3 DEF ComplianceReply, Reading, GoesTo
    <3> QED BY <1>3, <3>1, <3>2
  <2> QED BY <1>8, <2>1, <2>2, <2>3
<1> QED BY <1>1, <1>4, <1>5, <1>6, <1>7, <1>8, OnTopic

-----------------------------------------------------------------------------
(* Walking through the pages.                                              *)

\* Row k was there all the time, with one time stamp and no other row at it.
Steady(k) ==
    \A d, e \in req.moments :
        /\ k \in Rows(d)
        /\ Stamps(d)[k] = Stamps(e)[k]
        /\ \A x \in Rows(d) \ {k} : Stamps(d)[x] # Stamps(d)[k]

\* How many rows are on the pages before the next one.
Passed == (IF req.pc = "answered" THEN req.page ELSE req.page - 1) * req.size

\* A row that is steady was on a page or has all those rows before it; the last
\* COUNT still holds; the last page ends the walk.
WalkInv ==
    topic \in {"numbers", "audit"} /\ req # Idle =>
        /\ {"filter", "size", "page", "total", "seen"} \subseteq DOMAIN req
        /\ req.size \in Nat \ {0} /\ req.page \in Nat \ {0} /\ req.total \in Nat
        /\ ~ req.shrank => \A k \in Rows(Source) :
              Steady(k) => k \in req.seen \/ Cardinality(Above(Stamps(Source), k)) >= Passed
        /\ req.pc \in {"page", "answered"} /\ ~ req.grew /\ ~ req.shrank =>
              Cardinality(Rows(Source)) = req.total
        /\ req.pc = "answered" => ~ (req.page < TotalPages(req.total, req.size))

\* There are finitely many keys.
LEMMA KeysAreFinite == IsFiniteSet(Key)
<1>1. IsFiniteSet({"voice"}) /\ IsFiniteSet({"voice", "text"}) /\ IsFiniteSet(Channel)
  <2>1. IsFiniteSet({"voice"})
    BY FS_Singleton
  <2>2. IsFiniteSet({"voice"} \cup {"text"})
    BY <2>1, FS_AddElement
  <2>3. IsFiniteSet(({"voice"} \cup {"text"}) \cup {"both"})
    BY <2>2, FS_AddElement
  <2>4. Channel = ({"voice"} \cup {"text"}) \cup {"both"}
    BY DEF Channel
  <2> QED BY <2>1, <2>2, <2>3, <2>4
<1> QED BY <1>1, FS_Product, InstanceParameters DEF Key

\* The rows a page is about are finitely many, and their stamps numbers.
LEMMA StampsTyped ==
    ASSUME NEW d \in Databases
    PROVE  /\ IsFiniteSet(Rows(d)) /\ Rows(d) = DOMAIN Stamps(d)
           /\ \A x \in Rows(d) : Stamps(d)[x] \in Int
<1>1. d.at \in [Key -> 0..MaxChanges + 1] /\ d.audit \in Seq(0..MaxChanges + 1)
  BY DatabaseFields
<1>2. CASE topic = "audit"
  <2>1. Stamps(d) = d.audit /\ Rows(d) = 1..Len(d.audit) /\ Len(d.audit) \in Nat
    BY <1>1, <1>2 DEF Stamps, Rows, AuditStamps
  <2>2. IsFiniteSet(1..Len(d.audit))
    BY <2>1, FS_Interval
  <2>3. \A x \in 1..Len(d.audit) : d.audit[x] \in 0..MaxChanges + 1
    <3> DEFINE s == d.audit
               T == 0..MaxChanges + 1
    <3>1. s \in Seq(T)
      BY <1>1
    <3> HIDE DEF s, T
    <3>2. \A x \in 1..Len(s) : s[x] \in T
      BY <3>1
    <3> QED BY <3>2 DEF s, T
  <2>4. \A x \in 1..Len(d.audit) : d.audit[x] \in Int
    BY <2>3, InstanceParameters
  <2> QED BY <2>1, <2>2, <2>4 DEF Rows
<1>3. CASE topic # "audit"
  <2>1. Stamps(d) = NumberStamps(d)
    BY <1>3 DEF Stamps
  <2>2. Rows(d) \subseteq Key /\ \A x \in Rows(d) : Stamps(d)[x] = d.at[x]
    BY <2>1 DEF Rows, NumberStamps
  <2>3. IsFiniteSet(Rows(d))
    BY <2>2, KeysAreFinite, FS_Subset
  <2> QED BY <1>1, <2>2, <2>3 DEF Rows
<1> QED BY <1>2, <1>3

\* As the database grows, a row whose stamp is kept has no fewer rows before it,
\* unless some have gone.
LEMMA NoFewerAbove ==
    ASSUME NEW d \in Databases, NEW e \in Databases, Grown(d, e),
           Rows(d) \subseteq Rows(e), NEW k \in Rows(d), Stamps(d)[k] = Stamps(e)[k]
    PROVE  Cardinality(Above(Stamps(d), k)) <= Cardinality(Above(Stamps(e), k))
<1>0. /\ Rows(d) = DOMAIN Stamps(d) /\ Rows(e) = DOMAIN Stamps(e)
      /\ IsFiniteSet(Rows(e))
      /\ \A x \in Rows(d) : Stamps(d)[x] \in Int
      /\ \A x \in Rows(e) : Stamps(e)[x] \in Int
  BY StampsTyped
<1>1. \A x \in Rows(d) : Stamps(d)[x] <= Stamps(e)[x]
  <2>1. CASE topic = "audit"
    <3>1. Stamps(d) = d.audit /\ Stamps(e) = e.audit
      BY <2>1 DEF Stamps, AuditStamps
    <3>2. Rows(d) = 1..Len(d.audit)
      BY <3>1, DatabaseFields DEF Rows
    <3>3. \A x \in Rows(d) : Stamps(e)[x] = Stamps(d)[x]
      BY <3>1, <3>2 DEF Grown
    <3> QED BY <1>0, <3>3
  <2>2. CASE topic # "audit"
    <3>1. Stamps(d) = NumberStamps(d) /\ Stamps(e) = NumberStamps(e)
      BY <2>2 DEF Stamps
    <3>2. \A x \in Rows(d) : x \in Key /\ Stamps(d)[x] = d.at[x]
      BY <3>1 DEF Rows, NumberStamps
    <3>3. \A x \in Rows(e) : Stamps(e)[x] = e.at[x]
      BY <3>1 DEF Rows, NumberStamps
    <3> QED BY <3>2, <3>3 DEF Grown
  <2> QED BY <2>1, <2>2
<1>2. Above(Stamps(d), k) \subseteq Above(Stamps(e), k)
  <2> SUFFICES ASSUME NEW x \in Above(Stamps(d), k) PROVE x \in Above(Stamps(e), k)
    OBVIOUS
  <2>1. x \in Rows(d) /\ Stamps(d)[x] > Stamps(d)[k]
    BY <1>0 DEF Above
  <2>2. x \in Rows(e) /\ Stamps(e)[x] > Stamps(e)[k]
    <3> DEFINE a == Stamps(d)[x]
               b == Stamps(e)[x]
               c == Stamps(d)[k]
    <3>1. a \in Int /\ b \in Int /\ c \in Int /\ a > c /\ a <= b /\ c = Stamps(e)[k]
      BY <1>0, <1>1, <2>1
    <3> HIDE DEF a, b, c
    <3>2. b > c
      BY <3>1
    <3> QED BY <2>1, <3>1, <3>2 DEF a, b, c
  <2> QED BY <1>0, <2>2 DEF Above
<1>3. IsFiniteSet(Above(Stamps(e), k))
  BY <1>0, FS_Subset DEF Above
<1> QED BY <1>2, <1>3, FS_Subset

\* What a page is about is settled when the walk begins.
LEMMA StampsStay ==
    ASSUME topic' = topic, req'.filter = req.filter
    PROVE  \A d : Stamps(d)' = Stamps(d) /\ Rows(d)' = Rows(d)
BY DEF Stamps, Rows, NumberStamps, AuditStamps

\* What changes by others leave of a walk.
LEMMA WalkMoved ==
    ASSUME Typed, Typed', Posed, Moved, WalkInv
    PROVE  WalkInv'
<1> SUFFICES ASSUME topic' \in {"numbers", "audit"}, req' # Idle
             PROVE  WalkInv'
  BY DEF WalkInv
<1>0. topic' = topic /\ topic \in {"numbers", "audit"} /\ req # Idle
  BY DEF Moved
<1>1. /\ DOMAIN req' = DOMAIN req
      /\ \A x \in DOMAIN req \ {"moments", "grew", "shrank", "overtaken"} : req'[x] = req[x]
      /\ req.moments \subseteq req'.moments
      /\ Source' \in req'.moments
  BY <1>0, Carried
<1>2. /\ {"filter", "size", "page", "total", "seen"} \subseteq DOMAIN req
      /\ {"pc", "moments", "grew", "shrank", "overtaken"} \subseteq DOMAIN req
      /\ Source \in req.moments
  BY <1>0 DEF WalkInv, Posed
<1>3. /\ req'.filter = req.filter /\ req'.size = req.size /\ req'.page = req.page
      /\ req'.total = req.total /\ req'.seen = req.seen /\ req'.pc = req.pc
  BY <1>1, <1>2
<1>4. \A d : Stamps(d)' = Stamps(d) /\ Rows(d)' = Rows(d)
  BY <1>0, <1>3, StampsStay
<1>5. Passed' = Passed
  BY <1>3 DEF Passed
<1>6. /\ ~ req'.shrank => ~ req.shrank /\ Rows(Source) \subseteq Rows(Source')
      /\ ~ req'.grew => ~ req.grew /\ Rows(Source') \subseteq Rows(Source)
  <2> DEFINE e == Source'
  <2>1. CASE req' = req /\ Source' = Source
    BY <2>1
  <2>2. CASE Source' = Source /\ \E b : req' = [req EXCEPT !.overtaken = b]
    <3>1. req'.shrank = req.shrank /\ req'.grew = req.grew
      BY <1>2, <2>2
    <3> QED BY <2>2, <3>1
  <2>3. CASE req' = Noticed(Source, e)
    <3> HIDE DEF e
    <3>1. /\ req'.shrank = (req.shrank \/ ~ Rows(Source) \subseteq Rows(e))
          /\ req'.grew = (req.grew \/ ~ Rows(e) \subseteq Rows(Source))
      BY <1>0, <1>2, <2>3 DEF Noticed
    <3> QED BY <3>1 DEF e
  <2> QED BY <1>0, <2>1, <2>2, <2>3 DEF Moved
<1>7. Source \in Databases /\ Source' \in Databases /\ Grown(Source, Source')
  BY SourceTyped DEF Moved, Typed, Source
<1>8. ASSUME ~ req'.shrank, NEW k \in Rows(Source'), Steady(k)'
      PROVE  k \in req.seen \/ Cardinality(Above(Stamps(Source'), k)) >= Passed
  <2> DEFINE d == Source
             e == Source'
  <2>1. \A c, f \in req'.moments :
          /\ k \in Rows(c)
          /\ Stamps(c)[k] = Stamps(f)[k]
          /\ \A x \in Rows(c) \ {k} : Stamps(c)[x] # Stamps(c)[k]
    BY <1>4, <1>8 DEF Steady
  <2>2. Steady(k)
    BY <1>1, <2>1 DEF Steady
  <2>3. k \in Rows(d) /\ Stamps(d)[k] = Stamps(e)[k]
    BY <1>1, <1>2, <2>1
  <2>4. k \in req.seen \/ Cardinality(Above(Stamps(d), k)) >= Passed
    BY <1>0, <1>6, <1>8, <2>2, <2>3 DEF WalkInv
  <2>5. Cardinality(Above(Stamps(d), k)) <= Cardinality(Above(Stamps(e), k))
    BY <1>6, <1>7, <1>8, <2>3, NoFewerAbove
  <2>6. /\ Cardinality(Above(Stamps(d), k)) \in Nat /\ Cardinality(Above(Stamps(e), k)) \in Nat
        /\ Passed \in Int
    <3>1. IsFiniteSet(Above(Stamps(d), k)) /\ IsFiniteSet(Above(Stamps(e), k))
      BY <1>7, StampsTyped, FS_Subset DEF Above
    <3>2. Passed \in Int
      BY <1>0 DEF WalkInv, Passed
    <3> QED BY <3>1, <3>2, FS_CardinalityType
  <2> QED BY <2>4, <2>5, <2>6
<1>9. req'.pc \in {"page", "answered"} /\ ~ req'.grew /\ ~ req'.shrank =>
        Cardinality(Rows(Source')) = req'.total
  BY <1>0, <1>3, <1>6 DEF WalkInv
<1> QED BY <1>0, <1>1, <1>2, <1>3, <1>4, <1>5, <1>8, <1>9 DEF WalkInv

\* A page size that was not asked for properly is the default one.
LEMMA PageSizeTyped == ASSUME NEW asked PROVE PageSize(asked) \in Nat \ {0}
BY PageSizes DEF PageSize

\* A walk begins at the first page.
LEMMA WalkBegins ==
    ASSUME Typed, topic \in {"numbers", "audit"}, NEW filter, NEW n, Walk(topic, filter, n)
    PROVE  WalkInv'
<1> DEFINE fields == [filter |-> filter, size |-> PageSize(n), page |-> 1, total |-> 0, seen |-> {}]
<1>1. Begin(topic, "count", fields)
  BY DEF Walk
<1>2. /\ DOMAIN fields = {"filter", "size", "page", "total", "seen"}
      /\ fields.filter = filter /\ fields.size = PageSize(n) /\ fields.page = 1
      /\ fields.total = 0 /\ fields.seen = {}
  OBVIOUS
<1> HIDE DEF fields
<1>3. /\ DOMAIN req' = {"pc", "moments", "grew", "shrank", "overtaken"} \cup DOMAIN fields
      /\ req'.pc = "count"
      /\ \A x \in DOMAIN fields \ {"pc", "moments", "grew", "shrank", "overtaken"} :
             req'[x] = fields[x]
      /\ UNCHANGED <<topic, db, replica>>
  BY <1>1, BeginShape
<1>4. /\ req'.size = PageSize(n) /\ req'.page = 1 /\ req'.total = 0
      /\ {"filter", "size", "page", "total", "seen"} \subseteq DOMAIN req'
  BY <1>2, <1>3
<1>5. Passed' = 0
  <2>1. PageSize(n) \in Nat
    BY PageSizeTyped
  <2>2. 0 * PageSize(n) = 0
    BY <2>1
  <2> QED BY <1>3, <1>4, <2>2 DEF Passed
<1>6. Source' = Source /\ Source \in Databases /\ topic' = topic
  BY <1>3, SourceTyped DEF Source, OnReplica
<1>7. \A k : (Cardinality(Above(Stamps(Source), k)) >= Passed)'
  <2> SUFFICES ASSUME NEW k PROVE (Cardinality(Above(Stamps(Source), k)) >= Passed)'
    OBVIOUS
  <2> DEFINE stamp == Stamps(Source)'
  <2>1. IsFiniteSet(DOMAIN stamp)
    <3>1. CASE topic = "audit"
      <4>1. stamp = Source.audit
        BY <1>6, <3>1 DEF Stamps, AuditStamps
      <4>2. IsFiniteSet(1..Len(Source.audit)) /\ DOMAIN Source.audit = 1..Len(Source.audit)
        BY <1>6, DatabaseFields, FS_Interval
      <4> QED BY <4>1, <4>2
    <3>2. CASE topic # "audit"
      <4>1. stamp = NumberStamps(Source)'
        BY <1>6, <3>2 DEF Stamps
      <4>2. DOMAIN stamp \subseteq Key
        BY <4>1 DEF NumberStamps
      <4> QED BY <4>2, KeysAreFinite, FS_Subset
    <3> QED BY <3>1, <3>2
  <2>2. Above(stamp, k) \subseteq DOMAIN stamp
    BY DEF Above
  <2>3. Cardinality(Above(stamp, k)) \in Nat
    BY <2>1, <2>2, FS_Subset, FS_CardinalityType
  <2> QED BY <1>5, <2>3
<1> QED BY <1>3, <1>4, <1>7, PageSizeTyped DEF WalkInv

\* What a step from one statement of the walk to the next leaves.
LEMMA WalkKeeps ==
    ASSUME Posed, WalkInv, topic \in {"numbers", "audit"}, req # Idle,
           NEW pc, NEW fields, To(pc, fields),
           DOMAIN fields \subseteq {"total", "grew", "seen", "page"}
    PROVE  /\ {"filter", "size", "page", "total", "seen"} \subseteq DOMAIN req'
           /\ req'.size = req.size /\ req'.moments = req.moments
           /\ req'.shrank = req.shrank
           /\ topic' = topic /\ Source' = Source
           /\ \A d : Stamps(d)' = Stamps(d) /\ Rows(d)' = Rows(d)
           /\ \A k : Steady(k)' = Steady(k)
<1>1. /\ DOMAIN req' = DOMAIN req \cup DOMAIN fields
      /\ \A x \in DOMAIN req \ DOMAIN fields : x # "pc" => req'[x] = req[x]
      /\ UNCHANGED <<topic, db, replica>>
  <2>1. "pc" \notin DOMAIN fields
    OBVIOUS
  <2> QED BY <2>1, ToShape
<1>2. /\ {"filter", "size", "page", "total", "seen"} \subseteq DOMAIN req
      /\ {"pc", "moments", "grew", "shrank", "overtaken"} \subseteq DOMAIN req
  BY DEF WalkInv, Posed
<1>3. /\ req'.size = req.size /\ req'.moments = req.moments /\ req'.shrank = req.shrank
      /\ req'.filter = req.filter
  BY <1>1, <1>2
<1>4. \A d : Stamps(d)' = Stamps(d) /\ Rows(d)' = Rows(d)
  BY <1>1, <1>3, StampsStay
<1>5. \A k : Steady(k)' = Steady(k)
  BY <1>3, <1>4 DEF Steady
<1> QED BY <1>1, <1>2, <1>3, <1>4, <1>5 DEF Source, OnReplica

\* The COUNT.
LEMMA WalkCounts ==
    ASSUME Typed, Posed, WalkInv, topic \in {"numbers", "audit"}, WalkCount
    PROVE  WalkInv'
<1> DEFINE fields == [total |-> Cardinality(Rows(Source)), grew |-> FALSE]
<1>0. req.pc = "count" /\ req # Idle /\ To("page", fields)
  BY DEF WalkCount, Idle
<1>1. /\ DOMAIN fields = {"total", "grew"} /\ fields.total = Cardinality(Rows(Source))
  OBVIOUS
<1> HIDE DEF fields
<1>2. /\ {"filter", "size", "page", "total", "seen"} \subseteq DOMAIN req'
      /\ req'.size = req.size /\ req'.shrank = req.shrank
      /\ topic' = topic /\ Source' = Source
      /\ \A d : Stamps(d)' = Stamps(d) /\ Rows(d)' = Rows(d)
      /\ \A k : Steady(k)' = Steady(k)
  BY <1>0, <1>1, WalkKeeps
<1>3. /\ req'.pc = "page"
      /\ \A x \in DOMAIN fields : req'[x] = fields[x]
      /\ \A x \in DOMAIN req \ DOMAIN fields : x # "pc" => req'[x] = req[x]
  BY <1>0, <1>1, ToShape
<1>4. /\ {"filter", "size", "page", "total", "seen"} \subseteq DOMAIN req
      /\ req.size \in Nat \ {0} /\ req.page \in Nat \ {0}
  BY <1>0 DEF WalkInv
<1>5. /\ req'.total = Cardinality(Rows(Source)) /\ req'.page = req.page
      /\ req'.seen = req.seen
  BY <1>1, <1>3, <1>4
<1>6. Cardinality(Rows(Source)) \in Nat
  BY SourceTyped, StampsTyped, FS_CardinalityType
<1>7. Passed' = Passed
  BY <1>0, <1>2, <1>3, <1>5 DEF Passed
<1>8. ASSUME ~ req'.shrank, NEW k \in Rows(Source), Steady(k)
      PROVE  k \in req.seen \/ Cardinality(Above(Stamps(Source), k)) >= Passed
  BY <1>0, <1>2, <1>8 DEF WalkInv
<1> QED BY <1>2, <1>3, <1>4, <1>5, <1>6, <1>7, <1>8 DEF WalkInv

\* A page.
LEMMA WalkTurns ==
    ASSUME Typed, Posed, WalkInv, topic \in {"numbers", "audit"}, WalkPage
    PROVE  WalkInv'
<1>0. req.pc = "page" /\ req # Idle
  BY DEF WalkPage, Idle
<1>1. PICK rows \in Pages(Stamps(Source), req.page, req.size) :
        LET seen == req.seen \cup rows IN
          IF req.page < TotalPages(req.total, req.size)
          THEN To("count", [seen |-> seen, page |-> req.page + 1])
          ELSE To("answered", [seen |-> seen])
  BY DEF WalkPage
<1> DEFINE seen == req.seen \cup rows
           more == req.page < TotalPages(req.total, req.size)
           f == [seen |-> seen, page |-> req.page + 1]
           g == [seen |-> seen]
<1>2. IF more THEN To("count", f) ELSE To("answered", g)
  BY <1>1
<1>3. /\ DOMAIN f = {"seen", "page"} /\ f.seen = seen /\ f.page = req.page + 1
      /\ DOMAIN g = {"seen"} /\ g.seen = seen
  OBVIOUS
<1> HIDE DEF f, g
<1>4. /\ {"filter", "size", "page", "total", "seen"} \subseteq DOMAIN req'
      /\ req'.size = req.size /\ req'.shrank = req.shrank
      /\ topic' = topic /\ Source' = Source
      /\ \A d : Stamps(d)' = Stamps(d) /\ Rows(d)' = Rows(d)
      /\ \A k : Steady(k)' = Steady(k)
  <2>1. CASE more
    BY <1>0, <1>2, <1>3, <2>1, WalkKeeps
  <2>2. CASE ~ more
    BY <1>0, <1>2, <1>3, <2>2, WalkKeeps
  <2> QED BY <2>1, <2>2
<1>5. /\ {"filter", "size", "page", "total", "seen"} \subseteq DOMAIN req
      /\ {"pc", "moments", "grew", "shrank", "overtaken"} \subseteq DOMAIN req
      /\ req.size \in Nat \ {0} /\ req.page \in Nat \ {0} /\ req.total \in Nat
      /\ Source \in req.moments
  BY <1>0 DEF WalkInv, Posed
<1>6. /\ req'.seen = seen /\ req'.total = req.total /\ req'.grew = req.grew
      /\ IF more THEN req'.pc = "count" /\ req'.page = req.page + 1
                 ELSE req'.pc = "answered" /\ req'.page = req.page
  <2>1. CASE more
    <3>1. /\ req'.pc = "count" /\ \A x \in DOMAIN f : req'[x] = f[x]
          /\ \A x \in DOMAIN req \ DOMAIN f : x # "pc" => req'[x] = req[x]
      BY <1>0, <1>2, <1>3, <2>1, ToShape
    <3> QED BY <1>3, <1>5, <2>1, <3>1
  <2>2. CASE ~ more
    <3>1. /\ req'.pc = "answered" /\ \A x \in DOMAIN g : req'[x] = g[x]
          /\ \A x \in DOMAIN req \ DOMAIN g : x # "pc" => req'[x] = req[x]
      BY <1>0, <1>2, <1>3, <2>2, ToShape
    <3> QED BY <1>3, <1>5, <2>2, <3>1
  <2> QED BY <2>1, <2>2
<1>7. Passed' = req.page * req.size
  BY <1>4, <1>5, <1>6 DEF Passed
<1>8. ASSUME ~ req'.shrank, NEW k \in Rows(Source), Steady(k)
      PROVE  k \in seen \/ Cardinality(Above(Stamps(Source), k)) >= req.page * req.size
  <2> SUFFICES ASSUME k \notin seen
               PROVE  Cardinality(Above(Stamps(Source), k)) >= req.page * req.size
    OBVIOUS
  <2>1. Cardinality(Above(Stamps(Source), k)) >= (req.page - 1) * req.size
    BY <1>0, <1>4, <1>8 DEF WalkInv, Passed
  <2>2. Alone(Stamps(Source), k)
    BY <1>5, <1>8 DEF Steady, Alone, Rows
  <2>3. /\ IsFiniteSet(DOMAIN Stamps(Source))
        /\ \A x \in DOMAIN Stamps(Source) : Stamps(Source)[x] \in Int
    BY SourceTyped, StampsTyped
  <2> QED BY <1>1, <1>5, <2>1, <2>2, <2>3, OnThePage
<1>9. ~ req'.grew /\ ~ req'.shrank => Cardinality(Rows(Source)) = req.total
  BY <1>0, <1>4, <1>6 DEF WalkInv
<1>10. req'.page \in Nat \ {0}
  BY <1>5, <1>6
<1>11. req'.pc = "answered" => ~ more /\ req'.page = req.page
  BY <1>6
<1> HIDE DEF seen
<1> QED BY <1>4, <1>5, <1>6, <1>7, <1>8, <1>9, <1>10, <1>11 DEF WalkInv

\* Every step of the walk keeps its invariant.
LEMMA WalkStep ==
    ASSUME Typed, Typed', DatabaseInv, Posed, WalkInv, [Next]_vars
    PROVE  WalkInv'
<1>1. CASE Others
  BY <1>1, OthersMove, WalkMoved
<1>2. CASE Requests
  <2>1. topic' = topic
    BY <1>2, RequestsPosed
  <2>2. CASE topic \notin {"numbers", "audit"}
    BY <2>1, <2>2 DEF WalkInv
  <2>3. CASE topic \in {"numbers", "audit"}
    <3>1. \/ Fail \/ WalkCount \/ WalkPage
          \/ \E n \in AskedSizes, filter \in {"all", "active"} : Walk(topic, filter, n)
      BY <1>2, <2>3, OnTopic
    <3>2. Fail => WalkInv'
      BY DEF Fail, WalkInv
    <3> QED BY <2>3, <3>1, <3>2, WalkBegins, WalkCounts, WalkTurns
  <2> QED BY <2>2, <2>3
<1>3. CASE UNCHANGED vars
  <2>1. topic' = topic /\ req' = req /\ db' = db /\ replica' = replica
    BY <1>3 DEF vars
  <2>2. Source' = Source
    BY <2>1 DEF Source, OnReplica
  <2>3. \A d : Stamps(d)' = Stamps(d) /\ Rows(d)' = Rows(d)
    BY <2>1 DEF Stamps, Rows, NumberStamps, AuditStamps
  <2> QED BY <2>1, <2>2, <2>3 DEF WalkInv, Passed, Steady
<1> QED BY <1>1, <1>2, <1>3 DEF Next

\* At the end of a walk what was steady was seen.
LEMMA WalkEnds ==
    ASSUME Typed, Posed, WalkInv
    PROVE  WalkSeesUntouched
<1> SUFFICES ASSUME topic \in {"numbers", "audit"}, req.pc = "answered",
                    ~ req.grew, ~ req.shrank, NEW k, Steady(k)
             PROVE  k \in req.seen
  <2>1. \A k : (\A d, e \in req.moments :
                    /\ k \in Rows(d)
                    /\ Stamps(d)[k] = Stamps(e)[k]
                    /\ \A x \in Rows(d) \ {k} : Stamps(d)[x] # Stamps(d)[k]) => Steady(k)
    BY DEF Steady
  <2> QED BY <2>1 DEF WalkSeesUntouched, Answered
<1>1. req # Idle /\ Source \in req.moments
  BY DEF Idle, Posed
<1>2. k \in Rows(Source) /\ Alone(Stamps(Source), k)
  BY <1>1 DEF Steady, Alone, Rows
<1>3. /\ req.size \in Nat \ {0} /\ req.page \in Nat \ {0} /\ req.total \in Nat
      /\ k \in req.seen \/ Cardinality(Above(Stamps(Source), k)) >= req.page * req.size
      /\ Cardinality(Rows(Source)) = req.total
      /\ ~ (req.page < TotalPages(req.total, req.size))
  BY <1>1, <1>2 DEF WalkInv, Passed
<1>4. req.page * req.size >= req.total
  BY <1>3, PagesHoldAll
<1>5. Cardinality(Above(Stamps(Source), k)) < req.total
  BY <1>2, <1>3, SourceTyped, StampsTyped, FewerAbove
<1> DEFINE a == Cardinality(Above(Stamps(Source), k))
           b == req.page * req.size
<1>6. a \in Int /\ b \in Int
  BY <1>2, <1>3, SourceTyped, StampsTyped, FewerAbove
<1> HIDE DEF a, b
<1>7. ~ (a >= b)
  BY <1>3, <1>4, <1>5, <1>6 DEF a, b
<1> QED BY <1>3, <1>7 DEF a, b

-----------------------------------------------------------------------------
(* Views.                                                                  *)

\* The first n of some reads.
FirstReads(reads, n) == {reads[i] : i \in 1..n}

\* Reads that differ are as many as there are.
LEMMA ReadsCount ==
    ASSUME NEW reads, NEW n \in Nat, \A i, j \in 1..n : reads[i] = reads[j] => i = j
    PROVE  Cardinality(FirstReads(reads, n)) = n
<1> DEFINE T == FirstReads(reads, n)
           f == [i \in 1..n |-> reads[i]]
<1>1. f \in [1..n -> T]
  BY DEF FirstReads
<1>2. f \in Surjection(1..n, T)
  BY <1>1 DEF Surjection, FirstReads
<1>3. f \in Injection(1..n, T)
  BY <1>1 DEF Injection, IsInjective
<1>4. IsFiniteSet(1..n) /\ Cardinality(1..n) = n
  BY FS_Interval
<1> HIDE DEF f, T
<1>5. Cardinality(T) = Cardinality(1..n)
  BY <1>2, <1>3, <1>4, FS_Surjection
<1> QED BY <1>4, <1>5 DEF T

\* One more read.
LEMMA NextRead ==
    ASSUME NEW reads, NEW n \in Nat
    PROVE  FirstReads(reads, n + 1) = FirstReads(reads, n) \cup {reads[n + 1]}
<1>1. 1..n + 1 = 1..n \cup {n + 1}
  OBVIOUS
<1> QED BY <1>1 DEF FirstReads

\* Once all are read, the view has them all.
LEMMA AllRead ==
    /\ FirstReads(SummaryReads, 6) = ToSet(SummaryReads)
    /\ FirstReads(SummaryReads, 6)
         = {"total", "byDataset", "byChannel", "queries", "hits", "byHour"}
    /\ FirstReads(ComplianceReads, 3) = {"total", "byDataset", "queries"}
    /\ Len(SummaryReads) = 6 /\ Len(ComplianceReads) = 3
<1>1. Len(SummaryReads) = 6 /\ Len(ComplianceReads) = 3 /\ DOMAIN SummaryReads = 1..6
  BY DEF SummaryReads, ComplianceReads
<1>2. 1..6 = {1, 2, 3, 4, 5, 6} /\ 1..3 = {1, 2, 3}
  OBVIOUS
<1>3. FirstReads(SummaryReads, 6) = ToSet(SummaryReads)
  BY <1>1 DEF FirstReads, ToSet
<1>4. FirstReads(SummaryReads, 6)
        = {"total", "byDataset", "byChannel", "queries", "hits", "byHour"}
  BY <1>2 DEF FirstReads, SummaryReads
<1>5. FirstReads(ComplianceReads, 3) = {"total", "byDataset", "queries"}
  BY <1>2 DEF FirstReads, ComplianceReads
<1> QED BY <1>1, <1>3, <1>4, <1>5

\* No statement is issued twice.
LEMMA ReadsDiffer ==
    /\ \A i, j \in 1..6 : SummaryReads[i] = SummaryReads[j] => i = j
    /\ \A i, j \in 1..3 : ComplianceReads[i] = ComplianceReads[j] => i = j
BY DEF SummaryReads, ComplianceReads

\* How many there are after n of them.
LEMMA ReadsSoFar ==
    /\ \A n \in 0..6 : Cardinality(FirstReads(SummaryReads, n)) = n
    /\ \A n \in 0..3 : Cardinality(FirstReads(ComplianceReads, n)) = n
<1>1. ASSUME NEW n \in 0..6 PROVE Cardinality(FirstReads(SummaryReads, n)) = n
  <2>1. n \in Nat /\ \A i, j \in 1..n : SummaryReads[i] = SummaryReads[j] => i = j
    BY ReadsDiffer
  <2> QED BY <2>1, ReadsCount
<1>2. ASSUME NEW n \in 0..3 PROVE Cardinality(FirstReads(ComplianceReads, n)) = n
  <2>1. n \in Nat /\ \A i, j \in 1..n : ComplianceReads[i] = ComplianceReads[j] => i = j
    BY ReadsDiffer
  <2> QED BY <2>1, ReadsCount
<1> QED BY <1>1, <1>2

\* Which counts come before the hours.
LEMMA HoursComeLast ==
    ASSUME NEW n \in 0..5
    PROVE  /\ SummaryReads[n + 1] # "byHour" => "byHour" \notin FirstReads(SummaryReads, n + 1)
           /\ SummaryReads[n + 1] = "byHour" => FirstReads(SummaryReads, n + 1) = FirstReads(SummaryReads, 6)
<1>1. /\ SummaryReads[6] = "byHour"
      /\ \A i \in 1..6 : SummaryReads[i] = "byHour" => i = 6
  BY ReadsDiffer DEF SummaryReads
<1> QED BY <1>1 DEF FirstReads

\* The counts of the list depend on the list.
LEMMA ListCounts ==
    ASSUME NEW d, NEW e, d.dno = e.dno, NEW x \in {"total", "byDataset", "byChannel"}
    PROVE  View(d)[x] = View(e)[x]
BY DEF View

-----------------------------------------------------------------------------
(* Recursion over numbers.                                                 *)

\* Every inhabited set of numbers has a least one.
LEMMA LeastNumber ==
    ASSUME NEW T, T \subseteq Nat, T # {}
    PROVE  \E m \in T : \A k \in T : m <= k
<1> DEFINE R == OpToRel(<, Nat)
<1>1. \A x, y \in Nat : <<x, y>> \in R <=> x < y
  BY DEF OpToRel
<1>2. IsWellFoundedOn(R, Nat)
  BY NatLessThanWellFounded
<1> HIDE DEF R
<1>3. PICK m \in T : \A k \in T : ~ (<<k, m>> \in R)
  BY <1>2, WFMin
<1>4. ASSUME NEW k \in T PROVE m <= k
  <2>1. m \in Nat /\ k \in Nat /\ ~ (<<k, m>> \in R)
    BY <1>3
  <2>2. ~ (k < m)
    BY <1>1, <2>1
  <2> QED BY <2>1, <2>2
<1> QED BY <1>4

\* A set that has zero and with each number the next has all numbers.
LEMMA Induction ==
    ASSUME NEW T, 0 \in T, \A n \in T \cap Nat : n + 1 \in T
    PROVE  Nat \subseteq T
<1> SUFFICES ASSUME Nat \ T # {} PROVE FALSE
  OBVIOUS
<1>1. PICK m \in Nat \ T : \A k \in Nat \ T : m <= k
  BY LeastNumber
<1>2. m # 0 /\ m - 1 \in Nat /\ m - 1 \in T
  BY <1>1
<1>3. m \in T
  BY <1>2
<1> QED BY <1>1, <1>3

\* f begins with base and goes to N by its steps.
Path(f, N, base, step) ==
    /\ f = [i \in 0..N |-> f[i]]
    /\ f[0] = base
    /\ \A i \in 1..N : f[i] = step[i][f[i - 1]]

\* There is such a function.
LEMMA PathExists ==
    ASSUME NEW N \in Nat, NEW base, NEW step
    PROVE  \E f : Path(f, N, base, step)
<1> DEFINE T == {n \in Nat : \E f : Path(f, n, base, step)}
<1>1. 0 \in T
  <2> DEFINE g == [i \in 0..0 |-> base]
  <2>1. Path(g, 0, base, step)
    BY DEF Path
  <2> QED BY <2>1
<1>2. ASSUME NEW n \in T \cap Nat PROVE n + 1 \in T
  <2>1. PICK f : Path(f, n, base, step)
    BY <1>2
  <2> DEFINE g == [i \in 0..n + 1 |-> IF i <= n THEN f[i] ELSE step[n + 1][f[n]]]
  <2>2. /\ g = [i \in 0..n + 1 |-> g[i]] /\ \A i \in 0..n : g[i] = f[i]
        /\ g[n + 1] = step[n + 1][f[n]] /\ 0 \in 0..n
    OBVIOUS
  <2> HIDE DEF g
  <2>3. g[0] = base
    BY <2>1, <2>2 DEF Path
  <2>4. ASSUME NEW i \in 1..n + 1 PROVE g[i] = step[i][g[i - 1]]
    <3>1. CASE i \in 1..n
      <4>1. i \in 0..n /\ i - 1 \in 0..n
        BY <3>1
      <4> QED BY <2>1, <2>2, <3>1, <4>1 DEF Path
    <3>2. CASE i = n + 1
      <4>1. i - 1 = n /\ n \in 0..n
        BY <3>2
      <4> QED BY <2>2, <3>2, <4>1
    <3> QED BY <3>1, <3>2
  <2>5. Path(g, n + 1, base, step)
    BY <2>2, <2>3, <2>4 DEF Path
  <2> QED BY <2>5
<1> HIDE DEF T
<1>3. N \in T
  BY <1>1, <1>2, Induction
<1> QED BY <1>3 DEF T

\* What each step keeps is so all the way.
LEMMA AllTheWay ==
    ASSUME NEW N \in Nat, NEW at, NEW f, f[0] \in at[0],
           \A i \in 1..N : f[i - 1] \in at[i - 1] => f[i] \in at[i]
    PROVE  \A i \in 0..N : f[i] \in at[i]
<1> DEFINE T == {n \in Nat : n <= N => f[n] \in at[n]}
<1>1. 0 \in T
  OBVIOUS
<1>2. ASSUME NEW n \in T \cap Nat PROVE n + 1 \in T
  <2> SUFFICES ASSUME n + 1 <= N PROVE f[n + 1] \in at[n + 1]
    OBVIOUS
  <2> DEFINE i == n + 1
  <2>1. i \in 1..N /\ i - 1 = n /\ f[n] \in at[n]
    BY <1>2
  <2> HIDE DEF i, T
  <2>2. f[i] \in at[i]
    BY <2>1
  <2> QED BY <2>2 DEF i
<1> HIDE DEF T
<1>3. Nat \subseteq T
  BY <1>1, <1>2, Induction
<1> QED BY <1>3 DEF T

-----------------------------------------------------------------------------
(* Counts by group.                                                        *)

\* Where each member is of one of two kinds, their counts add up.
LEMMA TwoKinds ==
    ASSUME NEW A, IsFiniteSet(A), NEW B, NEW C, A = B \cup C, B \cap C = {}
    PROVE  /\ IsFiniteSet(B) /\ IsFiniteSet(C)
           /\ Cardinality(B) \in Nat /\ Cardinality(C) \in Nat
           /\ Cardinality(A) = Cardinality(B) + Cardinality(C)
<1>1. IsFiniteSet(B) /\ IsFiniteSet(C)
  BY FS_Subset
<1>2. Cardinality(B) \in Nat /\ Cardinality(C) \in Nat /\ Cardinality({}) = 0
  BY <1>1, FS_CardinalityType, FS_EmptySet
<1>3. Cardinality(B \cup C) = Cardinality(B) + Cardinality(C) - Cardinality(B \cap C)
  BY <1>1, FS_Union
<1>4. Cardinality(A) = Cardinality(B) + Cardinality(C)
  <2>1. Cardinality(A) = Cardinality(B) + Cardinality(C) - 0
    BY <1>2, <1>3
  <2> QED BY <1>2, <2>1
<1> QED BY <1>1, <1>2, <1>4

\* The members of A whose column is g, and the counts of all such groups.
InGroup(A, col, g) == {k \in A : col[k] = g}

Groups(A, col) == [g \in {col[k] : k \in A} |-> Cardinality(InGroup(A, col, g))]

\* The counts of the groups are those of the rows in them.
LEMMA GroupCounts ==
    ASSUME NEW A, NEW col, NEW g
    PROVE  Group(Groups(A, col), g) = Cardinality(InGroup(A, col, g))
<1>1. DOMAIN Groups(A, col) = {col[k] : k \in A}
  BY DEF Groups
<1>2. CASE g \in DOMAIN Groups(A, col)
  <2>1. Groups(A, col)[g] = Cardinality(InGroup(A, col, g))
    BY <1>1, <1>2 DEF Groups
  <2> QED BY <1>2, <2>1 DEF Group
<1>3. CASE g \notin DOMAIN Groups(A, col)
  <2>1. InGroup(A, col, g) = {}
    BY <1>1, <1>3 DEF InGroup
  <2>2. Cardinality(InGroup(A, col, g)) = 0
    BY <2>1, FS_EmptySet
  <2> QED BY <1>3, <2>2 DEF Group
<1> QED BY <1>2, <1>3

\* Where every row is in one of the datasets, the groups add up to the rows.
LEMMA DatasetsAddUp ==
    ASSUME NEW A, IsFiniteSet(A), NEW col, \A k \in A : col[k] \in Dataset
    PROVE  OfDatasets(Groups(A, col)) = Cardinality(A)
<1> DEFINE groups == Groups(A, col)
           In(g) == InGroup(A, col, g)
           auto == In("auto")
           subscriber == In("subscriber")
           itg == In("itg")
           tss == In("tss_registry")
           later == subscriber \cup (itg \cup tss)
<1>1. ASSUME NEW g PROVE Group(groups, g) = Cardinality(In(g))
  BY GroupCounts
<1>2. A = auto \cup later /\ auto \cap later = {}
      /\ subscriber \cap (itg \cup tss) = {} /\ itg \cap tss = {}
  BY DEF Dataset, InGroup
<1>3. OfDatasets(groups) = Cardinality(auto) + Cardinality(subscriber)
                             + Cardinality(itg) + Cardinality(tss)
  <2> HIDE DEF groups, In
  <2> QED BY <1>1 DEF OfDatasets
<1> HIDE DEF groups, auto, subscriber, itg, tss
<1>4. /\ IsFiniteSet(later) /\ Cardinality(auto) \in Nat
      /\ Cardinality(A) = Cardinality(auto) + Cardinality(later)
  <2> HIDE DEF later
  <2> QED BY <1>2, TwoKinds
<1>5. /\ IsFiniteSet(itg \cup tss) /\ Cardinality(subscriber) \in Nat
      /\ Cardinality(later) = Cardinality(subscriber) + Cardinality(itg \cup tss)
  <2> DEFINE late == itg \cup tss
  <2>1. IsFiniteSet(later) /\ later = subscriber \cup late /\ subscriber \cap late = {}
    BY <1>2, <1>4
  <2> HIDE DEF later, late
  <2>2. /\ IsFiniteSet(late) /\ Cardinality(subscriber) \in Nat
        /\ Cardinality(later) = Cardinality(subscriber) + Cardinality(late)
    BY <2>1, TwoKinds
  <2> QED BY <2>2 DEF late
<1>6. /\ Cardinality(itg) \in Nat /\ Cardinality(tss) \in Nat
      /\ Cardinality(itg \cup tss) = Cardinality(itg) + Cardinality(tss)
  BY <1>2, <1>5, TwoKinds
<1> HIDE DEF later
<1>7. OfDatasets(groups) = Cardinality(A)
  BY <1>3, <1>4, <1>5, <1>6
<1> QED BY <1>7 DEF groups

\* So it is with the channels.
LEMMA ChannelsAddUp ==
    ASSUME NEW A, IsFiniteSet(A), NEW col, \A k \in A : col[k] \in Channel
    PROVE  OfChannels(Groups(A, col)) = Cardinality(A)
<1> DEFINE groups == Groups(A, col)
           In(g) == InGroup(A, col, g)
           voice == In("voice")
           text == In("text")
           both == In("both")
           later == text \cup both
<1>1. ASSUME NEW g PROVE Group(groups, g) = Cardinality(In(g))
  BY GroupCounts
<1>2. A = voice \cup later /\ voice \cap later = {} /\ text \cap both = {}
  BY DEF Channel, InGroup
<1>3. OfChannels(groups) = Cardinality(voice) + Cardinality(text) + Cardinality(both)
  <2> HIDE DEF groups, In
  <2> QED BY <1>1 DEF OfChannels
<1> HIDE DEF groups, voice, text, both
<1>4. /\ IsFiniteSet(later) /\ Cardinality(voice) \in Nat
      /\ Cardinality(A) = Cardinality(voice) + Cardinality(later)
  <2> HIDE DEF later
  <2> QED BY <1>2, TwoKinds
<1>5. /\ Cardinality(text) \in Nat /\ Cardinality(both) \in Nat
      /\ Cardinality(later) = Cardinality(text) + Cardinality(both)
  <2>1. IsFiniteSet(later) /\ later = text \cup both
    BY <1>4
  <2> HIDE DEF later
  <2> QED BY <1>2, <2>1, TwoKinds
<1> HIDE DEF later
<1>6. OfChannels(groups) = Cardinality(A)
  BY <1>3, <1>4, <1>5
<1> QED BY <1>6 DEF groups

\* The groups of a database add up to its total.
LEMMA ViewAddsUp ==
    ASSUME NEW d, d.dno \in DNOTable, IsFiniteSet(Key)
    PROVE  /\ OfDatasets(View(d)["byDataset"]) = View(d)["total"]
           /\ OfChannels(View(d)["byChannel"]) = View(d)["total"]
<1> DEFINE A == ActiveKeys(d.dno)
           dataset == [k \in A |-> d.dno[k].dataset]
           channel == [k \in A |-> k[2]]
<1>1. IsFiniteSet(A)
  BY FS_Subset DEF ActiveKeys
<1>2. \A k \in A : dataset[k] \in Dataset /\ channel[k] \in Channel
  BY DEF ActiveKeys, Active, Exists, DNOTable, Row, Key
<1>3. View(d)["byDataset"] = Groups(A, dataset)
  BY DEF View, GroupBy, Groups, InGroup
<1>4. View(d)["byChannel"] = Groups(A, channel)
  BY DEF View, GroupBy, Groups, InGroup
<1>5. View(d)["total"] = Cardinality(A)
  BY DEF View
<1> HIDE DEF A, dataset, channel
<1>6. OfDatasets(View(d)["byDataset"]) = Cardinality(A)
  BY <1>1, <1>2, <1>3, DatasetsAddUp
<1>7. OfChannels(View(d)["byChannel"]) = Cardinality(A)
  BY <1>1, <1>2, <1>4, ChannelsAddUp
<1> QED BY <1>5, <1>6, <1>7

-----------------------------------------------------------------------------
(* The summary.                                                            *)

\* The cached summary.
CacheInv ==
    /\ topic # "summary" => summary = None
    /\ summary # None => /\ {"view", "excused"} \subseteq DOMAIN summary
                         /\ DOMAIN summary.view = ToSet(SummaryReads)
    /\ StaleSummaryHasACause

\* What a summary holds so far is, entry by entry, from a database it could have
\* read, and no count is above what the hours hold or would hold.
ViewInv ==
    /\ "view" \in DOMAIN req
    /\ \E n \in 0..6 : DOMAIN req.view = FirstReads(SummaryReads, n)
    /\ \A x \in DOMAIN req.view : \E d \in req.moments : req.view[x] = View(d)[x]
    /\ \A x \in {"queries", "hits"} \cap DOMAIN req.view :
          /\ req.view[x] \in Nat
          /\ req.view[x] <= IF "byHour" \in DOMAIN req.view THEN req.view["byHour"]
                                                            ELSE Source.queries

SummaryInv ==
    /\ CacheInv
    /\ topic = "summary" /\ req.pc = "read" => ViewInv
    /\ SummaryAddsUp

\* A summary that goes, or is excused, needs no other cause.
LEMMA CacheExcused ==
    ASSUME CacheInv, topic' = topic, summary' = None \/ summary' = Excused(summary)
    PROVE  CacheInv'
<1>1. CASE summary' = None
  BY <1>1 DEF CacheInv, StaleSummaryHasACause
<1>2. CASE summary # None /\ summary' = Excused(summary)
  <2>1. summary' = [summary EXCEPT !.excused = TRUE]
    BY <1>2 DEF Excused
  <2>2. {"view", "excused"} \subseteq DOMAIN summary /\ DOMAIN summary.view = ToSet(SummaryReads)
        /\ topic = "summary"
    BY <1>2 DEF CacheInv
  <2>3. DOMAIN summary' = DOMAIN summary /\ summary'.view = summary.view /\ summary'.excused
    BY <2>1, <2>2
  <2> QED BY <2>2, <2>3 DEF CacheInv, StaleSummaryHasACause
<1> QED BY <1>1, <1>2 DEF Excused

\* One that stays needs its cause while nothing has happened to the list.
LEMMA CacheStays ==
    ASSUME CacheInv, topic' = topic, summary' = summary, pending' = pending,
           db'.dno = db.dno
    PROVE  CacheInv'
<1>1. \A x \in {"total", "byDataset", "byChannel"} : View(db')[x] = View(db)[x]
  BY ListCounts
<1>2. (\A x \in {"total", "byDataset", "byChannel"} : summary.view[x] = View(db)[x])' <=>
      (\A x \in {"total", "byDataset", "byChannel"} : summary.view[x] = View(db)[x])
  <2>1. ASSUME NEW x \in {"total", "byDataset", "byChannel"}
        PROVE  (View(db)[x])' = View(db)[x]
    <3>1. (View(db)[x])' = View(db')[x]
      BY DEF View, GroupBy, ActiveKeys, Active, Exists
    <3> QED BY <1>1, <3>1
  <2> QED BY <2>1
<1> QED BY <1>2 DEF CacheInv, StaleSummaryHasACause

\* An addition or removal that has begun is a cause.
LEMMA CachePending ==
    ASSUME Typed, DatabaseInv, CacheInv, topic' = topic, summary' = summary,
           NEW kind \in {"add", "remove"}, Unfinished(kind)
    PROVE  CacheInv'
<1>1. CASE topic = "summary"
  <2>1. pending' = [pending EXCEPT ![kind] = @ + 1]
    BY <1>1 DEF Unfinished, OnReplica
  <2>2. pending[kind] \in Nat /\ kind \in DOMAIN pending
    BY SmallNumbers
  <2>3. pending'[kind] = pending[kind] + 1
    BY <2>1, <2>2
  <2>4. [add |-> 0, remove |-> 0][kind] = 0
    OBVIOUS
  <2>5. pending' # [add |-> 0, remove |-> 0]
    BY <2>2, <2>3, <2>4
  <2> QED BY <1>1, <2>5 DEF CacheInv, StaleSummaryHasACause
<1>2. CASE topic # "summary"
  BY <1>2 DEF CacheInv, StaleSummaryHasACause
<1> QED BY <1>1, <1>2

\* Whatever others do, a summary that is not the list's has a cause.
LEMMA OthersCache ==
    ASSUME Typed, DatabaseInv, CacheInv, Others
    PROVE  CacheInv'
<1>0. topic' = topic
  BY OthersMove DEF Moved
<1>1. ASSUME NEW p, NEW c, NEW t, AddNumber(p, c, t) \/ RemoveNumber(p, c, t)
      PROVE  CacheInv'
  <2>1. summary' = summary /\ (Unfinished("add") \/ Unfinished("remove"))
    BY <1>1 DEF AddNumber, RemoveNumber
  <2> QED BY <1>0, <2>1, CachePending
<1>2. ASSUME NEW p, NEW t, ChangeElsewhere(p, t) PROVE CacheInv'
  BY <1>0, <1>2, CacheExcused DEF ChangeElsewhere
<1>3. ASSUME Expire \/ \E kind \in {"add", "remove"} : Finish(kind) \/ GiveUp(kind)
      PROVE  CacheInv'
  BY <1>0, <1>3, CacheExcused DEF GiveUp, Expire, Finish
<1>4. CASE Replicate
  BY <1>0, <1>4, CacheStays DEF Replicate
<1>5. ASSUME NEW n, QueryLogged(n) PROVE CacheInv'
  <2> DEFINE d == [db EXCEPT !.queries = @ + 1, !.hits = @ + n]
  <2>1. db' = d /\ summary' = summary /\ pending' = pending
    BY <1>5 DEF QueryLogged, Written
  <2>2. d.dno = db.dno
    BY DEF Typed, Databases
  <2> HIDE DEF d
  <2>3. db'.dno = db.dno
    BY <2>1, <2>2
  <2> QED BY <1>0, <2>1, <2>3, CacheStays
<1> QED BY <1>1, <1>2, <1>3, <1>4, <1>5 DEF Others

\* What changes by others leave of the view.
LEMMA ViewMoved ==
    ASSUME Typed, Typed', Posed, Moved, ViewInv, req # Idle
    PROVE  ViewInv'
<1>1. /\ DOMAIN req' = DOMAIN req
      /\ \A x \in DOMAIN req \ {"moments", "grew", "shrank", "overtaken"} : req'[x] = req[x]
      /\ req.moments \subseteq req'.moments
  BY Carried
<1>2. "view" \in DOMAIN req /\ "view" \in DOMAIN req' /\ req'.view = req.view
  BY <1>1 DEF ViewInv
<1>3. \A d, x : (View(d)[x])' = View(d)[x]
  BY DEF View, GroupBy, ActiveKeys, Active, Exists
<1>4. (\A x \in DOMAIN req.view : \E d \in req.moments : req.view[x] = View(d)[x])'
  <2> SUFFICES ASSUME NEW x \in DOMAIN req.view
               PROVE  \E d \in req'.moments : req.view[x] = View(d)[x]
    BY <1>2, <1>3
  <2>1. PICK d \in req.moments : req.view[x] = View(d)[x]
    BY DEF ViewInv
  <2> QED BY <1>1, <2>1
<1>5. Source.queries \in Nat /\ Source'.queries \in Nat /\ Source.queries <= Source'.queries
  <2>1. Source \in Databases /\ Source' \in Databases
    BY SourceTyped DEF Typed, Source
  <2> QED BY <2>1, DatabaseFields DEF Moved, Grown
<1>6. ASSUME NEW x \in {"queries", "hits"} \cap DOMAIN req.view
      PROVE  /\ req.view[x] \in Nat
             /\ req.view[x] <= IF "byHour" \in DOMAIN req.view THEN req.view["byHour"]
                                                               ELSE Source'.queries
  <2>1. /\ req.view[x] \in Nat
        /\ req.view[x] <= IF "byHour" \in DOMAIN req.view THEN req.view["byHour"]
                                                          ELSE Source.queries
    BY DEF ViewInv
  <2> QED BY <1>5, <2>1
<1>7. (\E n \in 0..6 : DOMAIN req.view = FirstReads(SummaryReads, n))'
  BY <1>2 DEF ViewInv, FirstReads, SummaryReads
<1> QED BY <1>2, <1>4, <1>6, <1>7 DEF ViewInv

\* The next statement of the summary.
LEMMA SummaryGoesOn ==
    ASSUME Typed, DatabaseInv, Posed, SummaryInv, topic = "summary", SummaryRead
    PROVE  ViewInv' /\ req'.pc = "read" /\ UNCHANGED summary
<1>0. req.pc = "read" /\ req # Idle /\ ViewInv
  BY DEF SummaryRead, Reading, Idle, SummaryInv
<1>1. PICK n \in 0..6 : DOMAIN req.view = FirstReads(SummaryReads, n)
  BY <1>0 DEF ViewInv
<1>2. Cardinality(DOMAIN req.view) = n /\ n # 6
  BY <1>1, ReadsSoFar, AllRead DEF SummaryRead, Taken
<1> DEFINE x == SummaryReads[n + 1]
           fields == [view |-> Noted(x, View(Source)[x])]
<1>3. To("read", fields) /\ summary' = summary
  BY <1>2 DEF SummaryRead, NextOf
<1>4. DOMAIN fields = {"view"} /\ fields.view = Noted(x, View(Source)[x])
  OBVIOUS
<1> HIDE DEF fields
<1>5. /\ req'.pc = "read" /\ req'.view = Noted(x, View(Source)[x]) /\ "view" \in DOMAIN req'
      /\ req'.moments = req.moments /\ UNCHANGED <<topic, db, replica>>
  <2>1. "moments" \in DOMAIN req
    BY <1>0 DEF Posed
  <2>2. /\ DOMAIN req' = DOMAIN req \cup DOMAIN fields /\ req'.pc = "read"
        /\ \A y \in DOMAIN fields : req'[y] = fields[y]
        /\ \A y \in DOMAIN req \ DOMAIN fields : y # "pc" => req'[y] = req[y]
        /\ UNCHANGED <<topic, db, replica>>
    BY <1>0, <1>3, <1>4, ToShape
  <2> QED BY <1>4, <2>1, <2>2
<1>6. Source' = Source /\ Source \in Databases /\ Source \in req.moments
  BY <1>0, <1>5, SourceTyped DEF Source, OnReplica, Posed
<1>7. /\ DOMAIN req'.view = DOMAIN req.view \cup {x} /\ req'.view[x] = View(Source)[x]
      /\ \A y \in DOMAIN req.view : y # x => req'.view[y] = req.view[y]
  BY <1>5 DEF Noted
<1>8. n + 1 \in 0..6 /\ DOMAIN req'.view = FirstReads(SummaryReads, n + 1)
  BY <1>1, <1>2, <1>7, NextRead
<1>9. ASSUME NEW y \in DOMAIN req'.view
      PROVE  \E d \in req'.moments : req'.view[y] = View(d)[y]
  BY <1>0, <1>5, <1>6, <1>7 DEF ViewInv
<1>10. /\ View(Source)["queries"] = Source.queries /\ View(Source)["hits"] = Source.hits
       /\ View(Source)["byHour"] = Source.queries
  BY DEF View
<1>11. Source.queries \in Nat /\ Source.hits \in Nat /\ Source.hits <= Source.queries
  BY <1>6, DatabaseFields DEF DatabaseInv, Source
<1>12. ASSUME NEW y \in {"queries", "hits"} \cap DOMAIN req'.view
       PROVE  /\ req'.view[y] \in Nat
              /\ req'.view[y] <= IF "byHour" \in DOMAIN req'.view THEN req'.view["byHour"]
                                                                 ELSE Source.queries
  <2>1. req'.view[y] \in Nat /\ (req'.view[y] <= Source.queries \/ "byHour" \in DOMAIN req.view)
    BY <1>0, <1>7, <1>10, <1>11 DEF ViewInv
  <2>2. CASE x = "byHour"
    <3>1. "byHour" \notin DOMAIN req.view
      <4>1. n \in 0..5 /\ SummaryReads[6] = "byHour"
        BY <1>2 DEF SummaryReads
      <4>2. \A i \in 1..n : SummaryReads[i] # SummaryReads[n + 1]
        BY <4>1, ReadsDiffer
      <4> QED BY <1>1, <2>2, <4>2 DEF FirstReads
    <3> QED BY <1>7, <1>10, <2>1, <2>2, <3>1
  <2>3. CASE x # "byHour"
    <3>1. "byHour" \notin DOMAIN req'.view
      BY <1>2, <1>8, <2>3, HoursComeLast
    <3> QED BY <1>7, <2>1, <3>1
  <2> QED BY <2>2, <2>3
<1>13. (\A y \in DOMAIN req.view : \E d \in req.moments : req.view[y] = View(d)[y])'
  <2>1. \A d, y : (View(d)[y])' = View(d)[y]
    BY DEF View, GroupBy, ActiveKeys, Active, Exists
  <2> QED BY <1>9, <2>1
<1>14. (\E m \in 0..6 : DOMAIN req.view = FirstReads(SummaryReads, m))'
  BY <1>8 DEF FirstReads, SummaryReads
<1> QED BY <1>3, <1>5, <1>6, <1>12, <1>13, <1>14 DEF ViewInv

\* The complete summary is answered and stored.
LEMMA SummaryStores ==
    ASSUME Typed, DatabaseInv, Posed, SummaryInv, topic = "summary", SummaryStore
    PROVE  SummaryInv'
<1>0. req.pc = "read" /\ req # Idle /\ ViewInv
  BY DEF SummaryStore, Reading, Idle, SummaryInv
<1>1. DOMAIN req.view = FirstReads(SummaryReads, 6)
  <2>1. PICK n \in 0..6 : DOMAIN req.view = FirstReads(SummaryReads, n)
    BY <1>0 DEF ViewInv
  <2>2. n = 6
    BY <2>1, ReadsSoFar, AllRead DEF SummaryStore, Taken
  <2> QED BY <2>1, <2>2
<1> DEFINE s == [view |-> req.view,
                 excused |-> req.overtaken \/ replica # db \/ Cardinality(req.moments) > 1]
           fields == [built |-> TRUE]
<1>2. summary' = s /\ To("answered", fields)
  BY DEF SummaryStore
<1>3. /\ DOMAIN s = {"view", "excused"} /\ s.view = req.view
      /\ s.excused = (req.overtaken \/ replica # db \/ Cardinality(req.moments) > 1)
      /\ DOMAIN fields = {"built"}
  OBVIOUS
<1> HIDE DEF s, fields
<1>4. /\ req'.pc = "answered" /\ req'.view = req.view /\ req'.moments = req.moments
      /\ UNCHANGED <<topic, db, replica, pending>>
  <2>1. "view" \in DOMAIN req /\ "moments" \in DOMAIN req
    BY <1>0 DEF ViewInv, Posed
  <2>2. /\ DOMAIN req' = DOMAIN req \cup DOMAIN fields /\ req'.pc = "answered"
        /\ \A y \in DOMAIN req \ DOMAIN fields : y # "pc" => req'[y] = req[y]
        /\ UNCHANGED <<topic, db, replica, pending>>
    BY <1>0, <1>2, <1>3, ToShape
  <2> QED BY <1>3, <2>1, <2>2
<1>5. ASSUME ~ s.excused, NEW x \in {"total", "byDataset", "byChannel"}
      PROVE  s.view[x] = View(db)[x]
  <2>1. replica = db /\ ~ (Cardinality(req.moments) > 1)
    BY <1>3, <1>5
  <2>2. Source = db /\ db \in req.moments /\ IsFiniteSet(req.moments)
    BY <1>0, <2>1 DEF Posed, Source
  <2>3. \A d \in req.moments : d = db
    <3> SUFFICES ASSUME NEW d \in req.moments, d # db PROVE FALSE
      OBVIOUS
    <3>1. IsFiniteSet({d}) /\ Cardinality({d}) = 1 /\ db \notin {d}
      BY FS_Singleton
    <3>2. Cardinality({d} \cup {db}) = Cardinality({d}) + 1
      BY ONLY <3>1, FS_AddElement
    <3>3. {d} \cup {db} \in SUBSET req.moments
      BY <2>2
    <3>4. Cardinality(req.moments) \in Nat /\ 2 <= Cardinality(req.moments)
      BY <2>2, <3>1, <3>2, <3>3, FS_Subset, FS_CardinalityType
    <3> QED BY <2>1, <3>4
  <2>4. x \in DOMAIN req.view
    BY <1>1, AllRead
  <2> QED BY <1>0, <1>3, <2>3, <2>4 DEF ViewInv
<1>6. CacheInv'
  <2>1. \A x : (View(db)[x])' = View(db)[x]
    BY <1>4 DEF View, GroupBy, ActiveKeys, Active, Exists
  <2>2. DOMAIN s.view = ToSet(SummaryReads)
    BY <1>1, <1>3, AllRead
  <2>3. (\A x \in {"total", "byDataset", "byChannel"} : summary.view[x] = View(db)[x])' \/ s.excused
    BY <1>2, <1>5, <2>1
  <2>4. DOMAIN summary'.view = ToSet(SummaryReads)'
    BY <1>2, <2>2 DEF ToSet, SummaryReads
  <2> QED BY <1>2, <1>3, <1>4, <2>3, <2>4 DEF CacheInv, StaleSummaryHasACause
<1>7. HoursHoldAll'
  <2>1. {"queries", "hits", "byHour"} \subseteq DOMAIN req.view
    BY <1>1, AllRead
  <2>2. req.view["queries"] <= req.view["byHour"] /\ req.view["hits"] <= req.view["byHour"]
    BY <1>0, <2>1 DEF ViewInv
  <2> QED BY <1>4, <2>2 DEF HoursHoldAll
<1>8. ASSUME \A d, e \in req.moments : d.dno = e.dno
      PROVE  /\ OfDatasets(req.view["byDataset"]) = req.view["total"]
             /\ OfChannels(req.view["byChannel"]) = req.view["total"]
  <2>1. PICK d \in req.moments : TRUE
    BY <1>0 DEF Posed
  <2>2. d.dno \in DNOTable /\ IsFiniteSet(Key)
    BY <1>0, DatabaseFields, KeysAreFinite DEF Posed
  <2>3. ASSUME NEW x \in {"total", "byDataset", "byChannel"} PROVE req.view[x] = View(d)[x]
    <3>1. x \in DOMAIN req.view
      BY <1>1, AllRead
    <3>2. PICK e \in req.moments : req.view[x] = View(e)[x]
      BY <1>0, <3>1 DEF ViewInv
    <3>3. View(e)[x] = View(d)[x]
      BY <1>8, ListCounts
    <3> QED BY <3>2, <3>3
  <2> QED BY <2>2, <2>3, ViewAddsUp
<1>9. SummaryAddsUp'
  <2>1. req'.moments = req.moments
    BY <1>4
  <2> QED BY <1>4, <1>7, <1>8, <2>1 DEF SummaryAddsUp, OfDatasets, OfChannels, Group
<1> QED BY <1>4, <1>6, <1>9 DEF SummaryInv

\* A summary that begins, with or without a cached one.
LEMMA SummaryBegins ==
    ASSUME Typed, SummaryInv, topic = "summary", SummaryCached \/ SummaryStart
    PROVE  SummaryInv'
<1>1. CASE SummaryCached
  <2> DEFINE fields == [view |-> summary.view, built |-> FALSE]
  <2>1. Begin("summary", "answered", fields)
    BY <1>1 DEF SummaryCached
  <2>2. DOMAIN fields = {"view", "built"} /\ fields.built = FALSE
    OBVIOUS
  <2> HIDE DEF fields
  <2>3. /\ req'.pc = "answered" /\ req'.built = FALSE
        /\ UNCHANGED <<topic, db, replica, summary, pending>>
    BY <2>1, <2>2, BeginShape
  <2>4. CacheInv'
    BY <2>3, CacheStays DEF SummaryInv
  <2> QED BY <2>3, <2>4 DEF SummaryInv, SummaryAddsUp, HoursHoldAll
<1>2. CASE SummaryStart
  <2> DEFINE fields == [view |-> <<>>]
  <2>1. Begin("summary", "read", fields)
    BY <1>2 DEF SummaryStart
  <2>2. DOMAIN fields = {"view"} /\ DOMAIN fields.view = {}
    OBVIOUS
  <2> HIDE DEF fields
  <2>3. /\ req'.pc = "read" /\ DOMAIN req'.view = {} /\ "view" \in DOMAIN req'
        /\ UNCHANGED <<topic, db, replica, summary, pending>>
    BY <2>1, <2>2, BeginShape
  <2>4. CacheInv'
    BY <2>3, CacheStays DEF SummaryInv
  <2>5. 0 \in 0..6 /\ (FirstReads(SummaryReads, 0))' = {}
    BY DEF FirstReads
  <2> QED BY <2>3, <2>4, <2>5 DEF SummaryInv, SummaryAddsUp, HoursHoldAll, ViewInv, Answered
<1> QED BY <1>1, <1>2

\* Every step keeps what the summary rests on.
LEMMA SummaryStep ==
    ASSUME Typed, Typed', DatabaseInv, Posed, SummaryInv, [Next]_vars
    PROVE  SummaryInv'
<1>1. CASE req.pc # "answered" /\ Others
  <2>1. CacheInv' /\ Moved /\ topic' = topic
    BY <1>1, OthersCache, OthersMove DEF SummaryInv, Moved
  <2>2. CASE req = Idle
    BY <2>1, <2>2 DEF SummaryInv, SummaryAddsUp, HoursHoldAll, Answered, Moved, Idle
  <2>3. CASE req # Idle
    <3>1. /\ \A x \in DOMAIN req \ {"moments", "grew", "shrank", "overtaken"} : req'[x] = req[x]
          /\ "pc" \in DOMAIN req
      BY <2>1, <2>3, Carried DEF Posed
    <3>2. req'.pc = req.pc
      BY <3>1
    <3>3. topic' = "summary" /\ req'.pc = "read" => ViewInv'
      BY <2>1, <2>3, <3>2, ViewMoved DEF SummaryInv
    <3> QED BY <1>1, <2>1, <3>2, <3>3 DEF SummaryInv, SummaryAddsUp, HoursHoldAll, Answered
  <2> QED BY <2>2, <2>3
<1>2. CASE Requests
  <2>1. UNCHANGED <<topic, db, replica, now, pending, changes>>
    BY <1>2, RequestsPosed
  <2>2. CASE topic # "summary"
    <3>1. summary' = summary
      BY <1>2, <2>2, OnTopic DEF Fail, BulkStart, BulkSelect, BulkReply, AnalyzeStart, AnalyzeBatch,
         AnalyzeReply, Walk, WalkCount, WalkPage, ComplianceStart, ComplianceRead,
         ComplianceReply, Begin
    <3>2. CacheInv'
      BY <2>1, <3>1, CacheStays DEF SummaryInv
    <3> QED BY <2>1, <2>2, <3>2 DEF SummaryInv, SummaryAddsUp, HoursHoldAll, Answered
  <2>3. CASE topic = "summary" /\ ~ Fail
    <3>1. SummaryCached \/ SummaryStart \/ SummaryRead \/ SummaryStore
      BY <1>2, <2>3, OnTopic
    <3>2. ASSUME SummaryRead PROVE SummaryInv'
      <4>1. ViewInv' /\ req'.pc = "read" /\ summary' = summary
        BY <2>3, <3>2, SummaryGoesOn
      <4>2. CacheInv'
        BY <2>1, <4>1, CacheStays DEF SummaryInv
      <4> QED BY <4>1, <4>2 DEF SummaryInv, SummaryAddsUp, HoursHoldAll, Answered
    <3> QED BY <2>3, <3>1, <3>2, SummaryBegins, SummaryStores
  <2>4. CASE Fail
    <3>1. req' = Idle /\ summary' = summary
      BY <2>4 DEF Fail
    <3>2. CacheInv'
      BY <2>1, <3>1, CacheStays DEF SummaryInv
    <3> QED BY <3>1, <3>2 DEF SummaryInv, SummaryAddsUp, HoursHoldAll, Answered, Idle
  <2> QED BY <2>2, <2>3, <2>4
<1>3. CASE UNCHANGED vars
  <2>1. UNCHANGED <<topic, db, replica, summary, pending, req>>
    BY <1>3 DEF vars
  <2>2. CacheInv'
    BY <2>1, CacheStays DEF SummaryInv
  <2>3. Source' = Source
    BY <2>1 DEF Source, OnReplica
  <2>4. ViewInv => ViewInv'
    BY <2>1, <2>3 DEF ViewInv, View, GroupBy, ActiveKeys, Active, Exists, FirstReads, SummaryReads
  <2> QED BY <2>1, <2>2, <2>4 DEF SummaryInv, SummaryAddsUp, HoursHoldAll, Answered
<1> QED BY <1>1, <1>2, <1>3 DEF Next

-----------------------------------------------------------------------------
(* The compliance report.                                                  *)

\* What the report holds so far that is more than the zero value was so at a moment.
Grounded ==
    /\ "total" \in DOMAIN req.view =>
          /\ req.view["total"] \in Nat
          /\ req.view["total"] # 0 => \E d \in req.moments : ActiveKeys(d.dno) # {}
    /\ "byDataset" \in DOMAIN req.view /\ "auto" \in DOMAIN req.view["byDataset"] =>
          \E d \in req.moments : \E k \in ActiveKeys(d.dno) : d.dno[k].dataset = "auto"
    /\ "queries" \in DOMAIN req.view =>
          /\ req.view["queries"] \in Nat
          /\ req.view["queries"] # 0 => \E d \in req.moments : d.queries > 0

ComplianceInv ==
    topic = "compliance" /\ req # Idle =>
        /\ "view" \in DOMAIN req
        /\ \E n \in 0..3 : DOMAIN req.view = FirstReads(ComplianceReads, n)
        /\ Grounded
        /\ req.pc = "answered" =>
              /\ {"total", "byDataset", "queries"} \subseteq DOMAIN req.view
              /\ req.status = ComplianceStatus(req.view)

\* What changes by others leave of the report.
LEMMA ComplianceMoved ==
    ASSUME Posed, Moved, req.pc # "answered", ComplianceInv
    PROVE  ComplianceInv'
<1> SUFFICES ASSUME topic' = "compliance", req' # Idle
             PROVE  ComplianceInv'
  BY DEF ComplianceInv
<1>0. topic' = topic /\ topic = "compliance" /\ req # Idle
  BY DEF Moved
<1>1. /\ DOMAIN req' = DOMAIN req
      /\ \A x \in DOMAIN req \ {"moments", "grew", "shrank", "overtaken"} : req'[x] = req[x]
      /\ req.moments \subseteq req'.moments
  BY <1>0, Carried
<1>2. "view" \in DOMAIN req /\ "pc" \in DOMAIN req
  BY <1>0 DEF ComplianceInv, Posed
<1>3. req'.view = req.view /\ req'.pc = req.pc /\ "view" \in DOMAIN req'
  BY <1>1, <1>2
<1>4. Grounded'
  BY <1>0, <1>1, <1>3 DEF ComplianceInv, Grounded, ActiveKeys, Active, Exists
<1>5. (\E n \in 0..3 : DOMAIN req.view = FirstReads(ComplianceReads, n))'
  BY <1>0, <1>3 DEF ComplianceInv, FirstReads, ComplianceReads
<1> QED BY <1>3, <1>4, <1>5 DEF ComplianceInv

\* What a statement leaves in the report is grounded.
LEMMA WhatRemains ==
    ASSUME NEW d \in Databases, NEW x \in {"total", "byDataset", "queries"},
           NEW value \in Remains(x, View(d)[x])
    PROVE  /\ x = "total" => value \in Nat /\ (value # 0 => ActiveKeys(d.dno) # {})
           /\ x = "byDataset" /\ "auto" \in DOMAIN value =>
                 \E k \in ActiveKeys(d.dno) : d.dno[k].dataset = "auto"
           /\ x = "queries" => value \in Nat /\ (value # 0 => d.queries > 0)
<1>1. CASE x = "total"
  <2>1. value \in {0, Cardinality(ActiveKeys(d.dno))}
    BY <1>1 DEF Remains, View
  <2>2. IsFiniteSet(ActiveKeys(d.dno))
    BY KeysAreFinite, FS_Subset DEF ActiveKeys
  <2>3. Cardinality(ActiveKeys(d.dno)) \in Nat
        /\ (Cardinality(ActiveKeys(d.dno)) # 0 => ActiveKeys(d.dno) # {})
    BY <2>2, FS_CardinalityType, FS_EmptySet
  <2> QED BY <1>1, <2>1, <2>3
<1>2. CASE x = "byDataset"
  <2> DEFINE groups == [g \in {d.dno[k].dataset : k \in ActiveKeys(d.dno)} |->
                          Cardinality({k \in ActiveKeys(d.dno) : d.dno[k].dataset = g})]
  <2>1. View(d)[x] = groups
    BY <1>2 DEF View, GroupBy
  <2>2. DOMAIN groups = {d.dno[k].dataset : k \in ActiveKeys(d.dno)}
    OBVIOUS
  <2> HIDE DEF groups
  <2>3. DOMAIN value \subseteq DOMAIN groups
    BY <1>2, <2>1 DEF Remains, Restrict
  <2> QED BY <1>2, <2>2, <2>3
<1>3. CASE x = "queries"
  <2>1. value \in {0, d.queries}
    BY <1>3 DEF Remains, View
  <2> QED BY <1>3, <2>1, DatabaseFields
<1> QED BY <1>1, <1>2, <1>3

\* The next statement of the report.
LEMMA ComplianceGoesOn ==
    ASSUME Typed, Posed, ComplianceInv, topic = "compliance", ComplianceRead
    PROVE  ComplianceInv'
<1>0. req.pc = "read" /\ req # Idle
  BY DEF ComplianceRead, Reading, Idle
<1>1. PICK n \in 0..3 : DOMAIN req.view = FirstReads(ComplianceReads, n)
  BY <1>0 DEF ComplianceInv
<1>2. Cardinality(DOMAIN req.view) = n /\ n # 3
  BY <1>1, ReadsSoFar, AllRead DEF ComplianceRead, Taken
<1> DEFINE x == ComplianceReads[n + 1]
<1>3. PICK value \in Remains(x, View(Source)[x]) : To("read", [view |-> Noted(x, value)])
  BY <1>2 DEF ComplianceRead, NextOf
<1> DEFINE fields == [view |-> Noted(x, value)]
<1>4. DOMAIN fields = {"view"} /\ fields.view = Noted(x, value)
  OBVIOUS
<1> HIDE DEF fields
<1>5. /\ req'.pc = "read" /\ req'.view = Noted(x, value) /\ "view" \in DOMAIN req'
      /\ req'.moments = req.moments /\ topic' = topic
  <2>0. "moments" \in DOMAIN req /\ To("read", fields)
    BY <1>0, <1>3 DEF Posed, fields
  <2>1. /\ DOMAIN req' = DOMAIN req \cup DOMAIN fields /\ req'.pc = "read"
        /\ \A y \in DOMAIN fields : req'[y] = fields[y]
        /\ \A y \in DOMAIN req \ DOMAIN fields : y # "pc" => req'[y] = req[y]
        /\ topic' = topic
    BY <1>0, <1>4, <2>0, ToShape
  <2> QED BY <1>4, <2>0, <2>1
<1>6. /\ DOMAIN req'.view = DOMAIN req.view \cup {x} /\ req'.view[x] = value
      /\ \A y \in DOMAIN req.view : y # x => req'.view[y] = req.view[y]
  BY <1>5 DEF Noted
<1>7. n + 1 \in 0..3 /\ DOMAIN req'.view = FirstReads(ComplianceReads, n + 1)
  BY <1>1, <1>2, <1>6, NextRead
<1>8. x \in {"total", "byDataset", "queries"}
  <2>1. n + 1 \in 1..3
    BY <1>2
  <2> QED BY <2>1 DEF ComplianceReads
<1>9. Source \in Databases /\ Source \in req.moments
  BY <1>0, SourceTyped DEF Posed
<1>10. /\ x = "total" => value \in Nat /\ (value # 0 => ActiveKeys(Source.dno) # {})
       /\ x = "byDataset" /\ "auto" \in DOMAIN value =>
             \E k \in ActiveKeys(Source.dno) : Source.dno[k].dataset = "auto"
       /\ x = "queries" => value \in Nat /\ (value # 0 => Source.queries > 0)
  BY <1>3, <1>8, <1>9, WhatRemains
<1> HIDE DEF x
<1>11. Grounded'
  <2> DEFINE v == req'.view
             G(view) ==
               /\ "total" \in DOMAIN view =>
                     /\ view["total"] \in Nat
                     /\ view["total"] # 0 => \E d \in req.moments : ActiveKeys(d.dno) # {}
               /\ "byDataset" \in DOMAIN view /\ "auto" \in DOMAIN view["byDataset"] =>
                     \E d \in req.moments : \E k \in ActiveKeys(d.dno) : d.dno[k].dataset = "auto"
               /\ "queries" \in DOMAIN view =>
                     /\ view["queries"] \in Nat
                     /\ view["queries"] # 0 => \E d \in req.moments : d.queries > 0
  <2>1. G(req.view)
    BY <1>0 DEF ComplianceInv, Grounded
  <2>2. G(v)
    BY <1>6, <1>9, <1>10, <2>1
  <2>3. Grounded' = G(v)
    BY <1>5 DEF Grounded, ActiveKeys, Active, Exists
  <2> QED BY <2>2, <2>3
<1>12. (\E m \in 0..3 : DOMAIN req.view = FirstReads(ComplianceReads, m))'
  BY <1>7 DEF FirstReads, ComplianceReads
<1> QED BY <1>5, <1>11, <1>12 DEF ComplianceInv

\* The assessment.
LEMMA ComplianceReplies ==
    ASSUME Posed, ComplianceInv, topic = "compliance", ComplianceReply
    PROVE  ComplianceInv'
<1>0. req.pc = "read" /\ req # Idle
  BY DEF ComplianceReply, Reading, Idle
<1>1. DOMAIN req.view = FirstReads(ComplianceReads, 3)
  <2>1. PICK n \in 0..3 : DOMAIN req.view = FirstReads(ComplianceReads, n)
    BY <1>0 DEF ComplianceInv
  <2>2. n = 3
    BY <2>1, ReadsSoFar, AllRead DEF ComplianceReply, Taken
  <2> QED BY <2>1, <2>2
<1> DEFINE fields == [status |-> ComplianceStatus(req.view)]
<1>2. To("answered", fields)
  BY DEF ComplianceReply
<1>3. DOMAIN fields = {"status"} /\ fields.status = ComplianceStatus(req.view)
  OBVIOUS
<1> HIDE DEF fields
<1>4. /\ req'.pc = "answered" /\ req'.view = req.view /\ "view" \in DOMAIN req'
      /\ req'.status = ComplianceStatus(req.view) /\ req'.moments = req.moments
      /\ topic' = topic
  <2>1. "view" \in DOMAIN req /\ "moments" \in DOMAIN req
    BY <1>0 DEF ComplianceInv, Posed
  <2>2. /\ DOMAIN req' = DOMAIN req \cup DOMAIN fields /\ req'.pc = "answered"
        /\ \A y \in DOMAIN fields : req'[y] = fields[y]
        /\ \A y \in DOMAIN req \ DOMAIN fields : y # "pc" => req'[y] = req[y]
        /\ topic' = topic
    BY <1>0, <1>2, <1>3, ToShape
  <2> QED BY <1>3, <2>1, <2>2
<1>5. Grounded'
  BY <1>0, <1>4 DEF ComplianceInv, Grounded, ActiveKeys, Active, Exists
<1>6. (\E n \in 0..3 : DOMAIN req.view = FirstReads(ComplianceReads, n))'
  BY <1>1, <1>4 DEF FirstReads, ComplianceReads
<1>7. ComplianceStatus(req.view)' = ComplianceStatus(req.view)
  BY <1>4 DEF ComplianceStatus
<1> QED BY <1>1, <1>4, <1>5, <1>6, <1>7, AllRead DEF ComplianceInv

\* The report begins empty.
LEMMA ComplianceBegins ==
    ASSUME ComplianceStart
    PROVE  ComplianceInv'
<1> DEFINE fields == [view |-> <<>>]
<1>1. Begin("compliance", "read", fields)
  BY DEF ComplianceStart
<1>2. DOMAIN fields = {"view"} /\ DOMAIN fields.view = {}
  OBVIOUS
<1> HIDE DEF fields
<1>3. req'.pc = "read" /\ DOMAIN req'.view = {} /\ "view" \in DOMAIN req'
  BY <1>1, <1>2, BeginShape
<1>4. 0 \in 0..3 /\ (FirstReads(ComplianceReads, 0))' = {}
  BY DEF FirstReads
<1> QED BY <1>3, <1>4 DEF ComplianceInv, Grounded

\* Every step keeps what the report rests on.
LEMMA ComplianceStep ==
    ASSUME Typed, DatabaseInv, Posed, ComplianceInv, [Next]_vars
    PROVE  ComplianceInv'
<1>1. CASE req.pc # "answered" /\ Others
  BY <1>1, OthersMove, ComplianceMoved
<1>2. CASE Requests
  <2>1. topic' = topic
    BY <1>2, RequestsPosed
  <2>2. CASE topic # "compliance" \/ Fail
    BY <2>1, <2>2 DEF ComplianceInv, Fail
  <2>3. CASE topic = "compliance" /\ ~ Fail
    <3>1. ComplianceStart \/ ComplianceRead \/ ComplianceReply
      BY <1>2, <2>3, OnTopic
    <3> QED BY <2>3, <3>1, ComplianceBegins, ComplianceGoesOn, ComplianceReplies
  <2> QED BY <2>2, <2>3
<1>3. CASE UNCHANGED vars
  <2>1. topic' = topic /\ req' = req
    BY <1>3 DEF vars
  <2> QED BY <2>1 DEF ComplianceInv, Grounded, FirstReads, ComplianceReads, ComplianceStatus,
                      ActiveKeys, Active, Exists
<1> QED BY <1>1, <1>2, <1>3 DEF Next

\* "compliant" is said of a report that is grounded in all three.
LEMMA ComplianceEnds == Posed /\ ComplianceInv => CompliantIsEarned
<1> SUFFICES ASSUME ComplianceInv, topic = "compliance", req.pc = "answered",
                    req.status = "compliant"
             PROVE  /\ \E d \in req.moments : ActiveKeys(d.dno) # {}
                    /\ \E d \in req.moments : \E k \in ActiveKeys(d.dno) : d.dno[k].dataset = "auto"
                    /\ \E d \in req.moments : d.queries > 0
  BY DEF CompliantIsEarned, Answered
<1>1. req # Idle
  BY DEF Idle
<1>2. /\ {"total", "byDataset", "queries"} \subseteq DOMAIN req.view /\ Grounded
      /\ ComplianceStatus(req.view) = "compliant"
  BY <1>1 DEF ComplianceInv
<1>3. req.view["total"] \in Nat /\ req.view["queries"] \in Nat
  BY <1>2 DEF Grounded
<1>4. /\ req.view["queries"] # 0 /\ req.view["total"] # 0
      /\ "auto" \in DOMAIN req.view["byDataset"]
  BY <1>2, <1>3 DEF ComplianceStatus
<1> QED BY <1>2, <1>4 DEF Grounded

-----------------------------------------------------------------------------
(* The report of an analysis.                                              *)

\* Reports about the datasets of found numbers, after i calls that add up.
Reports(hits, i) ==
    {r \in [hits : Nat, misses : Nat, byDataset : [{hits[n] : n \in DOMAIN hits} -> Nat],
            spoofed : [DOMAIN hits -> Nat]] :
        r.hits + r.misses = i /\ OfDatasets(r.byDataset) = r.hits}

\* One more in one dataset is one more in all.
LEMMA OneMoreInADataset ==
    ASSUME NEW D, D \subseteq Dataset, NEW f \in [D -> Nat], NEW d \in D
    PROVE  OfDatasets([f EXCEPT ![d] = @ + 1]) = OfDatasets(f) + 1
<1> DEFINE g == [f EXCEPT ![d] = @ + 1]
<1>1. \A x : Group(f, x) \in Nat
  BY DEF Group
<1>2. \A x : Group(g, x) = IF x = d THEN Group(f, x) + 1 ELSE Group(f, x)
  BY DEF Group
<1>3. d \in Dataset
  OBVIOUS
<1> HIDE DEF g
<1>4. OfDatasets(g) = OfDatasets(f) + 1
  BY <1>1, <1>2, <1>3 DEF OfDatasets, Dataset
<1> QED BY <1>4 DEF g

\* A call is counted once.
LEMMA CountedAddsUp ==
    ASSUME NEW hits, \A n \in DOMAIN hits : hits[n] \in Dataset, NEW i \in Nat,
           NEW r \in Reports(hits, i), NEW n, NEW frequency \in Nat
    PROVE  Counted(r, n, hits, frequency) \in Reports(hits, i + 1)
<1> DEFINE D == {hits[m] : m \in DOMAIN hits}
<1>1. /\ r \in [hits : Nat, misses : Nat, byDataset : [D -> Nat], spoofed : [DOMAIN hits -> Nat]]
      /\ r.hits + r.misses = i /\ OfDatasets(r.byDataset) = r.hits
  BY DEF Reports
<1>2. D \subseteq Dataset
  OBVIOUS
<1>3. CASE n \notin DOMAIN hits
  <2> DEFINE s == [r EXCEPT !.misses = @ + 1]
  <2>1. Counted(r, n, hits, frequency) = s
    BY <1>3 DEF Counted
  <2>2. /\ s \in [hits : Nat, misses : Nat, byDataset : [D -> Nat], spoofed : [DOMAIN hits -> Nat]]
        /\ s.hits = r.hits /\ s.misses = r.misses + 1 /\ s.byDataset = r.byDataset
    <3> HIDE DEF D
    <3> QED BY <1>1
  <2> HIDE DEF s
  <2>3. s.hits + s.misses = i + 1
    BY <1>1, <2>2
  <2> QED BY <1>1, <2>1, <2>2, <2>3 DEF Reports
<1>4. CASE n \in DOMAIN hits
  <2> DEFINE f == [r.byDataset EXCEPT ![hits[n]] = @ + 1]
             p == [r.spoofed EXCEPT ![n] = @ + frequency]
             s == [hits |-> r.hits + 1, misses |-> r.misses, byDataset |-> f, spoofed |-> p]
  <2>1. Counted(r, n, hits, frequency) = s
    BY <1>1, <1>4 DEF Counted
  <2>2. hits[n] \in D /\ r.byDataset \in [D -> Nat] /\ r.spoofed \in [DOMAIN hits -> Nat]
    BY <1>1, <1>4
  <2>3. f \in [D -> Nat] /\ p \in [DOMAIN hits -> Nat]
    <3> HIDE DEF D
    <3> QED BY <1>4, <2>2
  <2>4. OfDatasets(f) = OfDatasets(r.byDataset) + 1
    BY <1>2, <2>2, OneMoreInADataset
  <2> HIDE DEF f, p
  <2>5. /\ s \in [hits : Nat, misses : Nat, byDataset : [D -> Nat], spoofed : [DOMAIN hits -> Nat]]
        /\ s.hits = r.hits + 1 /\ s.misses = r.misses /\ s.byDataset = f
    <3> HIDE DEF D
    <3> QED BY <1>1, <2>3
  <2> HIDE DEF s
  <2>6. s.hits + s.misses = i + 1
    <3>1. r.hits \in Nat /\ r.misses \in Nat
      BY <1>1
    <3> QED BY <1>1, <2>5, <3>1
  <2> QED BY <1>1, <2>1, <2>4, <2>5, <2>6 DEF Reports
<1> QED BY <1>3, <1>4

\* Before the first call the report is empty.
LEMMA EmptyAddsUp ==
    ASSUME NEW hits, \A n \in DOMAIN hits : hits[n] \in Dataset
    PROVE  EmptyReport(hits) \in Reports(hits, 0)
<1> DEFINE D == {hits[n] : n \in DOMAIN hits}
           zero == [d \in D |-> 0]
           none == [n \in DOMAIN hits |-> 0]
<1>1. zero \in [D -> Nat] /\ none \in [DOMAIN hits -> Nat] /\ OfDatasets(zero) = 0
  BY DEF OfDatasets, Group
<1>2. EmptyReport(hits) = [hits |-> 0, misses |-> 0, byDataset |-> zero, spoofed |-> none]
  BY DEF EmptyReport
<1> HIDE DEF D, zero, none
<1> QED BY <1>1, <1>2 DEF Reports, D

\* How often a number is called.
LEMMA OccurrencesTyped ==
    ASSUME NEW X, NEW records \in Seq(X), NEW n
    PROVE  Occurrences(records, n) \in Nat
<1>1. IsFiniteSet(1..Len(records))
  BY FS_Interval
<1>2. {i \in DOMAIN records : Normalize(records[i]) = n} \in SUBSET (1..Len(records))
  OBVIOUS
<1> QED BY <1>1, <1>2, FS_Subset, FS_CardinalityType DEF Occurrences

\* The report of a sample counts each of its calls, in order, and so once.
LEMMA ReportAddsUp ==
    ASSUME NEW X, NEW records \in Seq(X),
           NEW hits, \A n \in DOMAIN hits : hits[n] \in Dataset
    PROVE  Report(records, hits) \in Reports(hits, Len(records))
<1> DEFINE N == Len(records)
           At(i) == Reports(hits, i)
           Step(r, i) == LET n == Normalize(records[i])
                         IN  Counted(r, n, hits, Occurrences(records, n))
           at == [i \in 0..N |-> At(i)]
           step == [i \in 1..N |-> [r \in At(i - 1) |-> Step(r, i)]]
           base == EmptyReport(hits)
           Is(f) == f = [i \in 0..N |-> IF i = 0 THEN base ELSE Step(f[i - 1], i)]
<1>1. N \in Nat
  OBVIOUS
<1>2. base \in at[0]
  BY EmptyAddsUp
<1>3. ASSUME NEW i \in 1..N, NEW r \in At(i - 1) PROVE Step(r, i) \in At(i)
  <2>1. Occurrences(records, Normalize(records[i])) \in Nat /\ i - 1 \in Nat /\ i - 1 + 1 = i
    BY OccurrencesTyped
  <2>2. Step(r, i) \in Reports(hits, i - 1 + 1)
    BY <2>1, CountedAddsUp
  <2> QED BY <2>1, <2>2
<1>4. Report(records, hits) = (CHOOSE f : Is(f))[N]
  BY DEF Report
<1> HIDE DEF N, At, Step, base
<1>5. \A i \in 1..N : step[i] \in [at[i - 1] -> at[i]]
  BY <1>1, <1>3
<1>6. PICK f : Path(f, N, base, step)
  BY <1>1, PathExists
<1>7. \A i \in 0..N : f[i] \in at[i]
  <2>1. f[0] \in at[0]
    BY <1>2, <1>6 DEF Path
  <2>2. ASSUME NEW i \in 1..N, f[i - 1] \in at[i - 1] PROVE f[i] \in at[i]
    <3> HIDE DEF at, step
    <3> QED BY <1>5, <1>6, <2>2 DEF Path
  <2> HIDE DEF at, step
  <2> QED BY <1>1, <2>1, <2>2, AllTheWay
<1>8. Is(f)
  <2>1. ASSUME NEW i \in 1..N PROVE f[i] = Step(f[i - 1], i)
    <3>1. f[i - 1] \in At(i - 1)
      BY <1>1, <1>7
    <3>2. step[i][f[i - 1]] = Step(f[i - 1], i)
      BY <3>1
    <3> HIDE DEF at, step
    <3> QED BY <1>6, <3>2 DEF Path
  <2>2. f = [i \in 0..N |-> f[i]] /\ f[0] = base
    BY <1>6 DEF Path
  <2>3. ASSUME NEW i \in 0..N PROVE f[i] = IF i = 0 THEN base ELSE Step(f[i - 1], i)
    BY <1>1, <2>1, <2>2
  <2> QED BY <2>2, <2>3
<1>9. ASSUME NEW u, Is(u) PROVE u[N] \in At(N)
  <2>1. u[0] = base /\ \A i \in 1..N : u[i] = Step(u[i - 1], i)
    BY <1>1, <1>9
  <2>2. u[0] \in at[0]
    BY <1>2, <2>1
  <2>3. ASSUME NEW i \in 1..N, u[i - 1] \in at[i - 1] PROVE u[i] \in at[i]
    <3>1. u[i - 1] \in At(i - 1)
      BY <1>1, <2>3
    <3>2. u[i] \in At(i)
      BY <1>3, <2>1, <3>1
    <3> QED BY <1>1, <3>2
  <2>4. \A i \in 0..N : u[i] \in at[i]
    <3> HIDE DEF at
    <3> QED BY <1>1, <2>2, <2>3, AllTheWay
  <2> QED BY <1>1, <2>4
<1>10. (CHOOSE u : Is(u))[N] \in At(N)
  <2> DEFINE v == CHOOSE u : Is(u)
  <2>1. Is(v)
    <3> HIDE DEF Is
    <3> QED BY <1>8
  <2> HIDE DEF v
  <2>2. v[N] \in At(N)
    BY <1>9, <2>1
  <2> QED BY <2>2 DEF v
<1> QED BY <1>4, <1>10 DEF At, N

-----------------------------------------------------------------------------
(* The analysis.                                                           *)

\* Number n was on the list with dataset data, or off it, in one of some databases.
WasListed(moments, n, data) ==
    \E d \in moments : \E k \in Covering(n, Voice) :
        Active(d.dno, k) /\ d.dno[k].dataset = data

WasOff(moments, n) == \E d \in moments : ~ Listed(d, n)

\* What the batches have found so far, and what they have passed over.
AnalysisInv ==
    topic = "analysis" /\ req # Idle =>
        /\ {"list", "cut", "todo", "found"} \subseteq DOMAIN req
        /\ \A n \in DOMAIN req.found : WasListed(req.moments, n, req.found[n])
        /\ ~ req.cut => \A n \in Lookups(req.list) \ (DOMAIN req.found \cup req.todo) :
                           WasOff(req.moments, n)
        /\ req.list \in Lists /\ \A n \in DOMAIN req.found : req.found[n] \in Dataset
        /\ req.pc = "answered" => /\ req.todo = {} /\ "report" \in DOMAIN req
                                  /\ req.report \in Reports(req.found, Len(req.list))

\* What was so at a moment stays so.
LEMMA MomentsGrow ==
    ASSUME NEW M, NEW N, M \subseteq N, NEW n
    PROVE  /\ \A data : WasListed(M, n, data) => WasListed(N, n, data)
           /\ WasOff(M, n) => WasOff(N, n)
BY DEF WasListed, WasOff

\* Priming the request's fields primes what is said of them.
LEMMA AnalysisPrimed ==
    ASSUME NEW lookups, lookups = Lookups(req'.list),
           NEW reports, reports = Reports(req'.found, Len(req'.list)),
           req'.list \in Lists, \A n \in DOMAIN req'.found : req'.found[n] \in Dataset,
           {"list", "cut", "todo", "found"} \subseteq DOMAIN req',
           \A n \in DOMAIN req'.found : WasListed(req'.moments, n, req'.found[n]),
           ~ req'.cut => \A n \in lookups \ (DOMAIN req'.found \cup req'.todo) :
                            WasOff(req'.moments, n),
           req'.pc = "answered" => /\ req'.todo = {} /\ "report" \in DOMAIN req'
                                   /\ req'.report \in reports
    PROVE  AnalysisInv'
<1> QED BY DEF AnalysisInv

\* What changes by others leave of the analysis.
LEMMA AnalysisMoved ==
    ASSUME Posed, Moved, AnalysisInv
    PROVE  AnalysisInv'
<1> SUFFICES ASSUME topic' = "analysis", req' # Idle
             PROVE  AnalysisInv'
  BY DEF AnalysisInv
<1>0. topic = "analysis" /\ req # Idle
  BY DEF Moved
<1>1. /\ DOMAIN req' = DOMAIN req
      /\ \A x \in DOMAIN req \ {"moments", "grew", "shrank", "overtaken"} : req'[x] = req[x]
      /\ req.moments \subseteq req'.moments
  BY <1>0, Carried
<1>2. {"list", "cut", "todo", "found"} \subseteq DOMAIN req /\ "pc" \in DOMAIN req
  BY <1>0 DEF AnalysisInv, Posed
<1>3. /\ req'.list = req.list /\ req'.cut = req.cut /\ req'.todo = req.todo
      /\ req'.found = req.found /\ req'.pc = req.pc
  BY <1>1, <1>2
<1>4. \A n \in DOMAIN req.found : WasListed(req'.moments, n, req.found[n])
  BY <1>0, <1>1, MomentsGrow DEF AnalysisInv
<1>5. ~ req.cut => \A n \in Lookups(req.list) \ (DOMAIN req.found \cup req.todo) :
                      WasOff(req'.moments, n)
  BY <1>0, <1>1, MomentsGrow DEF AnalysisInv
<1> DEFINE lookups == Lookups(req.list)
           reports == Reports(req.found, Len(req.list))
<1>6. /\ req.list \in Lists /\ \A n \in DOMAIN req.found : req.found[n] \in Dataset
      /\ req.pc = "answered" => /\ req.todo = {} /\ "report" \in DOMAIN req'
                                /\ req'.report \in reports
  BY <1>0, <1>1 DEF AnalysisInv
<1>7. lookups = Lookups(req'.list) /\ reports = Reports(req'.found, Len(req'.list))
  BY <1>3
<1> HIDE DEF reports
<1> QED BY <1>1, <1>2, <1>3, <1>4, <1>5, <1>6, <1>7, AnalysisPrimed

\* A batch.
LEMMA AnalysisGoesOn ==
    ASSUME Posed, AnalysisInv, topic = "analysis", AnalyzeBatch
    PROVE  AnalysisInv'
<1>0. req.pc = "analyze" /\ req # Idle
  BY DEF AnalyzeBatch, Idle
<1>1. PICK batch \in SUBSET req.todo :
        LET listed == {n \in batch : Listed(db, n)} IN
          \E came \in SUBSET listed :
          \E data \in {f \in [came -> Dataset] : \A n \in came : f[n] \in DatasetsOf(n)} :
             To("analyze", [todo |-> req.todo \ batch, found |-> Over(data, req.found),
                            cut |-> req.cut \/ came # listed])
  BY DEF AnalyzeBatch
<1> DEFINE listed == {n \in batch : Listed(db, n)}
<1>2. PICK came \in SUBSET listed :
        \E data \in {f \in [came -> Dataset] : \A n \in came : f[n] \in DatasetsOf(n)} :
           To("analyze", [todo |-> req.todo \ batch, found |-> Over(data, req.found),
                          cut |-> req.cut \/ came # listed])
  BY <1>1
<1>2a. PICK data \in [came -> Dataset] :
        /\ \A n \in came : data[n] \in DatasetsOf(n)
        /\ To("analyze", [todo |-> req.todo \ batch, found |-> Over(data, req.found),
                          cut |-> req.cut \/ came # listed])
  BY <1>2
<1> DEFINE fields == [todo |-> req.todo \ batch, found |-> Over(data, req.found),
                      cut |-> req.cut \/ came # listed]
<1>3. /\ DOMAIN fields = {"todo", "found", "cut"} /\ fields.todo = req.todo \ batch
      /\ fields.found = Over(data, req.found) /\ fields.cut = (req.cut \/ came # listed)
  OBVIOUS
<1>4. To("analyze", fields)
  BY <1>2a
<1> HIDE DEF fields
<1>5. /\ {"list", "cut", "todo", "found"} \subseteq DOMAIN req'
      /\ req'.pc = "analyze" /\ req'.list = req.list /\ req'.moments = req.moments
      /\ req'.todo = req.todo \ batch /\ req'.found = Over(data, req.found)
      /\ req'.cut = (req.cut \/ came # listed)
  <2>1. "list" \in DOMAIN req /\ "moments" \in DOMAIN req
    BY <1>0 DEF AnalysisInv, Posed
  <2>2. /\ DOMAIN req' = DOMAIN req \cup DOMAIN fields /\ req'.pc = "analyze"
        /\ \A y \in DOMAIN fields : req'[y] = fields[y]
        /\ \A y \in DOMAIN req \ DOMAIN fields : y # "pc" => req'[y] = req[y]
    BY <1>0, <1>3, <1>4, ToShape
  <2> QED BY <1>3, <2>1, <2>2
<1>6. db \in req.moments
  BY <1>0 DEF Posed, Source, OnReplica
<1>7. /\ DOMAIN req'.found = came \cup DOMAIN req.found
      /\ \A n \in came : req'.found[n] = data[n]
      /\ \A n \in DOMAIN req.found \ came : req'.found[n] = req.found[n]
  BY <1>5 DEF Over
<1>8. ASSUME NEW n \in DOMAIN req'.found
      PROVE  WasListed(req.moments, n, req'.found[n])
  <2>1. CASE n \in came
    <3>1. data[n] \in {db.dno[k].dataset : k \in {k \in Covering(n, Voice) : Active(db.dno, k)}}
      BY <1>2a, <2>1 DEF DatasetsOf
    <3>2. \E k \in Covering(n, Voice) : Active(db.dno, k) /\ db.dno[k].dataset = data[n]
      BY <3>1
    <3> QED BY <1>6, <1>7, <2>1, <3>2 DEF WasListed
  <2>2. CASE n \notin came
    BY <1>0, <1>7, <2>2 DEF AnalysisInv
  <2> QED BY <2>1, <2>2
<1> DEFINE lookups == Lookups(req.list)
<1>9. ASSUME ~ req'.cut, NEW n \in lookups \ (DOMAIN req'.found \cup req'.todo)
      PROVE  WasOff(req.moments, n)
  <2>1. ~ req.cut /\ came = listed
    BY <1>5, <1>9
  <2>2. CASE n \in batch
    <3>1. ~ Listed(db, n)
      BY <1>7, <1>9, <2>1, <2>2
    <3> QED BY <1>6, <3>1 DEF WasOff
  <2>3. CASE n \notin batch
    <3>1. n \notin DOMAIN req.found \cup req.todo
      BY <1>5, <1>7, <1>9, <2>3
    <3> QED BY <1>0, <1>9, <2>1, <3>1 DEF AnalysisInv
  <2> QED BY <2>2, <2>3
<1> DEFINE reports == Reports(req'.found, Len(req'.list))
<1>10. lookups = Lookups(req'.list) /\ req'.list \in Lists
  BY <1>0, <1>5 DEF AnalysisInv
<1>11. \A n \in DOMAIN req'.found : req'.found[n] \in Dataset
  BY <1>0, <1>7 DEF AnalysisInv
<1> HIDE DEF lookups, listed
<1> QED BY <1>5, <1>8, <1>9, <1>10, <1>11, AnalysisPrimed

\* The report.
LEMMA AnalysisReplies ==
    ASSUME Posed, AnalysisInv, topic = "analysis", AnalyzeReply
    PROVE  AnalysisInv'
<1>0. req.pc = "analyze" /\ req # Idle /\ req.todo = {}
  BY DEF AnalyzeReply, Idle
<1> DEFINE fields == [report |-> Report(req.list, req.found)]
           lookups == Lookups(req.list)
<1>1. To("answered", fields)
  BY DEF AnalyzeReply
<1>2. DOMAIN fields = {"report"} /\ fields.report = Report(req.list, req.found)
  OBVIOUS
<1> HIDE DEF fields
<1>3. /\ {"list", "cut", "todo", "found"} \subseteq DOMAIN req'
      /\ req'.list = req.list /\ req'.moments = req.moments /\ req'.cut = req.cut
      /\ req'.todo = {} /\ req'.found = req.found
      /\ "report" \in DOMAIN req' /\ req'.report = Report(req.list, req.found)
  <2>1. {"list", "cut", "todo", "found"} \subseteq DOMAIN req /\ "moments" \in DOMAIN req
    BY <1>0 DEF AnalysisInv, Posed
  <2>2. /\ DOMAIN req' = DOMAIN req \cup DOMAIN fields
        /\ \A y \in DOMAIN fields : req'[y] = fields[y]
        /\ \A y \in DOMAIN req \ DOMAIN fields : y # "pc" => req'[y] = req[y]
    BY <1>0, <1>1, <1>2, ToShape
  <2> QED BY <1>0, <1>2, <2>1, <2>2
<1>4. /\ \A n \in DOMAIN req.found : WasListed(req.moments, n, req.found[n])
      /\ ~ req.cut => \A n \in lookups \ (DOMAIN req.found \cup {}) : WasOff(req.moments, n)
  BY <1>0 DEF AnalysisInv
<1> DEFINE reports == Reports(req.found, Len(req.list))
<1>5. lookups = Lookups(req'.list) /\ reports = Reports(req'.found, Len(req'.list))
  BY <1>3
<1>6. req.list \in Lists /\ \A n \in DOMAIN req.found : req.found[n] \in Dataset
  BY <1>0 DEF AnalysisInv
<1>7. Report(req.list, req.found) \in reports
  <2>1. req.list \in Seq(Seq(Symbol))
    BY <1>6, InstanceParameters
  <2> QED BY <1>6, <2>1, ReportAddsUp
<1> HIDE DEF lookups, reports
<1> QED BY <1>3, <1>4, <1>5, <1>6, <1>7, AnalysisPrimed

\* The analysis begins with all its numbers to look up.
LEMMA AnalysisBegins ==
    ASSUME NEW list \in Lists, AnalyzeStart(list)
    PROVE  AnalysisInv'
<1> DEFINE fields == [list |-> list, cut |-> FALSE, todo |-> Lookups(list), found |-> <<>>]
           lookups == Lookups(list)
<1>1. Begin("analysis", "analyze", fields)
  BY DEF AnalyzeStart
<1>2. /\ DOMAIN fields = {"list", "cut", "todo", "found"} /\ fields.list = list
      /\ fields.todo = lookups /\ DOMAIN fields.found = {}
  OBVIOUS
<1> HIDE DEF fields, lookups
<1>3. /\ req'.pc = "analyze" /\ req'.list = list /\ req'.todo = lookups
      /\ DOMAIN req'.found = {} /\ {"list", "cut", "todo", "found"} \subseteq DOMAIN req'
  <2>1. /\ DOMAIN req' = {"pc", "moments", "grew", "shrank", "overtaken"} \cup DOMAIN fields
        /\ req'.pc = "analyze"
        /\ \A x \in DOMAIN fields \ {"pc", "moments", "grew", "shrank", "overtaken"} :
              req'[x] = fields[x]
    BY <1>1, BeginShape
  <2> QED BY <1>2, <2>1
<1>4. lookups = Lookups(req'.list)
  BY <1>3 DEF lookups
<1> DEFINE reports == Reports(req'.found, Len(req'.list))
<1> QED BY <1>3, <1>4, AnalysisPrimed

\* Every step keeps what the analysis rests on.
LEMMA AnalysisStep ==
    ASSUME Typed, DatabaseInv, Posed, AnalysisInv, [Next]_vars
    PROVE  AnalysisInv'
<1>1. CASE Others
  BY <1>1, OthersMove, AnalysisMoved
<1>2. CASE Requests
  <2>1. topic' = topic
    BY <1>2, RequestsPosed
  <2>2. CASE topic # "analysis" \/ Fail
    BY <2>1, <2>2 DEF AnalysisInv, Fail
  <2>3. CASE topic = "analysis" /\ ~ Fail
    <3>1. (\E list \in Lists : AnalyzeStart(list)) \/ AnalyzeBatch \/ AnalyzeReply
      BY <1>2, <2>3, OnTopic
    <3> QED BY <2>3, <3>1, AnalysisBegins, AnalysisGoesOn, AnalysisReplies
  <2> QED BY <2>2, <2>3
<1>3. CASE UNCHANGED vars
  <2>1. topic' = topic /\ req' = req
    BY <1>3 DEF vars
  <2>2. CASE topic = "analysis" /\ req # Idle
    <3> DEFINE lookups == Lookups(req.list)
               reports == Reports(req.found, Len(req.list))
    <3>1. lookups = Lookups(req'.list) /\ reports = Reports(req'.found, Len(req'.list))
      BY <2>1
    <3> QED BY <2>1, <2>2, <3>1, AnalysisPrimed DEF AnalysisInv
  <2>3. CASE topic # "analysis" \/ req = Idle
    BY <2>1, <2>3 DEF AnalysisInv
  <2> QED BY <2>2, <2>3
<1> QED BY <1>1, <1>2, <1>3 DEF Next

\* At the end nothing is left to look up, and the report adds up.
LEMMA AnalysisEnds == AnalysisInv => AnalysisIsJustified
<1> SUFFICES ASSUME AnalysisInv, topic = "analysis", req.pc = "answered"
             PROVE  /\ \A n \in DOMAIN req.found : WasListed(req.moments, n, req.found[n])
                    /\ ~ req.cut => \A n \in Lookups(req.list) \ DOMAIN req.found :
                                       WasOff(req.moments, n)
                    /\ req.report.hits + req.report.misses = Len(req.list)
                    /\ OfDatasets(req.report.byDataset) = req.report.hits
  BY DEF AnalysisIsJustified, AnalysisWasTrue, Answered, WasListed, WasOff
<1>1. req # Idle
  BY DEF Idle
<1>2. req.report \in Reports(req.found, Len(req.list)) /\ req.todo = {}
  BY <1>1 DEF AnalysisInv
<1>3. /\ req.report.hits + req.report.misses = Len(req.list)
      /\ OfDatasets(req.report.byDataset) = req.report.hits
  BY <1>2 DEF Reports
<1> QED BY <1>1, <1>2, <1>3 DEF AnalysisInv

-----------------------------------------------------------------------------
(* Numbers as clients write them.                                          *)

\* A raw number without its separators is still one of symbols.
LEMMA UnseparatedTyped ==
    ASSUME NEW raw \in Seq(Symbol)
    PROVE  Unseparated(raw) \in Seq(Symbol)
<1> DEFINE N == Len(raw)
           S == Seq(Symbol)
           Step(s, i) == Stripped(s, raw[i])
           at == [i \in 0..N |-> S]
           step == [i \in 1..N |-> [s \in S |-> Step(s, i)]]
           base == <<>>
           Is(f) == f = [i \in 0..N |-> IF i = 0 THEN base ELSE Step(f[i - 1], i)]
<1>1. N \in Nat /\ base \in S
  OBVIOUS
<1>2. ASSUME NEW i \in 1..N, NEW s \in S PROVE Step(s, i) \in S
  BY DEF Stripped
<1>3. Unseparated(raw) = (CHOOSE f : Is(f))[N]
  BY DEF Unseparated
<1> HIDE DEF N, S, Step, base
<1>4. ASSUME NEW f, f[0] = base, \A i \in 1..N : f[i - 1] \in S => f[i] = Step(f[i - 1], i)
      PROVE  \A i \in 0..N : f[i] \in S
  <2>1. f[0] \in at[0]
    BY <1>1, <1>4
  <2>2. ASSUME NEW i \in 1..N, f[i - 1] \in at[i - 1] PROVE f[i] \in at[i]
    <3>1. f[i - 1] \in S
      BY <1>1, <2>2
    <3>2. f[i] \in S
      BY <1>2, <1>4, <3>1
    <3> QED BY <1>1, <3>2
  <2>3. \A i \in 0..N : f[i] \in at[i]
    <3> HIDE DEF at
    <3> QED BY <1>1, <2>1, <2>2, AllTheWay
  <2> QED BY <2>3
<1>5. PICK f : Path(f, N, base, step)
  BY <1>1, PathExists
<1>6. ASSUME NEW i \in 1..N, f[i - 1] \in S PROVE f[i] = Step(f[i - 1], i)
  <2>1. step[i][f[i - 1]] = Step(f[i - 1], i)
    BY <1>6
  <2> HIDE DEF step
  <2> QED BY <1>5, <2>1 DEF Path
<1>7. f = [i \in 0..N |-> f[i]] /\ f[0] = base
  BY <1>5 DEF Path
<1>8. Is(f)
  <2>1. \A i \in 0..N : f[i] \in S
    BY <1>4, <1>6, <1>7
  <2>2. ASSUME NEW i \in 0..N PROVE f[i] = IF i = 0 THEN base ELSE Step(f[i - 1], i)
    BY <1>1, <1>6, <1>7, <2>1
  <2> QED BY <1>7, <2>2
<1>9. Is(CHOOSE u : Is(u))
  <2> HIDE DEF Is
  <2> QED BY <1>8
<1> DEFINE v == CHOOSE u : Is(u)
<1>10. v[0] = base /\ \A i \in 1..N : v[i] = Step(v[i - 1], i)
  <2> HIDE DEF v
  <2>1. v = [i \in 0..N |-> IF i = 0 THEN base ELSE Step(v[i - 1], i)]
    BY <1>9 DEF v
  <2> QED BY <1>1, <2>1
<1>11. v[N] \in S
  <2> HIDE DEF v
  <2>1. \A i \in 0..N : v[i] \in S
    BY <1>4, <1>10
  <2> QED BY <1>1, <2>1
<1> QED BY <1>3, <1>11 DEF S

\* Taking a prefix off.
LEMMA Trimmed ==
    ASSUME NEW s \in Seq(Symbol)
    PROVE  /\ TrimPrefix(s, <<"1">>) =
                IF Len(s) > 0 /\ s[1] = "1" THEN SubSeq(s, 2, Len(s)) ELSE s
           /\ TrimPrefix(s, <<"+", "1">>) =
                IF Len(s) > 1 /\ s[1] = "+" /\ s[2] = "1" THEN SubSeq(s, 3, Len(s)) ELSE s
<1>1. IsPrefix(<<"1">>, s) <=> Len(s) > 0 /\ s[1] = "1"
  BY DEF IsPrefix
<1>2. IsPrefix(<<"+", "1">>, s) <=> Len(s) > 1 /\ s[1] = "+" /\ s[2] = "1"
  BY DEF IsPrefix
<1> QED BY <1>1, <1>2 DEF TrimPrefix

\* What trimming leaves is of symbols.
LEMMA NormalizeTyped ==
    ASSUME NEW raw \in Seq(Symbol)
    PROVE  Normalize(raw) \in Seq(Symbol)
<1> DEFINE u == Unseparated(raw)
           t == TrimPrefix(u, <<"+", "1">>)
           m == TrimPrefix(t, <<"1">>)
<1>1. u \in Seq(Symbol)
  BY UnseparatedTyped
<1> HIDE DEF u
<1>2. t = IF Len(u) > 1 /\ u[1] = "+" /\ u[2] = "1" THEN SubSeq(u, 3, Len(u)) ELSE u
  BY <1>1, Trimmed
<1> HIDE DEF t
<1>3. t \in Seq(Symbol)
  BY <1>1, <1>2
<1>4. m = IF Len(t) > 0 /\ t[1] = "1" THEN SubSeq(t, 2, Len(t)) ELSE t
  BY <1>3, Trimmed
<1> HIDE DEF m
<1>5. m \in Seq(Symbol)
  BY <1>3, <1>4
<1> QED BY <1>5 DEF Normalize, m, t, u

\* The valid numbers.
LEMMA ValidNumbers ==
    ASSUME NEW n \in Seq(Symbol)
    PROVE  Valid(n) <=> n \in [1..Digits -> Digit]
<1>1. ASSUME Valid(n) PROVE n \in [1..Digits -> Digit]
  BY <1>1, NumberFormat DEF Valid, ToSet
<1>2. ASSUME n \in [1..Digits -> Digit] PROVE Valid(n)
  <2>1. Len(n) = Digits
    BY <1>2, NumberFormat
  <2> QED BY <1>2, <2>1 DEF Valid, ToSet
<1> QED BY <1>1, <1>2

\* A raw number means a valid one just if that is what normalizing leaves.
LEMMA MeansNormalized ==
    ASSUME NEW raw \in Seq(Symbol), NEW n \in [1..Digits -> Digit]
    PROVE  Means(raw, n) <=> n = Normalize(raw)
<1> DEFINE u == Unseparated(raw)
           t == TrimPrefix(u, <<"+", "1">>)
           m == TrimPrefix(t, <<"1">>)
<1>0. Digits \in Nat \ {0} /\ "1" \in Digit /\ "+" \notin Digit /\ "+" # "1"
  BY NumberFormat
<1>1. /\ n \in Seq(Symbol) /\ Len(n) = Digits /\ n[1] \in Digit
      /\ \A i \in 1..Digits : n[i] \in Digit
  BY <1>0 DEF Symbol
<1>2. u \in Seq(Symbol) /\ Normalize(raw) = m
  BY UnseparatedTyped DEF Normalize
<1>3. Means(raw, n) <=> \/ u = <<"1">> \o n \/ u = <<"+", "1", "1">> \o n
                        \/ n[1] # "1" /\ (u = n \/ u = <<"+", "1">> \o n)
  <2>1. <<>> \o n = n
    BY <1>1
  <2> QED BY <2>1 DEF Means, Spellings
<1> HIDE DEF u
<1>4. t = IF Len(u) > 1 /\ u[1] = "+" /\ u[2] = "1" THEN SubSeq(u, 3, Len(u)) ELSE u
  BY <1>2, Trimmed
<1> HIDE DEF t
<1>5. t \in Seq(Symbol)
  BY <1>2, <1>4
<1>6. m = IF Len(t) > 0 /\ t[1] = "1" THEN SubSeq(t, 2, Len(t)) ELSE t
  BY <1>5, Trimmed
<1> HIDE DEF m
<1>7. ASSUME u = <<"1">> \o n PROVE n = m
  <2>1. /\ Len(u) = Digits + 1 /\ u[1] = "1" /\ t = u
        /\ SubSeq(u, 2, Len(u)) = n
    BY <1>0, <1>1, <1>4, <1>7
  <2> QED BY <1>0, <1>6, <2>1
<1>8. ASSUME u = <<"+", "1", "1">> \o n PROVE n = m
  <2>1. /\ Len(u) = Digits + 3 /\ u[1] = "+" /\ u[2] = "1"
        /\ SubSeq(u, 3, Len(u)) = <<"1">> \o n
    BY <1>0, <1>1, <1>8
  <2>2. t = <<"1">> \o n
    BY <1>0, <1>4, <2>1
  <2>3. Len(t) = Digits + 1 /\ t[1] = "1" /\ SubSeq(t, 2, Len(t)) = n
    BY <1>0, <1>1, <2>2
  <2> QED BY <1>0, <1>6, <2>3
<1>9. ASSUME n[1] # "1", u = n PROVE n = m
  BY <1>0, <1>1, <1>4, <1>6, <1>9
<1>10. ASSUME n[1] # "1", u = <<"+", "1">> \o n PROVE n = m
  <2>1. /\ Len(u) = Digits + 2 /\ u[1] = "+" /\ u[2] = "1"
        /\ SubSeq(u, 3, Len(u)) = n
    BY <1>0, <1>1, <1>10
  <2>2. t = n
    BY <1>0, <1>4, <2>1
  <2> QED BY <1>0, <1>1, <1>6, <1>10, <2>2
<1>11. ASSUME n = m
       PROVE  \/ u = <<"1">> \o n \/ u = <<"+", "1", "1">> \o n
              \/ n[1] # "1" /\ (u = n \/ u = <<"+", "1">> \o n)
  <2>1. CASE Len(t) > 0 /\ t[1] = "1"
    <3>1. t = <<"1">> \o n
      BY <1>5, <1>6, <1>11, <2>1
    <3>2. CASE t = u
      BY <3>1, <3>2
    <3>3. CASE t # u
      <4>1. Len(u) > 1 /\ u[1] = "+" /\ u[2] = "1" /\ t = SubSeq(u, 3, Len(u))
        BY <1>4, <3>3
      <4>2. u = <<"+", "1">> \o t
        BY <1>2, <4>1
      <4>3. u = <<"+", "1", "1">> \o n
        BY <1>1, <3>1, <4>2
      <4> QED BY <4>3
    <3> QED BY <3>2, <3>3
  <2>2. CASE ~ (Len(t) > 0 /\ t[1] = "1")
    <3>1. t = n /\ n[1] # "1"
      BY <1>0, <1>1, <1>6, <1>11, <2>2
    <3>2. CASE t # u
      <4>1. Len(u) > 1 /\ u[1] = "+" /\ u[2] = "1" /\ t = SubSeq(u, 3, Len(u))
        BY <1>4, <3>2
      <4>2. u = <<"+", "1">> \o t
        BY <1>2, <4>1
      <4> QED BY <3>1, <4>2
    <3> QED BY <3>1, <3>2
  <2> QED BY <2>1, <2>2
<1> QED BY <1>2, <1>3, <1>7, <1>8, <1>9, <1>10, <1>11

\* What entry i of a request comes to.
Outcome(raw, got, i, found) ==
    IF Valid(Normalize(raw))
    THEN Result(Normalize(raw),
                IF got[i] = "nothing" THEN Normalize(raw) \in found ELSE got[i] = "hit")
    ELSE Refusal(raw)

\* That is what it comes to on its own.
LEMMA AloneIsOutcome ==
    ASSUME NEW raw \in Seq(Symbol), NEW got, NEW i, NEW found
    PROVE  AnsweredAlone(raw, got, i, found, [1..Digits -> Digit]) = Outcome(raw, got, i, found)
<1> DEFINE m == Normalize(raw)
           Numbers == [1..Digits -> Digit]
<1>1. \A n \in Numbers : Means(raw, n) <=> n = m
  BY MeansNormalized
<1>2. Valid(m) <=> m \in Numbers
  BY NormalizeTyped, ValidNumbers
<1>3. CASE Valid(m)
  <2>1. m \in Numbers /\ Means(raw, m)
    BY <1>1, <1>2, <1>3
  <2> DEFINE c == CHOOSE n \in Numbers : Means(raw, n)
  <2>2. c = m
    BY <1>1, <2>1
  <2>3. AnsweredAlone(raw, got, i, found, Numbers)
          = Result(c, IF got[i] = "nothing" THEN c \in found ELSE got[i] = "hit")
    BY <2>1 DEF AnsweredAlone
  <2> HIDE DEF c, Numbers, m
  <2>4. Outcome(raw, got, i, found)
          = Result(m, IF got[i] = "nothing" THEN m \in found ELSE got[i] = "hit")
    BY <1>3 DEF Outcome, m
  <2> QED BY <2>2, <2>3, <2>4 DEF Numbers
<1>4. CASE ~ Valid(m)
  BY <1>1, <1>2, <1>4 DEF AnsweredAlone, Outcome
<1> QED BY <1>3, <1>4

-----------------------------------------------------------------------------
(* The passes of a bulk query.                                             *)

\* How many entries of a sequence are of X.
Count(s, X) == Cardinality({i \in DOMAIN s : s[i] \in X})

\* Counts are numbers, that of everything is the length.
LEMMA CountTyped ==
    ASSUME NEW S, NEW s \in Seq(S)
    PROVE  /\ \A X : Count(s, X) \in Nat
           /\ Count(s, S) = Len(s)
           /\ \A X : Count(<<>>, X) = 0
<1> DEFINE n == Len(s)
<1>0. n \in Nat /\ DOMAIN s = 1..n
  OBVIOUS
<1>1. IsFiniteSet(1..n) /\ Cardinality(1..n) = n
  <2> HIDE DEF n
  <2> QED BY <1>0, FS_Interval
<1>2. ASSUME NEW X PROVE Count(s, X) \in Nat
  <2>1. {i \in DOMAIN s : s[i] \in X} \in SUBSET (1..n)
    BY <1>0
  <2> QED BY <1>1, <2>1, FS_Subset, FS_CardinalityType DEF Count
<1>3. Count(s, S) = Len(s)
  <2>1. {i \in DOMAIN s : s[i] \in S} = 1..Len(s)
    BY <1>0
  <2> QED BY <1>1, <2>1 DEF Count
<1>4. ASSUME NEW X PROVE Count(<<>>, X) = 0
  <2>1. {i \in DOMAIN <<>> : <<>>[i] \in X} = {}
    OBVIOUS
  <2> QED BY <2>1, FS_EmptySet DEF Count
<1> QED BY <1>2, <1>3, <1>4

\* One more entry.
LEMMA CountAppend ==
    ASSUME NEW S, NEW s \in Seq(S), NEW e \in S, NEW X
    PROVE  Count(Append(s, e), X) = Count(s, X) + One(e \in X)
<1> DEFINE n == Len(s)
           t == Append(s, e)
           A == {i \in DOMAIN s : s[i] \in X}
           B == {i \in DOMAIN t : t[i] \in X}
<1>1. /\ n \in Nat /\ DOMAIN s = 1..n /\ DOMAIN t = 1..n + 1
      /\ \A i \in 1..n : t[i] = s[i]
      /\ t[n + 1] = e
  OBVIOUS
<1>2. IsFiniteSet(A) /\ n + 1 \notin A
  <2>1. A \in SUBSET (1..n)
    BY <1>1
  <2>2. IsFiniteSet(1..n)
    <3> HIDE DEF n
    <3> QED BY <1>1, FS_Interval
  <2> QED BY <1>1, <2>1, <2>2, FS_Subset
<1> HIDE DEF t
<1>3. CASE e \in X
  <2>1. B = A \cup {n + 1}
    BY <1>1, <1>3
  <2> HIDE DEF A, B, n
  <2>2. Cardinality(B) = Cardinality(A) + 1
    BY <1>2, <2>1, FS_AddElement
  <2> QED BY <1>3, <2>2 DEF Count, One, A, B, t
<1>4. CASE e \notin X
  <2>1. B = A
    BY <1>1, <1>4
  <2>2. Cardinality(A) \in Nat
    BY <1>2, FS_CardinalityType
  <2> HIDE DEF A, B
  <2>3. Cardinality(B) = Cardinality(A) + 0
    BY <2>1, <2>2
  <2> QED BY <1>4, <2>3 DEF Count, One, A, B, t
<1> QED BY <1>3, <1>4

\* How often one result comes, and how often it comes among others.
LEMMA TimesCount ==
    ASSUME NEW s, NEW x
    PROVE  Times(s, x) = Count(s, {x})
BY DEF Times, Count

\* Results and refusals.
Answers == [number : Seq(Symbol), dno : BOOLEAN, error : BOOLEAN]

Hits == {r \in Answers : r.dno}

Clean == {r \in Answers : ~ r.error}

\* What an answer is put together from: the hits are those of the results, and the
\* log has the results that are no refusals.
Assembly ==
    {acc \in [results : Seq(Answers), hits : Nat, logged : Seq(Answers),
              rest : Seq(Seq(Symbol))] :
        /\ acc.hits = Count(acc.results, Hits)
        /\ \A X : Count(acc.logged, X) = Count(acc.results, X \cap Clean)}

\* A result goes to all three.
LEMMA GiveKeeps ==
    ASSUME NEW acc \in Assembly, NEW r \in Clean
    PROVE  /\ Give(acc, r) \in Assembly
           /\ Give(acc, r).results = Append(acc.results, r) /\ Give(acc, r).rest = acc.rest
<1> DEFINE results == Append(acc.results, r)
           hits == acc.hits + One(r.dno)
           logged == Append(acc.logged, r)
           new == [results |-> results, hits |-> hits, logged |-> logged, rest |-> acc.rest]
<1>1. /\ acc \in [results : Seq(Answers), hits : Nat, logged : Seq(Answers),
                  rest : Seq(Seq(Symbol))]
      /\ acc.hits = Count(acc.results, Hits)
      /\ \A X : Count(acc.logged, X) = Count(acc.results, X \cap Clean)
  BY DEF Assembly
<1>2. r \in Answers /\ (r \in Hits <=> r.dno)
  BY DEF Clean, Hits
<1>3. Give(acc, r) = new
  <2>1. Give(acc, r) = [acc EXCEPT !.results = results, !.hits = hits, !.logged = logged]
    BY DEF Give
  <2> HIDE DEF results, hits, logged
  <2> QED BY <1>1, <2>1
<1>4. results \in Seq(Answers) /\ hits \in Nat /\ logged \in Seq(Answers)
  BY <1>1, <1>2 DEF One
<1>5. hits = Count(results, Hits)
  <2>1. Count(results, Hits) = Count(acc.results, Hits) + One(r \in Hits)
    BY <1>1, <1>2, CountAppend
  <2> QED BY <1>1, <1>2, <2>1 DEF One
<1>6. ASSUME NEW X PROVE Count(logged, X) = Count(results, X \cap Clean)
  <2>1. Count(logged, X) = Count(acc.logged, X) + One(r \in X)
    BY <1>1, <1>2, CountAppend
  <2>2. Count(results, X \cap Clean) = Count(acc.results, X \cap Clean) + One(r \in X \cap Clean)
    BY <1>1, <1>2, CountAppend
  <2>3. r \in X <=> r \in X \cap Clean
    OBVIOUS
  <2> QED BY <1>1, <2>1, <2>2, <2>3
<1>7. /\ new.results = results /\ new.hits = hits /\ new.logged = logged /\ new.rest = acc.rest
  OBVIOUS
<1> HIDE DEF results, hits, logged
<1>8. new \in [results : Seq(Answers), hits : Nat, logged : Seq(Answers), rest : Seq(Seq(Symbol))]
  BY <1>1, <1>4
<1> HIDE DEF new
<1> QED BY <1>3, <1>5, <1>6, <1>7, <1>8 DEF Assembly, results

\* A refusal goes to the results only.
LEMMA RefusalKeeps ==
    ASSUME NEW acc \in Assembly, NEW raw \in Seq(Symbol), NEW new,
           new = [acc EXCEPT !.results = Append(@, Refusal(raw))]
    PROVE  /\ new \in Assembly /\ Refusal(raw) \in Answers
           /\ new.results = Append(acc.results, Refusal(raw)) /\ new.rest = acc.rest
<1> DEFINE r == Refusal(raw)
           results == Append(acc.results, r)
<1>1. /\ acc \in [results : Seq(Answers), hits : Nat, logged : Seq(Answers),
                  rest : Seq(Seq(Symbol))]
      /\ acc.hits = Count(acc.results, Hits)
      /\ \A X : Count(acc.logged, X) = Count(acc.results, X \cap Clean)
  BY DEF Assembly
<1>2. r \in Answers /\ r \notin Hits /\ r \notin Clean
  BY DEF Refusal, Answers, Hits, Clean
<1> HIDE DEF r
<1>3. results \in Seq(Answers) /\ new = [acc EXCEPT !.results = results]
  BY <1>1, <1>2 DEF r
<1>4. Count(acc.results, Hits) = Count(results, Hits)
  <2>1. Count(results, Hits) = Count(acc.results, Hits) + One(r \in Hits)
    BY <1>1, <1>2, CountAppend
  <2> QED BY <1>1, <1>2, <2>1 DEF One
<1>5. ASSUME NEW X PROVE Count(acc.logged, X) = Count(results, X \cap Clean)
  <2>1. Count(results, X \cap Clean) = Count(acc.results, X \cap Clean) + One(r \in X \cap Clean)
    BY <1>1, <1>2, CountAppend
  <2>2. Count(acc.results, X \cap Clean) \in Nat
    BY <1>1, CountTyped
  <2> QED BY <1>1, <1>2, <2>1, <2>2 DEF One
<1> HIDE DEF results
<1>6. /\ new \in [results : Seq(Answers), hits : Nat, logged : Seq(Answers),
                  rest : Seq(Seq(Symbol))]
      /\ new.results = results /\ new.hits = acc.hits /\ new.logged = acc.logged
      /\ new.rest = acc.rest
  BY <1>1, <1>3
<1>7. new \in Assembly
  BY <1>1, <1>4, <1>5, <1>6 DEF Assembly
<1> QED BY <1>2, <1>6, <1>7 DEF r, results

\* The results that waiting numbers will get.
Waiting(rest, found) == [k \in DOMAIN rest |-> Result(rest[k], rest[k] \in found)]

\* The outcomes of all entries.
Outcomes(list, got, found) == [i \in DOMAIN list |-> Outcome(list[i], got, i, found)]

\* The first pass after i entries: with what is waiting it has their outcomes.
Entering(list, got, found, i) ==
    {acc \in Assembly :
        \A X : Count(acc.results, X) + Count(Waiting(acc.rest, found), X)
                 = Count(SubSeq(Outcomes(list, got, found), 1, i), X)}

\* An outcome is an answer.
LEMMA OutcomeTyped ==
    ASSUME NEW list \in Seq(Seq(Symbol)), NEW got, NEW found, NEW j \in 1..Len(list)
    PROVE  Outcome(list[j], got, j, found) \in Answers
<1>1. list[j] \in Seq(Symbol) /\ Normalize(list[j]) \in Seq(Symbol)
  BY NormalizeTyped
<1> DEFINE n == Normalize(list[j])
           dno == IF got[j] = "nothing" THEN n \in found ELSE got[j] = "hit"
<1>2. dno \in BOOLEAN
  <2>1. CASE IF got[j] = "nothing" THEN n \in found ELSE got[j] = "hit"
    <3>1. dno = TRUE
      BY <2>1
    <3> HIDE DEF dno
    <3> QED BY <3>1
  <2>2. CASE ~ IF got[j] = "nothing" THEN n \in found ELSE got[j] = "hit"
    <3>1. dno = FALSE
      BY <2>2
    <3> HIDE DEF dno
    <3> QED BY <3>1
  <2> QED BY <2>1, <2>2
<1> HIDE DEF n, dno
<1>3. Outcome(list[j], got, j, found) = IF Valid(n) THEN Result(n, dno) ELSE Refusal(list[j])
  BY DEF Outcome, n, dno
<1> QED BY <1>1, <1>2, <1>3 DEF Result, Refusal, Answers, n

\* So are all of them.
LEMMA OutcomesTyped ==
    ASSUME NEW list \in Seq(Seq(Symbol)), NEW got, NEW found
    PROVE  /\ Outcomes(list, got, found) \in Seq(Answers)
           /\ Len(Outcomes(list, got, found)) = Len(list)
           /\ \A i \in 1..Len(list) :
                 Outcomes(list, got, found)[i] = Outcome(list[i], got, i, found)
<1> DEFINE l == Len(list)
           o == Outcomes(list, got, found)
<1>1. l \in Nat /\ o \in [1..l -> Answers]
  <2>1. \A i \in 1..Len(list) : Outcome(list[i], got, i, found) \in Answers
    BY OutcomeTyped
  <2>2. o = [i \in 1..Len(list) |-> Outcome(list[i], got, i, found)]
    BY DEF Outcomes
  <2>3. o \in [1..Len(list) -> Answers]
    <3> HIDE DEF o
    <3> QED BY <2>1, <2>2
  <2> QED BY <2>3
<1>2. \A i \in 1..l : o[i] = Outcome(list[i], got, i, found)
  BY DEF Outcomes
<1> HIDE DEF l, o
<1>3. o \in Seq(Answers) /\ Len(o) = l
  BY <1>1
<1> QED BY <1>2, <1>3 DEF l, o

\* A prefix that is one longer.
LEMMA PrefixAppend ==
    ASSUME NEW S, NEW w \in Seq(S), NEW k \in 1..Len(w)
    PROVE  /\ SubSeq(w, 1, k - 1) \in Seq(S) /\ w[k] \in S
           /\ SubSeq(w, 1, k) = Append(SubSeq(w, 1, k - 1), w[k])
<1> DEFINE s == SubSeq(w, 1, k - 1)
           t == SubSeq(w, 1, k)
<1>1. /\ s \in Seq(S) /\ Len(s) = k - 1 /\ t \in Seq(S) /\ Len(t) = k /\ w[k] \in S
      /\ \A j \in 1..k - 1 : s[j] = w[j]
      /\ \A j \in 1..k : t[j] = w[j]
  OBVIOUS
<1> HIDE DEF s, t
<1>2. Append(s, w[k]) \in Seq(S) /\ Len(Append(s, w[k])) = k
  BY <1>1
<1>3. ASSUME NEW j \in 1..k PROVE t[j] = Append(s, w[k])[j]
  BY <1>1
<1>4. t = Append(s, w[k])
  BY <1>1, <1>2, <1>3, SeqEqual
<1> QED BY <1>1, <1>4 DEF s, t

\* The empty prefix and the whole.
LEMMA PrefixEnds ==
    ASSUME NEW S, NEW w \in Seq(S)
    PROVE  SubSeq(w, 1, 0) = <<>> /\ SubSeq(w, 1, Len(w)) = w
OBVIOUS

\* One more that waits.
LEMMA WaitingAppend ==
    ASSUME NEW rest \in Seq(Seq(Symbol)), NEW n \in Seq(Symbol), NEW found
    PROVE  /\ Waiting(rest, found) \in Seq(Answers)
           /\ Result(n, n \in found) \in Answers
           /\ Waiting(Append(rest, n), found) = Append(Waiting(rest, found), Result(n, n \in found))
<1>1. ASSUME NEW m \in Seq(Symbol) PROVE Result(m, m \in found) \in Answers
  BY DEF Result, Answers
<1>2. ASSUME NEW s \in Seq(Seq(Symbol))
      PROVE  Waiting(s, found) \in Seq(Answers) /\ Len(Waiting(s, found)) = Len(s)
             /\ \A k \in 1..Len(s) : Waiting(s, found)[k] = Result(s[k], s[k] \in found)
  <2>1. \A k \in 1..Len(s) : Result(s[k], s[k] \in found) \in Answers
    BY <1>1
  <2>2. Waiting(s, found) = [k \in 1..Len(s) |-> Result(s[k], s[k] \in found)]
    BY DEF Waiting
  <2> DEFINE t == Waiting(s, found)
             l == Len(s)
  <2>3. l \in Nat /\ t \in [1..l -> Answers]
    BY <2>1, <2>2
  <2>4. \A k \in 1..l : t[k] = Result(s[k], s[k] \in found)
    BY <2>2
  <2> HIDE DEF t, l
  <2>5. t \in Seq(Answers) /\ Len(t) = l
    BY <2>3
  <2> QED BY <2>4, <2>5 DEF t, l
<1> DEFINE s == Append(rest, n)
           v == Waiting(s, found)
           w == Waiting(rest, found)
           r == Result(n, n \in found)
<1>3. s \in Seq(Seq(Symbol)) /\ Len(s) = Len(rest) + 1 /\ s[Len(s)] = n
      /\ \A k \in 1..Len(rest) : s[k] = rest[k]
  OBVIOUS
<1>4. /\ v \in Seq(Answers) /\ Len(v) = Len(s) /\ w \in Seq(Answers) /\ Len(w) = Len(rest)
      /\ \A k \in 1..Len(s) : v[k] = Result(s[k], s[k] \in found)
      /\ \A k \in 1..Len(rest) : w[k] = Result(rest[k], rest[k] \in found)
  BY <1>2, <1>3
<1>5. r \in Answers
  BY <1>1
<1> HIDE DEF s, v, w
<1>6. v[Len(s)] = r /\ Len(rest) \in Nat
  BY <1>3, <1>4
<1> HIDE DEF r
<1>7. Append(w, r) \in Seq(Answers) /\ Len(Append(w, r)) = Len(v)
  BY <1>3, <1>4, <1>5
<1>8. ASSUME NEW k \in 1..Len(v) PROVE v[k] = Append(w, r)[k]
  <2>1. CASE k \in 1..Len(rest)
    <3>1. v[k] = Result(s[k], s[k] \in found) /\ w[k] = Result(rest[k], rest[k] \in found)
      BY <1>4, <2>1
    <3>2. Append(w, r)[k] = w[k] /\ s[k] = rest[k]
      BY <1>3, <1>4, <1>5, <2>1
    <3> QED BY <3>1, <3>2
  <2>2. CASE k = Len(s)
    BY <1>3, <1>4, <1>5, <1>6, <2>2
  <2> QED BY <1>3, <1>4, <1>6, <2>1, <2>2
<1>9. v = Append(w, r)
  BY <1>4, <1>7, <1>8, SeqEqual
<1> QED BY <1>1, <1>4, <1>9 DEF v, w, s, r

\* An entry of the request.
LEMMA EnteredKeeps ==
    ASSUME NEW list \in Seq(Seq(Symbol)), NEW got, NEW found, NEW i \in 1..Len(list),
           NEW acc \in Entering(list, got, found, i - 1)
    PROVE  Entered(acc, list, got, i) \in Entering(list, got, found, i)
<1> DEFINE raw == list[i]
           n == Normalize(raw)
           o == Outcome(raw, got, i, found)
           before == SubSeq(Outcomes(list, got, found), 1, i - 1)
           after == SubSeq(Outcomes(list, got, found), 1, i)
           new == Entered(acc, list, got, i)
<1>0. /\ acc \in Assembly /\ acc.results \in Seq(Answers) /\ acc.rest \in Seq(Seq(Symbol))
      /\ \A X : Count(acc.results, X) + Count(Waiting(acc.rest, found), X) = Count(before, X)
  BY DEF Entering, Assembly
<1>1. raw \in Seq(Symbol) /\ n \in Seq(Symbol)
  BY NormalizeTyped
<1>3. /\ before \in Seq(Answers) /\ o \in Answers /\ after = Append(before, o)
  <2> DEFINE all == Outcomes(list, got, found)
  <2>1. all \in Seq(Answers) /\ i \in 1..Len(all) /\ all[i] = o
    BY OutcomesTyped
  <2> HIDE DEF all, o
  <2>2. /\ SubSeq(all, 1, i - 1) \in Seq(Answers) /\ all[i] \in Answers
        /\ SubSeq(all, 1, i) = Append(SubSeq(all, 1, i - 1), all[i])
    BY <2>1, PrefixAppend
  <2> QED BY <2>1, <2>2 DEF all
<1>4. Waiting(acc.rest, found) \in Seq(Answers)
  BY <1>0, <1>1, WaitingAppend
<1>5. /\ o = IF Valid(n) THEN Result(n, IF got[i] = "nothing" THEN n \in found ELSE got[i] = "hit")
                        ELSE Refusal(raw)
  BY DEF Outcome
<1> HIDE DEF o, before, after
<1>6. ASSUME NEW X PROVE Count(after, X) = Count(before, X) + One(o \in X)
  BY <1>3, CountAppend
<1>7. ASSUME NEW X
      PROVE  /\ Count(acc.results, X) \in Nat /\ Count(Waiting(acc.rest, found), X) \in Nat
             /\ One(o \in X) \in Nat
  BY <1>0, <1>4, CountTyped DEF One
<1>8. ASSUME new \in Assembly, new.results = Append(acc.results, o), new.rest = acc.rest
      PROVE  new \in Entering(list, got, found, i)
  <2> HIDE DEF new
  <2>1. ASSUME NEW X
        PROVE  Count(new.results, X) + Count(Waiting(new.rest, found), X) = Count(after, X)
    <3>1. Count(new.results, X) = Count(acc.results, X) + One(o \in X)
      BY <1>0, <1>3, <1>8, CountAppend
    <3>2. Count(acc.results, X) + Count(Waiting(acc.rest, found), X) = Count(before, X)
      BY <1>0
    <3> QED BY <1>6, <1>7, <1>8, <3>1, <3>2
  <2> QED BY <1>8, <2>1 DEF Entering, after
<1>9. CASE ~ Valid(n)
  <2>1. new = [acc EXCEPT !.results = Append(@, Refusal(raw))] /\ o = Refusal(raw)
    BY <1>5, <1>9 DEF Entered
  <2>2. new \in Assembly /\ new.results = Append(acc.results, o) /\ new.rest = acc.rest
    <3> HIDE DEF new, raw
    <3> QED BY <1>0, <1>1, <2>1, RefusalKeeps
  <2> QED BY <1>8, <2>2
<1>10. CASE Valid(n) /\ got[i] # "nothing"
  <2>1. new = Give(acc, o) /\ o = Result(n, got[i] = "hit")
    BY <1>5, <1>10 DEF Entered
  <2>2. o \in Clean
    BY <1>3, <2>1 DEF Clean, Result
  <2> QED BY <1>0, <1>8, <2>1, <2>2, GiveKeeps
<1>11. CASE Valid(n) /\ got[i] = "nothing"
  <2>1. new = [acc EXCEPT !.rest = Append(@, n)] /\ o = Result(n, n \in found)
    BY <1>5, <1>11 DEF Entered
  <2> DEFINE rest == Append(acc.rest, n)
  <2>2. rest \in Seq(Seq(Symbol))
    BY <1>0, <1>1
  <2>3. /\ Waiting(rest, found) = Append(Waiting(acc.rest, found), o)
    BY <1>0, <1>1, <2>1, WaitingAppend
  <2>4. new = [acc EXCEPT !.rest = rest]
    BY <2>1
  <2> HIDE DEF rest, new
  <2>5. acc \in [results : Seq(Answers), hits : Nat, logged : Seq(Answers), rest : Seq(Seq(Symbol))]
        /\ acc.hits = Count(acc.results, Hits)
        /\ \A X : Count(acc.logged, X) = Count(acc.results, X \cap Clean)
    BY <1>0 DEF Assembly
  <2>6. /\ new \in [results : Seq(Answers), hits : Nat, logged : Seq(Answers), rest : Seq(Seq(Symbol))]
        /\ new.results = acc.results /\ new.hits = acc.hits /\ new.logged = acc.logged
        /\ new.rest = rest
    BY <2>2, <2>4, <2>5
  <2>7. new \in Assembly
    BY <2>5, <2>6 DEF Assembly
  <2>8. ASSUME NEW X
        PROVE  Count(new.results, X) + Count(Waiting(new.rest, found), X) = Count(after, X)
    <3>1. Count(Waiting(rest, found), X) = Count(Waiting(acc.rest, found), X) + One(o \in X)
      BY <1>3, <1>4, <2>3, CountAppend
    <3>2. Count(acc.results, X) + Count(Waiting(acc.rest, found), X) = Count(before, X)
      BY <1>0
    <3> QED BY <1>6, <1>7, <2>6, <3>1, <3>2
  <2> QED BY <2>7, <2>8 DEF Entering, after, new
<1> QED BY <1>9, <1>10, <1>11

\* The first pass answers some entries and has the others waiting.
LEMMA FirstPassEnters ==
    ASSUME NEW list \in Seq(Seq(Symbol)), NEW got, NEW found
    PROVE  FirstPass(list, got) \in Entering(list, got, found, Len(list))
<1> DEFINE N == Len(list)
           Step(s, i) == Entered(s, list, got, i)
           at == [i \in 0..N |-> Entering(list, got, found, i)]
           step == [i \in 1..N |-> [s \in at[i - 1] |-> Step(s, i)]]
           base == Unanswered
           Is(f) == f = [i \in 0..N |-> IF i = 0 THEN base ELSE Step(f[i - 1], i)]
<1>1. N \in Nat /\ base \in at[0]
  <2>1. N \in Nat
    OBVIOUS
  <2>2. Unanswered \in [results : Seq(Answers), hits : Nat, logged : Seq(Answers),
                        rest : Seq(Seq(Symbol))]
        /\ Unanswered.results = <<>> /\ Unanswered.logged = <<>> /\ Unanswered.hits = 0
        /\ Unanswered.rest = <<>>
    BY DEF Unanswered
  <2>3. \A X : Count(<<>>, X) = 0
    <3>1. <<>> \in Seq(Answers)
      OBVIOUS
    <3> QED BY <3>1, CountTyped
  <2>4. Unanswered \in Assembly
    BY <2>2, <2>3 DEF Assembly
  <2>5. Waiting(<<>>, found) = <<>>
    BY DEF Waiting
  <2>6. SubSeq(Outcomes(list, got, found), 1, 0) = <<>>
    <3> DEFINE w == Outcomes(list, got, found)
    <3>1. w \in Seq(Answers)
      BY OutcomesTyped
    <3> HIDE DEF w
    <3>2. SubSeq(w, 1, 0) = <<>>
      BY <3>1, PrefixEnds
    <3> QED BY <3>2 DEF w
  <2>7. Unanswered \in Entering(list, got, found, 0)
    <3> DEFINE u == Unanswered
               none == SubSeq(Outcomes(list, got, found), 1, 0)
    <3>1. u \in Assembly /\ u.results = <<>> /\ u.rest = <<>> /\ none = <<>>
      BY <2>2, <2>4, <2>6
    <3> HIDE DEF u, none
    <3>2. \A X : Count(u.results, X) + Count(Waiting(u.rest, found), X) = Count(none, X)
      BY <2>3, <2>5, <3>1
    <3> QED BY <3>1, <3>2 DEF Entering, u, none
  <2> QED BY <2>1, <2>7
<1>2. ASSUME NEW i \in 1..N, NEW s \in at[i - 1] PROVE Step(s, i) \in at[i]
  <2>1. i - 1 \in 0..N /\ i \in 0..N
    BY <1>1
  <2>2. s \in Entering(list, got, found, i - 1)
    BY <2>1
  <2> QED BY <2>1, <2>2, EnteredKeeps
<1>3. FirstPass(list, got) = (CHOOSE f : Is(f))[N]
  BY DEF FirstPass
<1>0. at[N] = Entering(list, got, found, N)
  BY <1>1
<1> HIDE DEF N, at, Step, base
<1>4. ASSUME NEW f, f[0] = base, \A i \in 1..N : f[i - 1] \in at[i - 1] => f[i] = Step(f[i - 1], i)
      PROVE  \A i \in 0..N : f[i] \in at[i]
  BY <1>1, <1>2, <1>4, AllTheWay
<1>5. PICK f : Path(f, N, base, step)
  BY <1>1, PathExists
<1>6. ASSUME NEW i \in 1..N, f[i - 1] \in at[i - 1] PROVE f[i] = Step(f[i - 1], i)
  <2>1. step[i][f[i - 1]] = Step(f[i - 1], i)
    BY <1>6
  <2> HIDE DEF step
  <2> QED BY <1>5, <2>1 DEF Path
<1>7. f = [i \in 0..N |-> f[i]] /\ f[0] = base
  BY <1>5 DEF Path
<1>8. Is(f)
  <2>1. \A i \in 0..N : f[i] \in at[i]
    BY <1>4, <1>6, <1>7
  <2>2. ASSUME NEW i \in 0..N PROVE f[i] = IF i = 0 THEN base ELSE Step(f[i - 1], i)
    <3>1. CASE i = 0
      BY <1>7, <3>1
    <3>2. CASE i # 0
      <4>1. i \in 1..N /\ i - 1 \in 0..N
        BY <1>1, <3>2
      <4>2. f[i] = Step(f[i - 1], i)
        BY <1>6, <2>1, <4>1
      <4> QED BY <3>2, <4>2
    <3> QED BY <3>1, <3>2
  <2> QED BY <1>7, <2>2
<1>9. Is(CHOOSE u : Is(u))
  <2> HIDE DEF Is
  <2> QED BY <1>8
<1> DEFINE v == CHOOSE u : Is(u)
<1>10. v[0] = base /\ \A i \in 1..N : v[i] = Step(v[i - 1], i)
  <2> HIDE DEF v
  <2>1. v = [i \in 0..N |-> IF i = 0 THEN base ELSE Step(v[i - 1], i)]
    BY <1>9 DEF v
  <2>2. \A i \in 0..N : v[i] = IF i = 0 THEN base ELSE Step(v[i - 1], i)
    BY <2>1
  <2>3. 0 \in 0..N /\ \A i \in 1..N : i \in 0..N /\ i # 0
    BY <1>1
  <2> QED BY <2>2, <2>3
<1>11. v[N] \in at[N]
  <2> HIDE DEF v
  <2>1. \A i \in 0..N : v[i] \in at[i]
    BY <1>4, <1>10
  <2> QED BY <1>1, <2>1
<1> QED BY <1>0, <1>3, <1>11 DEF N

\* The second pass after k of the waiting numbers.
Giving(acc, found, k) ==
    {a \in Assembly :
        \A X : Count(a.results, X)
                 = Count(acc.results, X) + Count(SubSeq(Waiting(acc.rest, found), 1, k), X)}

\* The next of the waiting numbers.
LEMMA GivenKeeps ==
    ASSUME NEW acc \in Assembly, NEW found, NEW k \in 1..Len(acc.rest),
           NEW s \in Giving(acc, found, k - 1)
    PROVE  Give(s, Result(acc.rest[k], acc.rest[k] \in found)) \in Giving(acc, found, k)
<1> DEFINE w == Waiting(acc.rest, found)
           n == acc.rest[k]
           r == Result(n, n \in found)
           new == Give(s, r)
<1>1. acc.rest \in Seq(Seq(Symbol)) /\ acc.results \in Seq(Answers) /\ s.results \in Seq(Answers)
  BY DEF Assembly, Giving
<1>2. n \in Seq(Symbol)
  BY <1>1
<1>3. w \in Seq(Answers) /\ k \in 1..Len(w) /\ w[k] = r
  <2>1. w \in Seq(Answers)
    BY <1>1, <1>2, WaitingAppend
  <2>2. DOMAIN w = 1..Len(acc.rest) /\ w[k] = r
    BY <1>1 DEF Waiting
  <2> QED BY <2>1, <2>2
<1>4. r \in Clean
  <2>1. r \in Answers
    BY <1>1, <1>2, WaitingAppend
  <2> QED BY <2>1 DEF Clean, Result
<1> DEFINE before == SubSeq(w, 1, k - 1)
           after == SubSeq(w, 1, k)
<1>5. before \in Seq(Answers) /\ r \in Answers /\ after = Append(before, r)
  <2> HIDE DEF w, r
  <2> QED BY <1>3, PrefixAppend
<1>6. s \in Assembly /\ \A X : Count(s.results, X) = Count(acc.results, X) + Count(before, X)
  BY DEF Giving
<1> HIDE DEF w, r, before, after
<1>7. new \in Assembly /\ new.results = Append(s.results, r)
  BY <1>4, <1>6, GiveKeeps
<1> HIDE DEF new
<1>8. ASSUME NEW X PROVE Count(new.results, X) = Count(acc.results, X) + Count(after, X)
  <2>1. Count(new.results, X) = Count(s.results, X) + One(r \in X)
    BY <1>1, <1>5, <1>7, CountAppend
  <2>2. Count(after, X) = Count(before, X) + One(r \in X)
    BY <1>5, CountAppend
  <2>3. Count(acc.results, X) \in Nat /\ Count(before, X) \in Nat /\ One(r \in X) \in Nat
    BY <1>1, <1>5, CountTyped DEF One
  <2> QED BY <1>6, <2>1, <2>2, <2>3
<1> QED BY <1>7, <1>8 DEF Giving, new, r, after, w

\* With the second pass all are answered.
LEMMA SecondPassGives ==
    ASSUME NEW acc \in Assembly, NEW found
    PROVE  SecondPass(acc, found) \in Giving(acc, found, Len(acc.rest))
<1> DEFINE N == Len(acc.rest)
           Step(s, k) == Give(s, Result(acc.rest[k], acc.rest[k] \in found))
           at == [k \in 0..N |-> Giving(acc, found, k)]
           step == [k \in 1..N |-> [s \in at[k - 1] |-> Step(s, k)]]
           Is(f) == f = [k \in 0..N |-> IF k = 0 THEN acc ELSE Step(f[k - 1], k)]
<1>1. N \in Nat /\ acc \in at[0]
  <2>1. acc.rest \in Seq(Seq(Symbol)) /\ acc.results \in Seq(Answers)
    BY DEF Assembly
  <2> DEFINE w == Waiting(acc.rest, found)
  <2>2. w \in Seq(Answers)
    <3>1. <<>> \in Seq(Symbol)
      OBVIOUS
    <3> QED BY <2>1, <3>1, WaitingAppend
  <2>3. SubSeq(w, 1, 0) = <<>>
    <3> HIDE DEF w
    <3> QED BY <2>2, PrefixEnds
  <2>4. \A X : Count(acc.results, X) \in Nat /\ Count(<<>>, X) = 0
    BY <2>1, CountTyped
  <2> DEFINE none == SubSeq(w, 1, 0)
  <2>5. \A X : Count(acc.results, X) = Count(acc.results, X) + Count(none, X)
    <3>1. none = <<>>
      BY <2>3
    <3> HIDE DEF none
    <3> QED BY <2>4, <3>1
  <2> QED BY <2>1, <2>5 DEF Giving
<1>2. ASSUME NEW k \in 1..N, NEW s \in at[k - 1] PROVE Step(s, k) \in at[k]
  <2>1. k - 1 \in 0..N /\ k \in 0..N
    BY <1>1
  <2>2. s \in Giving(acc, found, k - 1)
    BY <2>1
  <2> QED BY <2>1, <2>2, GivenKeeps
<1>3. SecondPass(acc, found) = (CHOOSE f : Is(f))[N]
  BY DEF SecondPass
<1>0. at[N] = Giving(acc, found, N)
  BY <1>1
<1> HIDE DEF N, at, Step
<1>4. ASSUME NEW f, f[0] = acc, \A k \in 1..N : f[k - 1] \in at[k - 1] => f[k] = Step(f[k - 1], k)
      PROVE  \A k \in 0..N : f[k] \in at[k]
  BY <1>1, <1>2, <1>4, AllTheWay
<1>5. PICK f : Path(f, N, acc, step)
  BY <1>1, PathExists
<1>6. ASSUME NEW k \in 1..N, f[k - 1] \in at[k - 1] PROVE f[k] = Step(f[k - 1], k)
  <2>1. step[k][f[k - 1]] = Step(f[k - 1], k)
    BY <1>6
  <2> HIDE DEF step
  <2> QED BY <1>5, <2>1 DEF Path
<1>7. f = [k \in 0..N |-> f[k]] /\ f[0] = acc
  BY <1>5 DEF Path
<1>8. Is(f)
  <2>1. \A k \in 0..N : f[k] \in at[k]
    BY <1>4, <1>6, <1>7
  <2>2. ASSUME NEW k \in 0..N PROVE f[k] = IF k = 0 THEN acc ELSE Step(f[k - 1], k)
    <3>1. CASE k = 0
      BY <1>7, <3>1
    <3>2. CASE k # 0
      <4>1. k \in 1..N /\ k - 1 \in 0..N
        BY <1>1, <3>2
      <4>2. f[k] = Step(f[k - 1], k)
        BY <1>6, <2>1, <4>1
      <4> QED BY <3>2, <4>2
    <3> QED BY <3>1, <3>2
  <2> QED BY <1>7, <2>2
<1>9. Is(CHOOSE u : Is(u))
  <2> HIDE DEF Is
  <2> QED BY <1>8
<1> DEFINE v == CHOOSE u : Is(u)
<1>10. v[0] = acc /\ \A k \in 1..N : v[k] = Step(v[k - 1], k)
  <2> HIDE DEF v
  <2>1. v = [k \in 0..N |-> IF k = 0 THEN acc ELSE Step(v[k - 1], k)]
    BY <1>9 DEF v
  <2>2. \A k \in 0..N : v[k] = IF k = 0 THEN acc ELSE Step(v[k - 1], k)
    BY <2>1
  <2>3. 0 \in 0..N /\ \A k \in 1..N : k \in 0..N /\ k # 0
    BY <1>1
  <2> QED BY <2>2, <2>3
<1>11. v[N] \in at[N]
  <2> HIDE DEF v
  <2>1. \A k \in 0..N : v[k] \in at[k]
    BY <1>4, <1>10
  <2> QED BY <1>1, <2>1
<1> QED BY <1>0, <1>3, <1>11 DEF N

\* Both passes: the results are the outcomes of the entries, in some order.
LEMMA BothPasses ==
    ASSUME NEW list \in Seq(Seq(Symbol)), NEW got, NEW found, NEW a,
           a = SecondPass(FirstPass(list, got), found)
    PROVE  a \in Assembly /\ \A X : Count(a.results, X) = Count(Outcomes(list, got, found), X)
<1> DEFINE acc == FirstPass(list, got)
           all == Outcomes(list, got, found)
           w == Waiting(acc.rest, found)
<1>1. acc \in Entering(list, got, found, Len(list))
  BY FirstPassEnters
<1>2. acc \in Assembly /\ acc.rest \in Seq(Seq(Symbol)) /\ acc.results \in Seq(Answers)
  BY <1>1 DEF Entering, Assembly
<1>3. all \in Seq(Answers) /\ Len(all) = Len(list)
  BY OutcomesTyped
<1>4. w \in Seq(Answers) /\ Len(w) = Len(acc.rest)
  <2>1. <<>> \in Seq(Symbol)
    OBVIOUS
  <2>2. w \in Seq(Answers)
    BY <1>2, <2>1, WaitingAppend
  <2>3. DOMAIN w = 1..Len(acc.rest)
    BY <1>2 DEF Waiting
  <2> QED BY <1>2, <2>2, <2>3
<1>5. SubSeq(all, 1, Len(list)) = all
  <2> HIDE DEF all
  <2> QED BY <1>3, PrefixEnds
<1>6. SubSeq(w, 1, Len(acc.rest)) = w
  <2> HIDE DEF w
  <2> QED BY <1>4, PrefixEnds
<1>7. a \in Giving(acc, found, Len(acc.rest))
  BY <1>2, SecondPassGives
<1>8. \A X : Count(acc.results, X) + Count(w, X) = Count(all, X)
  BY <1>1, <1>5 DEF Entering
<1>9. a \in Assembly /\ \A X : Count(a.results, X) = Count(acc.results, X) + Count(w, X)
  BY <1>6, <1>7 DEF Giving
<1> QED BY <1>8, <1>9

-----------------------------------------------------------------------------
(* Bulk queries.                                                           *)

\* A bulk request has what its first pass left, and answers with what the second
\* makes of it.
BulkInv ==
    topic = "bulk" /\ req # Idle =>
        /\ {"list", "got", "first"} \subseteq DOMAIN req
        /\ req.list \in Lists
        /\ req.first = FirstPass(req.list, req.got)
        /\ req.pc = "answered" =>
              /\ {"found", "answer"} \subseteq DOMAIN req
              /\ req.answer = BulkAnswer(req.list, SecondPass(req.first, req.found))

\* Priming the request's fields primes what is said of them.
LEMMA BulkPrimed ==
    ASSUME NEW first, first = FirstPass(req'.list, req'.got),
           NEW answer, answer = BulkAnswer(req'.list, SecondPass(req'.first, req'.found)),
           {"list", "got", "first"} \subseteq DOMAIN req',
           req'.list \in Lists, req'.first = first,
           req'.pc = "answered" => /\ {"found", "answer"} \subseteq DOMAIN req'
                                   /\ req'.answer = answer
    PROVE  BulkInv'
BY DEF BulkInv

\* What changes by others leave of a bulk request.
LEMMA BulkMoved ==
    ASSUME Posed, Moved, BulkInv
    PROVE  BulkInv'
<1> SUFFICES ASSUME topic' = "bulk", req' # Idle
             PROVE  BulkInv'
  BY DEF BulkInv
<1>0. topic = "bulk" /\ req # Idle
  BY DEF Moved
<1>1. /\ DOMAIN req' = DOMAIN req
      /\ \A x \in DOMAIN req \ {"moments", "grew", "shrank", "overtaken"} : req'[x] = req[x]
  BY <1>0, Carried
<1> DEFINE first == FirstPass(req.list, req.got)
           answer == BulkAnswer(req.list, SecondPass(req.first, req.found))
           firstNow == FirstPass(req'.list, req'.got)
           answerNow == BulkAnswer(req'.list, SecondPass(req'.first, req'.found))
<1>2. /\ {"list", "got", "first"} \subseteq DOMAIN req /\ "pc" \in DOMAIN req
      /\ req.list \in Lists /\ req.first = first
      /\ req.pc = "answered" => {"found", "answer"} \subseteq DOMAIN req /\ req.answer = answer
  BY <1>0 DEF BulkInv, Posed
<1>3. /\ req'.list = req.list /\ req'.got = req.got /\ req'.first = req.first
      /\ req'.pc = req.pc
      /\ req.pc = "answered" => req'.found = req.found /\ req'.answer = req.answer
  BY <1>1, <1>2
<1>4. firstNow = first /\ (req.pc = "answered" => answerNow = answer)
  BY <1>3
<1> HIDE DEF first, answer, firstNow, answerNow
<1>5. /\ {"list", "got", "first"} \subseteq DOMAIN req' /\ req'.list \in Lists
      /\ req'.first = firstNow
      /\ req'.pc = "answered" => /\ {"found", "answer"} \subseteq DOMAIN req'
                                 /\ req'.answer = answerNow
  BY <1>1, <1>2, <1>3, <1>4
<1> QED BY <1>5, BulkPrimed DEF firstNow, answerNow

\* It begins with the first pass.
LEMMA BulkBegins ==
    ASSUME NEW list \in Lists, BulkStart(list)
    PROVE  BulkInv'
<1>1. PICK got : Begin("bulk", "select", [list |-> list, got |-> got,
                                          first |-> FirstPass(list, got)])
  BY DEF BulkStart
<1> DEFINE first == FirstPass(list, got)
           fields == [list |-> list, got |-> got, first |-> first]
<1>2. Begin("bulk", "select", fields)
  BY <1>1
<1> HIDE DEF first
<1>3. /\ DOMAIN fields = {"list", "got", "first"} /\ fields.list = list
      /\ fields.got = got /\ fields.first = first
  OBVIOUS
<1> HIDE DEF fields
<1>4. /\ req'.pc = "select" /\ req'.list = list /\ req'.got = got /\ req'.first = first
      /\ {"list", "got", "first"} \subseteq DOMAIN req'
  <2>1. /\ DOMAIN req' = {"pc", "moments", "grew", "shrank", "overtaken"} \cup DOMAIN fields
        /\ req'.pc = "select"
        /\ \A x \in DOMAIN fields \ {"pc", "moments", "grew", "shrank", "overtaken"} :
              req'[x] = fields[x]
    BY <1>2, BeginShape
  <2> QED BY <1>3, <2>1
<1>5. first = FirstPass(req'.list, req'.got)
  BY <1>4 DEF first
<1> DEFINE answer == BulkAnswer(req'.list, SecondPass(req'.first, req'.found))
<1>6. answer = BulkAnswer(req'.list, SecondPass(req'.first, req'.found))
  OBVIOUS
<1> HIDE DEF answer
<1> QED BY <1>4, <1>5, <1>6, BulkPrimed

\* The SELECT and the second pass.
LEMMA BulkReplies ==
    ASSUME Posed, BulkInv, topic = "bulk", BulkSelect
    PROVE  BulkInv'
<1>0. req.pc = "select" /\ req # Idle
  BY DEF BulkSelect, Idle
<1> DEFINE found == {n \in ToSet(req.first.rest) : Listed(db, n)}
           first == FirstPass(req.list, req.got)
           answer == BulkAnswer(req.list, SecondPass(req.first, found))
           fields == [found |-> found, answer |-> answer]
<1>1. To("answered", fields)
  BY DEF BulkSelect, BulkReply
<1> HIDE DEF found, answer
<1>2. DOMAIN fields = {"found", "answer"} /\ fields.found = found /\ fields.answer = answer
  OBVIOUS
<1> HIDE DEF fields, first
<1>3. {"list", "got", "first"} \subseteq DOMAIN req /\ req.list \in Lists /\ req.first = first
  BY <1>0 DEF BulkInv, first
<1>4. /\ {"list", "got", "first", "found", "answer"} \subseteq DOMAIN req'
      /\ req'.list = req.list /\ req'.got = req.got /\ req'.first = req.first
      /\ req'.found = found /\ req'.answer = answer
  <2>1. /\ DOMAIN req' = DOMAIN req \cup DOMAIN fields
        /\ \A y \in DOMAIN fields : req'[y] = fields[y]
        /\ \A y \in DOMAIN req \ DOMAIN fields : y # "pc" => req'[y] = req[y]
    BY <1>0, <1>1, <1>2, ToShape
  <2> QED BY <1>2, <1>3, <2>1
<1>5. first = FirstPass(req'.list, req'.got)
  BY <1>4 DEF first
<1>6. answer = BulkAnswer(req'.list, SecondPass(req'.first, req'.found))
  BY <1>4 DEF answer
<1> QED BY <1>3, <1>4, <1>5, <1>6, BulkPrimed

\* Every step keeps what a bulk request rests on.
LEMMA BulkStep ==
    ASSUME Typed, DatabaseInv, Posed, BulkInv, [Next]_vars
    PROVE  BulkInv'
<1>1. CASE Others
  BY <1>1, OthersMove, BulkMoved
<1>2. CASE Requests
  <2>1. topic' = topic
    BY <1>2, RequestsPosed
  <2>2. CASE topic # "bulk" \/ Fail
    BY <2>1, <2>2 DEF BulkInv, Fail
  <2>3. CASE topic = "bulk" /\ ~ Fail
    <3>1. (\E list \in Lists : BulkStart(list)) \/ BulkSelect
      BY <1>2, <2>3, OnTopic
    <3> QED BY <2>3, <3>1, BulkBegins, BulkReplies
  <2> QED BY <2>2, <2>3
<1>3. CASE UNCHANGED vars
  <2>1. topic' = topic /\ req' = req
    BY <1>3 DEF vars
  <2>2. CASE topic = "bulk" /\ req # Idle
    <3> DEFINE first == FirstPass(req.list, req.got)
               answer == BulkAnswer(req.list, SecondPass(req.first, req.found))
    <3>1. /\ first = FirstPass(req'.list, req'.got)
          /\ answer = BulkAnswer(req'.list, SecondPass(req'.first, req'.found))
      BY <2>1
    <3>2. /\ {"list", "got", "first"} \subseteq DOMAIN req
          /\ req.list \in Lists /\ req.first = first
          /\ req.pc = "answered" => /\ {"found", "answer"} \subseteq DOMAIN req
                                    /\ req.answer = answer
      BY <2>2 DEF BulkInv
    <3> HIDE DEF first, answer
    <3> QED BY <2>1, <3>1, <3>2, BulkPrimed
  <2>3. CASE topic # "bulk" \/ req = Idle
    BY <2>1, <2>3 DEF BulkInv
  <2> QED BY <2>2, <2>3
<1> QED BY <1>1, <1>2, <1>3 DEF Next

\* What is made of a list has a result for each of its entries, and the hits and the
\* log are those of the results.
LEMMA AssemblyAnswers ==
    ASSUME NEW a \in Assembly, NEW all \in Seq(Answers),
           \A X : Count(a.results, X) = Count(all, X)
    PROVE  /\ IsPermutationOf(a.results, all)
           /\ a.hits \in Nat /\ a.hits = Cardinality({i \in DOMAIN all : all[i].dno})
           /\ \A r \in ToSet(a.logged) \cup ToSet(all) :
                 Times(a.logged, r) = IF r.error THEN 0 ELSE Times(all, r)
<1>1. /\ a.results \in Seq(Answers) /\ a.logged \in Seq(Answers) /\ a.hits \in Nat
      /\ a.hits = Count(a.results, Hits)
      /\ \A X : Count(a.logged, X) = Count(a.results, X \cap Clean)
  BY DEF Assembly
<1>2. Len(a.results) = Len(all)
  <2>1. Count(a.results, Answers) = Len(a.results) /\ Count(all, Answers) = Len(all)
    BY <1>1, CountTyped
  <2> QED BY <2>1
<1>3. \A x : Times(a.results, x) = Times(all, x)
  <2>1. \A x : Count(a.results, {x}) = Count(all, {x})
    OBVIOUS
  <2> QED BY <2>1, TimesCount
<1>4. IsPermutationOf(a.results, all)
  BY <1>2, <1>3 DEF IsPermutationOf
<1>5. a.hits = Cardinality({i \in DOMAIN all : all[i].dno})
  <2>1. {i \in DOMAIN all : all[i] \in Hits} = {i \in DOMAIN all : all[i].dno}
    <3>1. \A i \in DOMAIN all : all[i] \in Answers
      OBVIOUS
    <3> QED BY <3>1 DEF Hits
  <2>2. a.hits = Count(all, Hits)
    BY <1>1
  <2> QED BY <2>1, <2>2 DEF Count
<1>6. ASSUME NEW r \in ToSet(a.logged) \cup ToSet(all)
      PROVE  Times(a.logged, r) = IF r.error THEN 0 ELSE Times(all, r)
  <2>1. r \in Answers
    <3>1. \A i \in DOMAIN a.logged : a.logged[i] \in Answers
      BY <1>1
    <3>2. \A i \in DOMAIN all : all[i] \in Answers
      OBVIOUS
    <3> QED BY <3>1, <3>2 DEF ToSet
  <2>2. Times(a.logged, r) = Count(all, {r} \cap Clean)
    BY <1>1, TimesCount
  <2>3. CASE r.error
    <3>1. {r} \cap Clean = {}
      BY <2>3 DEF Clean
    <3>2. Count(all, {}) = 0
      <4>1. {i \in DOMAIN all : all[i] \in {}} = {}
        OBVIOUS
      <4> QED BY <4>1, FS_EmptySet DEF Count
    <3> QED BY <2>2, <2>3, <3>1, <3>2
  <2>4. CASE ~ r.error
    <3>1. {r} \cap Clean = {r}
      BY <2>1, <2>4 DEF Clean
    <3> QED BY <2>2, <2>4, <3>1, TimesCount
  <2> QED BY <2>3, <2>4
<1> QED BY <1>1, <1>4, <1>5, <1>6

\* At the end every entry has its answer.
LEMMA BulkEnds == BulkInv => BulkAnswersEach
<1> SUFFICES ASSUME BulkInv, topic = "bulk", req.pc = "answered"
             PROVE  BulkAnswersEach
  BY DEF BulkAnswersEach, Answered
<1>1. req # Idle
  BY DEF Idle
<1> DEFINE list == req.list
           a == SecondPass(FirstPass(list, req.got), req.found)
           all == Outcomes(list, req.got, req.found)
           alone == [i \in DOMAIN req.list |->
                        AnsweredAlone(req.list[i], req.got, i, req.found,
                                      [1..Digits -> Digit])]
<1>2. list \in Seq(Seq(Symbol))
  BY <1>1, InstanceParameters DEF BulkInv
<1>3. req.answer = BulkAnswer(list, a)
  BY <1>1 DEF BulkInv
<1>4. alone = all
  <2>1. \A i \in DOMAIN list : list[i] \in Seq(Symbol)
    BY <1>2
  <2>2. \A i \in DOMAIN list :
           AnsweredAlone(list[i], req.got, i, req.found, [1..Digits -> Digit])
             = Outcome(list[i], req.got, i, req.found)
    BY <2>1, AloneIsOutcome
  <2> QED BY <2>2 DEF Outcomes
<1>5. all \in Seq(Answers) /\ Len(all) = Len(list)
  BY <1>2, OutcomesTyped
<1>6. a \in Assembly /\ \A X : Count(a.results, X) = Count(all, X)
  BY <1>2, BothPasses
<1> HIDE DEF a, all
<1>7. /\ IsPermutationOf(a.results, all)
      /\ a.hits \in Nat /\ a.hits = Cardinality({i \in DOMAIN all : all[i].dno})
      /\ \A r \in ToSet(a.logged) \cup ToSet(all) :
            Times(a.logged, r) = IF r.error THEN 0 ELSE Times(all, r)
  BY <1>5, <1>6, AssemblyAnswers
<1>8. /\ req.answer.results = a.results /\ req.answer.logged = a.logged
      /\ req.answer.total = Len(list) /\ req.answer.hits = a.hits
      /\ req.answer.misses = Len(list) - a.hits
  BY <1>3 DEF BulkAnswer
<1>9. Len(list) \in Nat
  BY <1>2
<1> HIDE DEF list, alone
<1>10. /\ IsPermutationOf(req.answer.results, alone)
       /\ req.answer.total = Len(alone)
       /\ req.answer.hits + req.answer.misses = req.answer.total
       /\ req.answer.hits = Cardinality({i \in DOMAIN alone : alone[i].dno})
       /\ \A r \in ToSet(req.answer.logged) \cup ToSet(alone) :
             Times(req.answer.logged, r) = IF r.error THEN 0 ELSE Times(alone, r)
  BY <1>4, <1>5, <1>7, <1>8, <1>9
<1> QED BY <1>10 DEF BulkAnswersEach, alone

-----------------------------------------------------------------------------
(* The invariant and what follows from it.                                 *)

IInv ==
    /\ Typed /\ DatabaseInv /\ Posed
    /\ WalkInv /\ SummaryInv /\ ComplianceInv /\ AnalysisInv /\ BulkInv

\* It holds at the start: one entry in the trail, nothing logged, nothing asked.
LEMMA InitIInv == Init => IInv
<1> SUFFICES ASSUME Init PROVE IInv
  OBVIOUS
<1>0. MaxChanges \in Nat /\ MaxLogged \in Nat /\ topic \in Topics
  BY InstanceParameters DEF Init
<1>1. PICK t \in InitTables[topic] :
        db = [dno |-> t, at |-> InitStamps, audit |-> <<0>>, queries |-> 0, hits |-> 0]
  BY DEF Init
<1>2. t \in DNOTable /\ topic \in Topic /\ InitStamps \in [Key -> 0..1]
  BY <1>0, InstanceParameters
<1>3. <<0>> \in UNION {[1..n -> 0..MaxChanges + 1] : n \in 0..MaxChanges + 1}
  <2>1. <<0>> \in Seq(0..MaxChanges + 1) /\ Len(<<0>>) = 1
    BY <1>0
  <2>2. Len(<<0>>) <= MaxChanges + 1
    BY <1>0, <2>1
  <2> QED BY <2>1, <2>2, TrailsAreSequences
<1>4. InitStamps \in [Key -> 0..MaxChanges + 1]
  BY <1>0, <1>2
<1>5. db \in Databases /\ replica = db
  <2>1. 0 \in 0..MaxLogged
    BY <1>0
  <2> DEFINE trail == <<0>>
             stamps == InitStamps
  <2>2. /\ trail \in UNION {[1..n -> 0..MaxChanges + 1] : n \in 0..MaxChanges + 1}
        /\ db = [dno |-> t, at |-> stamps, audit |-> trail, queries |-> 0, hits |-> 0]
        /\ stamps \in [Key -> 0..MaxChanges + 1]
    BY <1>1, <1>3, <1>4
  <2> HIDE DEF trail, stamps
  <2> QED BY <1>2, <2>1, <2>2 DEF Databases, Init
<1>6. /\ db.at = InitStamps /\ db.audit = <<0>> /\ db.queries = 0 /\ db.hits = 0
  BY <1>1
<1>7. Typed
  BY <1>0, <1>2, <1>5 DEF Typed, Init
<1>8. DatabaseInv
  <2>1. Grown(replica, db)
    BY <1>5, GrownReflexive
  <2>2. Len(db.audit) = 1
    BY <1>6
  <2>3. \A k \in Key : db.at[k] <= 1
    BY <1>2, <1>6
  <2> QED BY <1>5, <1>6, <2>1, <2>2, <2>3 DEF DatabaseInv, Init
<1>9. req = Idle /\ summary = None /\ req.pc = "idle"
  BY DEF Init, Idle
<1> QED BY <1>7, <1>8, <1>9 DEF IInv, Posed, WalkInv, SummaryInv, CacheInv, StaleSummaryHasACause,
           SummaryAddsUp, HoursHoldAll, Answered, ComplianceInv, AnalysisInv, BulkInv

\* Every step keeps types and the database.
LEMMA DatabaseStep ==
    ASSUME Typed, DatabaseInv, Posed, [Next]_vars
    PROVE  Typed' /\ DatabaseInv' /\ Posed'
<1>1. CASE Others
  BY <1>1, OthersMove, OthersPosed
<1>2. CASE Requests
  BY <1>2, RequestsPosed DEF Typed, DatabaseInv
<1>3. CASE UNCHANGED vars
  BY <1>3 DEF vars, Typed, DatabaseInv, Posed, InPlace, Source, OnReplica
<1> QED BY <1>1, <1>2, <1>3 DEF Next

\* It is an invariant of the specification.
LEMMA Invariance == Spec => []IInv
<1>1. IInv /\ [Next]_vars => IInv'
  BY DatabaseStep, WalkStep, SummaryStep, ComplianceStep, AnalysisStep, BulkStep DEF IInv
<1> QED BY <1>1, InitIInv, PTL DEF Spec

\* The list, the stamps, the trail and the log keep to their types and bounds, a
\* cached summary has all its entries, and a request is at one of its statements.
THEOREM TypeCorrect == Spec => []TypeOK
<1>1. IInv => TypeOK
  BY DEF IInv, Typed, Posed, InPlace, SummaryInv, CacheInv, TypeOK, Idle
<1> QED BY <1>1, Invariance, PTL

\* ListNumbers and GetAuditLog, page after page, while others add, remove and list
\* again: what was left alone was on one of the pages, for any page size.
THEOREM WalksSeeUntouched == Spec => []WalkSeesUntouched
<1>1. IInv => WalkSeesUntouched
  BY WalkEnds DEF IInv
<1> QED BY <1>1, Invariance, PTL

\* GetAnalytics and its cache: a cached summary whose counts of the list are not the
\* list's has one of the causes.
THEOREM StaleSummariesHaveCauses == Spec => []StaleSummaryHasACause
<1>1. IInv => StaleSummaryHasACause
  BY DEF IInv, SummaryInv, CacheInv
<1> QED BY <1>1, Invariance, PTL

\* GetAnalytics: the hours are read last, so they hold what was counted before, and
\* the groups of a list that stands still add up to its total.
THEOREM SummariesAddUp == Spec => []SummaryAddsUp
<1>1. IInv => SummaryAddsUp
  BY DEF IInv, SummaryInv
<1> QED BY <1>1, Invariance, PTL

\* AnalyzeTraffic: what it lists and what it passes over was so at some moment, for
\* any list, batches and order, and its counts add up to the calls.
THEOREM AnalysesAreJustified == Spec => []AnalysisIsJustified
<1>1. IInv => AnalysisIsJustified
  BY AnalysisEnds DEF IInv
<1> QED BY <1>1, Invariance, PTL

\* BulkQuery: one answer per entry, whatever the numbers, their spelling, repetitions
\* and what of them is cached; the counts and the log agree with the answers.
THEOREM BulkQueriesAnswerEach == Spec => []BulkAnswersEach
<1>1. IInv => BulkAnswersEach
  BY BulkEnds DEF IInv
<1> QED BY <1>1, Invariance, PTL

\* GenerateComplianceReport: "compliant" is earned, whichever statements fail.
THEOREM ComplianceIsEarned == Spec => []CompliantIsEarned
<1>1. IInv => CompliantIsEarned
  BY ComplianceEnds DEF IInv
<1> QED BY <1>1, Invariance, PTL
=============================================================================
