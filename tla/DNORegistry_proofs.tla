------------------------- MODULE DNORegistry_proofs -------------------------
(***************************************************************************)
(* Proofs about DNORegistry for every set of numbers, organizations and    *)
(* calls.  The argument: each statement keeps a table good (typed, system  *)
(* rows active, provenance right) and keeps the organization of every row  *)
(* it finds; so what a call saw when it changed a row is still true when   *)
(* it writes its audit entry, whatever ran in between.  And a row's label  *)
(* is the one of the last feed that listed its key, so what the WHERE      *)
(* clauses of removals and porting events ask of the label they ask of the *)
(* calls made so far.                                                      *)
(***************************************************************************)
EXTENDS DNORegistry, TLAPS

\* The table part of the invariant, as a predicate of a table.
GoodRow(r, k) ==
    /\ r.dataset \in {"itg", "tss_registry"} => r.status = "active"
    /\ r.dataset = "subscriber" => r.org \in Orgs
    /\ r.dataset = "tss_registry" => k[2] = "text" /\ r.org = NoOrg

GoodTable(t) ==
    /\ t \in DNOTable
    /\ \A k \in Key : Exists(t, k) => GoodRow(t[k], k)

\* Table u has every row of table t, of the same organization, and no row of a
\* system dataset has become a subscriber row.
KeepsRows(t, u) ==
    \A k \in Key : Exists(t, k) =>
        /\ Exists(u, k) /\ u[k].org = t[k].org
        /\ t[k].dataset # "subscriber" => u[k].dataset # "subscriber"

\* Every row of table t has its dataset in table u.
KeepsDatasets(t, u) ==
    \A k \in Key : Exists(t, k) => Exists(u, k) /\ u[k].dataset = t[k].dataset

\* Every row that table u has and table t has not is a subscriber row.
OnlySubscribersAreNew(t, u) ==
    \A k \in Key : Exists(u, k) /\ ~ Exists(t, k) => u[k].dataset = "subscriber"

\* The label of each row of table t is that of the last feed, by l, to list its key.
LabelsAreLastFeeds(t, l) ==
    \A k \in Key :
        /\ ~ Exists(t, k) => l[k] = "none"
        /\ Exists(t, k) =>
             /\ t[k].dataset = "subscriber" <=> l[k] = "none"
             /\ t[k].dataset = "itg" <=> l[k] = "itg"
             /\ t[k].dataset = "tss_registry" <=> l[k] = "tss"
             /\ t[k].dataset = "auto" <=> l[k] = "npac"
        /\ l[k] = "npac" => k[2] = "voice"

\* No row of table t is off the list in table u.
KeepsActive(t, u) == \A k \in Key : Active(t, k) => Active(u, k)

-----------------------------------------------------------------------------
(* What each statement does to a good table.                               *)

\* AddNumber's upsert keeps a table good and every row's organization.
LEMMA UpsertSubscriberGood ==
    ASSUME NEW t, GoodTable(t), NEW p \in Phones, NEW c \in Channel, NEW o \in Orgs
    PROVE  /\ GoodTable(UpsertSubscriber(t, p, c, o))
           /\ KeepsRows(t, UpsertSubscriber(t, p, c, o))
           /\ KeepsActive(t, UpsertSubscriber(t, p, c, o))
           /\ KeepsDatasets(t, UpsertSubscriber(t, p, c, o))
           /\ OnlySubscribersAreNew(t, UpsertSubscriber(t, p, c, o))
           /\ Exists(UpsertSubscriber(t, p, c, o), <<p, c>>)
<1> DEFINE u == UpsertSubscriber(t, p, c, o)
           new == [dataset |-> "subscriber", status |-> "active", org |-> o]
<1>0. t \in DNOTable /\ <<p, c>> \in Key
  BY DEF GoodTable, Key
<1>1. new \in Row /\ new # NoRow /\ new.org \in Orgs /\ new.dataset = "subscriber"
  BY NullsAreNotValues DEF Row, Dataset, Status
<1>2. \A k \in Key : k # <<p, c>> => u[k] = t[k]
  BY <1>0 DEF UpsertSubscriber, DNOTable
<1>3. CASE Exists(t, <<p, c>>)
  <2> DEFINE r == t[<<p, c>>]
             s == [r EXCEPT !.status = "active"]
  <2>1. r \in Row /\ GoodRow(r, <<p, c>>)
    BY <1>0, <1>3 DEF GoodTable, DNOTable, Exists
  <2>2. u = [t EXCEPT ![<<p, c>>] = s]
    BY <1>3 DEF UpsertSubscriber
  <2>3. s \in Row /\ s.dataset = r.dataset /\ s.org = r.org /\ s.status = "active"
    BY <2>1 DEF Row, Status
  <2>4. s # NoRow /\ u[<<p, c>>] = s /\ u \in DNOTable
    BY <2>2, <2>3, <1>0, NullsAreNotValues DEF DNOTable
  <2> HIDE DEF r, s, u
  <2>5. GoodRow(s, <<p, c>>)
    BY <2>1, <2>3 DEF GoodRow
  <2>6. GoodTable(u)
    BY <1>2, <2>4, <2>5 DEF GoodTable, Exists
  <2>7. KeepsRows(t, u) /\ KeepsActive(t, u) /\ Exists(u, <<p, c>>)
    BY <1>2, <2>3, <2>4 DEF KeepsRows, KeepsActive, Active, Exists, r
  <2>8. KeepsDatasets(t, u) /\ OnlySubscribersAreNew(t, u)
    BY <1>2, <1>3, <2>3, <2>4 DEF KeepsDatasets, OnlySubscribersAreNew, Exists, r
  <2> QED BY <2>6, <2>7, <2>8 DEF u
<1>4. CASE ~ Exists(t, <<p, c>>)
  <2>1. u = [t EXCEPT ![<<p, c>>] = new]
    BY <1>4 DEF UpsertSubscriber
  <2>2. u[<<p, c>>] = new /\ u \in DNOTable
    BY <2>1, <1>0, <1>1 DEF DNOTable
  <2> HIDE DEF new, u
  <2>3. GoodRow(new, <<p, c>>)
    BY <1>1 DEF GoodRow
  <2>4. GoodTable(u)
    BY <1>2, <1>1, <2>2, <2>3 DEF GoodTable, Exists
  <2>5. KeepsRows(t, u) /\ KeepsActive(t, u) /\ Exists(u, <<p, c>>)
    BY <1>2, <1>1, <1>4, <2>2 DEF KeepsRows, KeepsActive, Active, Exists
  <2>6. KeepsDatasets(t, u) /\ OnlySubscribersAreNew(t, u)
    BY <1>2, <1>1, <1>4, <2>2 DEF KeepsDatasets, OnlySubscribersAreNew, Exists
  <2> QED BY <2>4, <2>5, <2>6 DEF u
<1> QED BY <1>3, <1>4

\* The upsert of ITG ingest and of disconnecting NPAC events does too, and puts the
\* key in the feed's dataset.
LEMMA UpsertSystemGood ==
    ASSUME NEW t, GoodTable(t), NEW p \in Phones, NEW c \in Channel,
           NEW d \in {"itg", "auto"}
    PROVE  /\ GoodTable(UpsertSystem(t, p, c, d))
           /\ KeepsRows(t, UpsertSystem(t, p, c, d))
           /\ KeepsActive(t, UpsertSystem(t, p, c, d))
           /\ Exists(UpsertSystem(t, p, c, d), <<p, c>>)
           /\ UpsertSystem(t, p, c, d)[<<p, c>>].dataset = d
           /\ \A k \in Key : k # <<p, c>> => UpsertSystem(t, p, c, d)[k] = t[k]
<1> DEFINE u == UpsertSystem(t, p, c, d)
           new == [dataset |-> d, status |-> "active", org |-> NoOrg]
<1>0. t \in DNOTable /\ <<p, c>> \in Key
  BY DEF GoodTable, Key
<1>1. new \in Row /\ new # NoRow /\ new.dataset = d /\ new.status = "active"
  BY NullsAreNotValues DEF Row, Dataset, Status
<1>2. \A k \in Key : k # <<p, c>> => u[k] = t[k]
  BY <1>0 DEF UpsertSystem, DNOTable
<1>3. CASE Exists(t, <<p, c>>)
  <2> DEFINE r == t[<<p, c>>]
             s == [r EXCEPT !.status = "active", !.dataset = d]
  <2>1. r \in Row
    BY <1>0, <1>3 DEF DNOTable, Exists
  <2>2. u = [t EXCEPT ![<<p, c>>] = s]
    BY <1>3 DEF UpsertSystem
  <2>3. s \in Row /\ s.dataset = d /\ s.org = r.org /\ s.status = "active"
    BY <2>1 DEF Row, Status, Dataset
  <2>4. s # NoRow /\ u[<<p, c>>] = s /\ u \in DNOTable
    BY <2>2, <2>3, <1>0, NullsAreNotValues DEF DNOTable
  <2> HIDE DEF r, s, u
  <2>5. GoodRow(s, <<p, c>>)
    BY <2>3 DEF GoodRow
  <2>6. GoodTable(u)
    BY <1>2, <2>4, <2>5 DEF GoodTable, Exists
  <2>7. KeepsRows(t, u) /\ KeepsActive(t, u)
    BY <1>2, <2>3, <2>4 DEF KeepsRows, KeepsActive, Active, Exists, r
  <2> QED BY <1>2, <2>3, <2>4, <2>6, <2>7 DEF u, Exists
<1>4. CASE ~ Exists(t, <<p, c>>)
  <2>1. u = [t EXCEPT ![<<p, c>>] = new]
    BY <1>4 DEF UpsertSystem
  <2>2. u[<<p, c>>] = new /\ u \in DNOTable
    BY <2>1, <1>0, <1>1 DEF DNOTable
  <2> HIDE DEF new, u
  <2>3. GoodRow(new, <<p, c>>)
    BY <1>1 DEF GoodRow
  <2>4. GoodTable(u)
    BY <1>2, <1>1, <2>2, <2>3 DEF GoodTable, Exists
  <2>5. KeepsRows(t, u) /\ KeepsActive(t, u)
    BY <1>2, <1>1, <1>4, <2>2 DEF KeepsRows, KeepsActive, Active, Exists
  <2> QED BY <1>1, <1>2, <2>2, <2>4, <2>5 DEF u, Exists
<1> QED BY <1>3, <1>4

\* So does an update to inactive that is confined to rows of no protected dataset.
LEMMA DeactivateGood ==
    ASSUME NEW t, GoodTable(t), NEW K \in SUBSET Key,
           \A k \in K : Exists(t, k) /\ t[k].dataset \notin {"itg", "tss_registry"}
    PROVE  /\ GoodTable(Deactivate(t, K))
           /\ KeepsRows(t, Deactivate(t, K))
           /\ KeepsDatasets(t, Deactivate(t, K))
           /\ OnlySubscribersAreNew(t, Deactivate(t, K))
           /\ \A k \in Key \ K : Deactivate(t, K)[k] = t[k]
<1> DEFINE u == Deactivate(t, K)
           s(k) == [t[k] EXCEPT !.status = "inactive"]
<1>0. t \in DNOTable
  BY DEF GoodTable
<1>1. \A k \in Key : u[k] = IF k \in K THEN s(k) ELSE t[k]
  BY DEF Deactivate
<1>2. \A k \in K : /\ s(k) \in Row
                   /\ s(k).dataset = t[k].dataset
                   /\ s(k).org = t[k].org
  <2> SUFFICES ASSUME NEW k \in K
               PROVE  /\ s(k) \in Row
                      /\ s(k).dataset = t[k].dataset
                      /\ s(k).org = t[k].org
    OBVIOUS
  <2>1. t[k] \in Row
    BY <1>0 DEF DNOTable, Exists
  <2> QED BY <2>1 DEF Row, Status
<1>3. u = [k \in Key |-> u[k]]
  BY DEF Deactivate
<1> HIDE DEF s, u
<1>4. \A k \in K : u[k] \in Row /\ u[k] # NoRow
  BY <1>1, <1>2, NullsAreNotValues
<1>5. u \in DNOTable
  BY <1>0, <1>1, <1>3, <1>4 DEF DNOTable
<1>6. \A k \in K : GoodRow(u[k], k)
  BY <1>1, <1>2 DEF GoodTable, GoodRow
<1>7. GoodTable(u)
  BY <1>1, <1>5, <1>6 DEF GoodTable, Exists
<1>8. KeepsRows(t, u)
  BY <1>1, <1>2, <1>4 DEF KeepsRows, Exists
<1>9. KeepsDatasets(t, u) /\ OnlySubscribersAreNew(t, u)
  BY <1>1, <1>2, <1>4 DEF KeepsDatasets, OnlySubscribersAreNew, Exists
<1> QED BY <1>1, <1>7, <1>8, <1>9 DEF u

\* A sync that meets no conflict writes only where there is no row.
LEMMA InsertTSSGood ==
    ASSUME NEW t, GoodTable(t), NEW r, ~ SyncConflict(t, r)
    PROVE  /\ GoodTable(InsertTSS(t, SyncTargets(t, r)))
           /\ KeepsRows(t, InsertTSS(t, SyncTargets(t, r)))
           /\ \A k \in Key : Exists(t, k) => InsertTSS(t, SyncTargets(t, r))[k] = t[k]
           /\ \A k \in Key :
                IF k \in SyncTargets(t, r) \X {"text"}
                THEN /\ Exists(InsertTSS(t, SyncTargets(t, r)), k)
                     /\ InsertTSS(t, SyncTargets(t, r))[k].dataset = "tss_registry"
                ELSE InsertTSS(t, SyncTargets(t, r))[k] = t[k]
<1> DEFINE P == SyncTargets(t, r)
           u == InsertTSS(t, P)
           new == [dataset |-> "tss_registry", status |-> "active", org |-> NoOrg]
<1>0. t \in DNOTable
  BY DEF GoodTable
<1>1. \A k \in Key : u[k] = IF k[1] \in P /\ k[2] = "text" THEN new ELSE t[k]
  BY DEF InsertTSS
<1>2. u = [k \in Key |-> u[k]]
  BY DEF InsertTSS
<1>3. new \in Row /\ new # NoRow /\ new.dataset = "tss_registry"
  BY NullsAreNotValues DEF Row, Dataset, Status
<1>4. \A k \in Key : k[2] = "text" => GoodRow(new, k)
  BY DEF GoodRow
<1>5. \A k \in Key : k[1] \in P /\ k[2] = "text" => ~ Exists(t, k)
  BY DEF SyncConflict, Key
<1> HIDE DEF P, u, new
<1>6. u \in DNOTable
  BY <1>0, <1>1, <1>2, <1>3 DEF DNOTable
<1>7. GoodTable(u)
  BY <1>1, <1>4, <1>6 DEF GoodTable, Exists
<1>8. \A k \in Key : Exists(t, k) => u[k] = t[k]
  BY <1>1, <1>5
<1>9. KeepsRows(t, u)
  BY <1>8 DEF KeepsRows, Exists
<1>10. \A k \in Key : IF k \in P \X {"text"}
                      THEN Exists(u, k) /\ u[k].dataset = "tss_registry"
                      ELSE u[k] = t[k]
  <2> SUFFICES ASSUME NEW k \in Key
               PROVE  IF k \in P \X {"text"}
                      THEN Exists(u, k) /\ u[k].dataset = "tss_registry"
                      ELSE u[k] = t[k]
    OBVIOUS
  <2>1. k \in P \X {"text"} <=> k[1] \in P /\ k[2] = "text"
    BY DEF Key
  <2> QED BY <1>1, <1>3, <2>1 DEF Exists
<1> QED BY <1>7, <1>8, <1>9, <1>10 DEF u, P

-----------------------------------------------------------------------------
(* The inductive invariant.                                                *)

\* What a call that has changed the table still finds there when it writes its
\* audit entry.
PendingAudits ==
    \A x \in Calls :
        /\ call[x].pc \in {"addSelect", "addAudit", "removeAudit"} => call[x].org \in Orgs
        /\ call[x].pc = "addAudit" => Exists(dno, <<call[x].phone, call[x].chan>>)
        /\ call[x].pc = "removeAudit" =>
             \E c \in Channel : /\ Exists(dno, <<call[x].phone, c>>)
                               /\ dno[<<call[x].phone, c>>].org = call[x].org

IInv ==
    /\ TypeOK
    /\ GoodTable(dno)
    /\ LabelsAreLastFeeds(dno, listedBy)
    /\ PendingAudits
    /\ AuditSound

\* The tables start empty.
LEMMA InitInv == Init => IInv
<1> SUFFICES ASSUME Init PROVE IInv
  OBVIOUS
<1>1. dno \in DNOTable /\ \A k \in Key : ~ Exists(dno, k)
  BY DEF Init, EmptyTable, DNOTable, Exists
<1>2. TypeOK
  BY <1>1, InputsAreValid DEF Init, TypeOK, Feed
<1>3. GoodTable(dno)
  BY <1>1 DEF GoodTable
<1>4. PendingAudits /\ AuditSound
  BY DEF Init, PendingAudits, AuditSound, Idle
<1>5. LabelsAreLastFeeds(dno, listedBy)
  BY <1>1 DEF Init, LabelsAreLastFeeds
<1> QED BY <1>2, <1>3, <1>4, <1>5 DEF IInv

\* A request in flight names a number, a channel and an organization.
LEMMA InFlightFields ==
    ASSUME TypeOK, NEW x \in Calls, call[x].pc \in Pending
    PROVE  /\ call[x].phone \in Phones
           /\ call[x].chan \in Channel
           /\ call[x].org \in Orgs \cup {NoOrg}
BY DEF TypeOK, InFlight, Idle, Pending

\* The keys a removal or an NPAC event touches are keys of the table.
LEMMA TargetsAreKeys ==
    ASSUME NEW t, NEW p \in Phones
    PROVE  /\ AutoTargets(t, p) \in SUBSET Key
           /\ \A c \in Channel, o \in Orgs : RemoveTargets(t, p, c, o) \in SUBSET Key
BY DEF AutoTargets, RemoveTargets, Covering, Channel, Key

\* Every step of every operation keeps the table good, and every row in it with
\* its organization.
LEMMA TableStep ==
    ASSUME TypeOK, GoodTable(dno), [Next]_vars
    PROVE  GoodTable(dno') /\ KeepsRows(dno, dno')
<1>0. dno' = dno => GoodTable(dno') /\ KeepsRows(dno, dno')
  BY DEF GoodTable, KeepsRows, Exists, GoodRow
<1>1. ASSUME NEW x \in Calls, NEW p \in Phones, NEW o \in Orgs, NEW c \in InputChannels,
             AddUpsert(x, p, c, o)
      PROVE  GoodTable(dno') /\ KeepsRows(dno, dno')
  BY <1>1, InputsAreValid, UpsertSubscriberGood DEF AddUpsert
<1>2. ASSUME NEW x \in Calls, NEW p \in Phones, NEW o \in Orgs, NEW c \in InputChannels,
             RemoveUpdate(x, p, c, o)
      PROVE  GoodTable(dno') /\ KeepsRows(dno, dno')
  <2> DEFINE K == RemoveTargets(dno, p, c, o)
  <2>1. c \in Channel /\ K \in SUBSET Key
    BY InputsAreValid, TargetsAreKeys
  <2>2. \A k \in K : Exists(dno, k) /\ dno[k].dataset \notin {"itg", "tss_registry"}
    BY DEF RemoveTargets
  <2>3. dno' = Deactivate(dno, K)
    BY <1>2 DEF RemoveUpdate
  <2> QED BY <2>1, <2>2, <2>3, DeactivateGood
<1>3. ASSUME NEW x \in Calls,
             AddSelect(x) \/ AddAudit(x) \/ RemoveGivesUp(x) \/ RemoveAudit(x)
      PROVE  dno' = dno
  BY <1>3 DEF AddSelect, AddAudit, RemoveGivesUp, RemoveAudit
<1>4. ASSUME NEW x \in Calls, NPACClear(x)
      PROVE  GoodTable(dno') /\ KeepsRows(dno, dno')
  <2> DEFINE p == call[x].phone
             K == AutoTargets(dno, p)
  <2>1. p \in Phones
    BY <1>4, InFlightFields DEF NPACClear, Pending
  <2>2. K \in SUBSET Key
    BY <2>1, TargetsAreKeys
  <2>3. \A k \in K : Exists(dno, k) /\ dno[k].dataset \notin {"itg", "tss_registry"}
    BY DEF AutoTargets, Active
  <2>4. dno' = Deactivate(dno, K) \/ dno' = dno
    BY <1>4 DEF NPACClear
  <2> HIDE DEF K
  <2> QED BY <1>0, <2>2, <2>3, <2>4, DeactivateGood
<1>5. ASSUME NEW x \in Calls, NEW p \in Phones, NEW e \in PortEvents,
             NPACPort(x, p, e[1], e[2])
      PROVE  dno' = dno
  BY <1>5 DEF NPACPort
<1>6. ASSUME NEW p \in Phones, NEW c \in InputChannels, IngestITG(p, c)
      PROVE  GoodTable(dno') /\ KeepsRows(dno, dno')
  BY <1>6, InputsAreValid, UpsertSystemGood DEF IngestITG
<1>7. ASSUME NEW p \in Phones, NPACDisconnect(p)
      PROVE  GoodTable(dno') /\ KeepsRows(dno, dno')
  BY <1>7, UpsertSystemGood DEF NPACDisconnect, Channel
<1>8. ASSUME SyncTSS
      PROVE  GoodTable(dno') /\ KeepsRows(dno, dno')
  BY <1>8, InsertTSSGood DEF SyncTSS
<1>9. UNCHANGED vars => dno' = dno
  BY DEF vars
<1> QED BY <1>0, <1>1, <1>2, <1>3, <1>4, <1>5, <1>6, <1>7, <1>8, <1>9 DEF Next

\* The registry, the audit trail and the calls keep their types.
LEMMA TypeStep ==
    ASSUME IInv, [Next]_vars
    PROVE  TypeOK'
<1> USE DEF IInv
<1>0. dno' \in DNOTable
  BY TableStep DEF GoodTable
<1> SUFFICES registry' \in Registry /\ audit' \subseteq AuditEntry
               /\ call' \in [Calls -> InFlight \cup {Idle}]
               /\ listedBy' \in [Key -> Feed]
  BY <1>0 DEF TypeOK
<1>1. ASSUME NEW x \in Calls, NEW s \in Pending, NEW p \in Phones, NEW c \in Channel,
             NEW o \in Orgs \cup {NoOrg}, Become(x, s, p, c, o)
      PROVE  call' \in [Calls -> InFlight \cup {Idle}]
  <2>1. [pc |-> s, phone |-> p, chan |-> c, org |-> o] \in InFlight
    BY DEF InFlight
  <2> QED BY <1>1, <2>1 DEF Become, TypeOK
<1>2. ASSUME NEW x \in Calls, Finish(x)
      PROVE  call' \in [Calls -> InFlight \cup {Idle}]
  BY <1>2 DEF Finish, TypeOK
<1>3. ASSUME NEW x \in Calls, NEW a \in {"add", "remove"}, AuditOrLose(a, x),
             call[x].pc \in {"addAudit", "removeAudit"}
      PROVE  audit' \subseteq AuditEntry
  <2>1. call[x].phone \in Phones /\ call[x].org \in Orgs
    BY <1>3, InFlightFields DEF PendingAudits, Pending
  <2>2. [action |-> a, org |-> call[x].org, phone |-> call[x].phone] \in AuditEntry
    BY <2>1 DEF AuditEntry
  <2> QED BY <1>3, <2>2 DEF AuditOrLose, TypeOK
<1>4. ASSUME NEW p \in Phones, NEW s \in {"ported", "assigned"},
             NEW o \in Orgs \cup {NoOrg}
      PROVE  UpsertRegistry(registry, p, s, o) \in Registry
  <2> DEFINE e == registry[p]
             new == [owner |-> o, type |-> "local", status |-> s, text |-> FALSE]
  <2>1. new \in Entry
    BY DEF Entry, NumberType, RegStatus
  <2>2. e # NoEntry => [e EXCEPT !.owner = o, !.status = s] \in Entry
    <3> SUFFICES ASSUME e \in Entry
                 PROVE  [e EXCEPT !.owner = o, !.status = s] \in Entry
      BY DEF TypeOK, Registry
    <3> QED BY DEF Entry, RegStatus
  <2>3. registry \in Registry
    BY DEF TypeOK
  <2> QED BY <2>1, <2>2, <2>3 DEF UpsertRegistry, Registry
<1>5. ASSUME NEW x \in Calls, NEW p \in Phones, NEW o \in Orgs, NEW c \in InputChannels,
             AddUpsert(x, p, c, o) \/ RemoveUpdate(x, p, c, o)
      PROVE  TypeOK'
  BY <1>0, <1>1, <1>5, InputsAreValid DEF AddUpsert, RemoveUpdate, TypeOK, Pending
<1>6. ASSUME NEW x \in Calls, AddSelect(x)
      PROVE  TypeOK'
  <2>1. /\ call[x].phone \in Phones /\ call[x].chan \in Channel
        /\ call[x].org \in Orgs \cup {NoOrg}
    BY <1>6, InFlightFields DEF AddSelect, Pending
  <2> QED BY <1>0, <1>1, <1>2, <1>6, <2>1 DEF AddSelect, TypeOK, Pending
<1>7. ASSUME NEW x \in Calls, AddAudit(x) \/ RemoveGivesUp(x) \/ RemoveAudit(x)
      PROVE  TypeOK'
  BY <1>0, <1>2, <1>3, <1>7 DEF AddAudit, RemoveGivesUp, RemoveAudit, TypeOK
<1>8. ASSUME NEW x \in Calls, NPACClear(x)
      PROVE  TypeOK'
  BY <1>0, <1>2, <1>8 DEF NPACClear, TypeOK
<1>9. ASSUME NEW x \in Calls, NEW p \in Phones, NEW e \in PortEvents,
             NPACPort(x, p, e[1], e[2])
      PROVE  TypeOK'
  <2>1. e[1] \in {"ported", "assigned"} /\ e[2] \in Orgs \cup {NoOrg}
    BY InputsAreValid
  <2>2. Become(x, "npacClear", p, "voice", e[2]) => call' \in [Calls -> InFlight \cup {Idle}]
    BY <1>1, <2>1 DEF Pending, Channel
  <2> QED BY <1>0, <1>4, <1>9, <2>1, <2>2 DEF NPACPort, TypeOK
<1>10. ASSUME NEW p \in Phones, NEW c \in InputChannels, IngestITG(p, c)
       PROVE  TypeOK'
  BY <1>0, <1>10 DEF IngestITG, TypeOK, Feed
<1>11. ASSUME NEW p \in Phones, NPACDisconnect(p)
       PROVE  TypeOK'
  BY <1>0, <1>11 DEF NPACDisconnect, TypeOK, Feed
<1>12. CASE SyncTSS \/ UNCHANGED vars
  BY <1>0, <1>12 DEF SyncTSS, vars, TypeOK, Feed
<1> QED BY <1>5, <1>6, <1>7, <1>8, <1>9, <1>10, <1>11, <1>12 DEF Next, TypeOK

\* A feed that lists a key labels its row, and nothing else labels a row that exists.
LEMMA ListedStep ==
    ASSUME IInv, [Next]_vars
    PROVE  LabelsAreLastFeeds(dno, listedBy)'
<1> USE DEF IInv
<1>0. GoodTable(dno) /\ LabelsAreLastFeeds(dno, listedBy) /\ listedBy \in [Key -> Feed]
  BY DEF TypeOK
<1>1. ASSUME NEW u, KeepsDatasets(dno, u), OnlySubscribersAreNew(dno, u)
      PROVE  LabelsAreLastFeeds(u, listedBy)
  BY <1>0, <1>1 DEF LabelsAreLastFeeds, KeepsDatasets, OnlySubscribersAreNew
<1>2. ASSUME NEW p \in Phones, NEW c \in Channel, NEW d \in {"itg", "auto"}, NEW f,
             f = IF d = "itg" THEN "itg" ELSE "npac", d = "auto" => c = "voice",
             dno' = UpsertSystem(dno, p, c, d),
             listedBy' = [listedBy EXCEPT ![<<p, c>>] = f]
      PROVE  LabelsAreLastFeeds(dno', listedBy')
  <2> DEFINE k == <<p, c>>
  <2>1. k \in Key /\ k[2] = c
    BY DEF Key
  <2>2. listedBy'[k] = f /\ \A l \in Key \ {k} : listedBy'[l] = listedBy[l]
    BY <1>0, <1>2, <2>1
  <2>3. Exists(dno', k) /\ dno'[k].dataset = d /\ \A l \in Key \ {k} : dno'[l] = dno[l]
    BY <1>0, <1>2, UpsertSystemGood
  <2> HIDE DEF k
  <2>4. \A l \in Key \ {k} : Exists(dno', l) <=> Exists(dno, l)
    BY <2>3 DEF Exists
  <2> QED BY <1>0, <1>2, <2>1, <2>2, <2>3, <2>4 DEF LabelsAreLastFeeds
<1>3. ASSUME NEW x \in Calls, NEW p \in Phones, NEW o \in Orgs, NEW c \in InputChannels,
             AddUpsert(x, p, c, o)
      PROVE  LabelsAreLastFeeds(dno', listedBy')
  <2>1. /\ KeepsDatasets(dno, dno') /\ OnlySubscribersAreNew(dno, dno')
        /\ listedBy' = listedBy
    BY <1>0, <1>3, InputsAreValid, UpsertSubscriberGood DEF AddUpsert
  <2> QED BY <1>1, <2>1
<1>4. ASSUME NEW K \in SUBSET Key, dno' = Deactivate(dno, K), listedBy' = listedBy,
             \A k \in K : Exists(dno, k) /\ dno[k].dataset \notin {"itg", "tss_registry"}
      PROVE  LabelsAreLastFeeds(dno', listedBy')
  <2>1. KeepsDatasets(dno, dno') /\ OnlySubscribersAreNew(dno, dno')
    BY <1>0, <1>4, DeactivateGood
  <2> QED BY <1>1, <1>4, <2>1
<1>5. ASSUME NEW x \in Calls, NEW p \in Phones, NEW o \in Orgs, NEW c \in InputChannels,
             RemoveUpdate(x, p, c, o)
      PROVE  LabelsAreLastFeeds(dno', listedBy')
  <2> DEFINE K == RemoveTargets(dno, p, c, o)
  <2>1. c \in Channel /\ K \in SUBSET Key
    BY InputsAreValid, TargetsAreKeys
  <2>2. \A k \in K : Exists(dno, k) /\ dno[k].dataset \notin {"itg", "tss_registry"}
    BY DEF RemoveTargets
  <2>3. dno' = Deactivate(dno, K) /\ listedBy' = listedBy
    BY <1>5 DEF RemoveUpdate
  <2> HIDE DEF K
  <2> QED BY <1>4, <2>1, <2>2, <2>3
<1>6. ASSUME NEW x \in Calls, NPACClear(x), dno' # dno
      PROVE  LabelsAreLastFeeds(dno', listedBy')
  <2> DEFINE K == AutoTargets(dno, call[x].phone)
  <2>1. call[x].phone \in Phones
    BY <1>6, InFlightFields DEF NPACClear, Pending
  <2>2. K \in SUBSET Key
    BY <2>1, TargetsAreKeys
  <2>3. \A k \in K : Exists(dno, k) /\ dno[k].dataset \notin {"itg", "tss_registry"}
    BY DEF AutoTargets, Active
  <2>4. dno' = Deactivate(dno, K) /\ listedBy' = listedBy
    BY <1>6 DEF NPACClear
  <2> HIDE DEF K
  <2> QED BY <1>4, <2>2, <2>3, <2>4
<1>7. ASSUME NEW p \in Phones, NEW c \in InputChannels, IngestITG(p, c)
      PROVE  LabelsAreLastFeeds(dno', listedBy')
  BY <1>2, <1>7, InputsAreValid DEF IngestITG
<1>8. ASSUME NEW p \in Phones, NPACDisconnect(p)
      PROVE  LabelsAreLastFeeds(dno', listedBy')
  BY <1>2, <1>8 DEF NPACDisconnect, Channel
<1>9. ASSUME SyncTSS
      PROVE  LabelsAreLastFeeds(dno', listedBy')
  <2> DEFINE T == SyncTargets(dno, registry) \X {"text"}
  <2>1. \A k \in Key : IF k \in T THEN Exists(dno', k) /\ dno'[k].dataset = "tss_registry"
                                  ELSE dno'[k] = dno[k]
    BY <1>0, <1>9, InsertTSSGood DEF SyncTSS
  <2>2. \A k \in Key : listedBy'[k] = IF k \in T THEN "tss" ELSE listedBy[k]
    BY <1>9 DEF SyncTSS
  <2> HIDE DEF T
  <2> QED BY <1>0, <2>1, <2>2 DEF LabelsAreLastFeeds, Exists
<1>10. ASSUME dno' = dno, listedBy' = listedBy
       PROVE  LabelsAreLastFeeds(dno', listedBy')
  BY <1>0, <1>10
<1>11. ASSUME NEW x \in Calls,
              AddSelect(x) \/ AddAudit(x) \/ RemoveGivesUp(x) \/ RemoveAudit(x)
       PROVE  dno' = dno /\ listedBy' = listedBy
  BY <1>11 DEF AddSelect, AddAudit, RemoveGivesUp, RemoveAudit
<1>12. ASSUME NEW x \in Calls, NPACClear(x)
       PROVE  listedBy' = listedBy
  BY <1>12 DEF NPACClear
<1>13. ASSUME NEW x \in Calls, NEW p \in Phones, NEW e \in PortEvents,
              NPACPort(x, p, e[1], e[2])
       PROVE  dno' = dno /\ listedBy' = listedBy
  BY <1>13 DEF NPACPort
<1>14. UNCHANGED vars => dno' = dno /\ listedBy' = listedBy
  BY DEF vars
<1> QED BY <1>3, <1>5, <1>6, <1>7, <1>8, <1>9, <1>10, <1>11, <1>12, <1>13, <1>14 DEF Next

\* What a call waits to audit stays true while others run.
LEMMA PendingStep ==
    ASSUME IInv, [Next]_vars
    PROVE  PendingAudits'
<1> USE DEF IInv
<1>0. KeepsRows(dno, dno') /\ GoodTable(dno') /\ TypeOK'
  BY TableStep, TypeStep
<1> DEFINE Due(t, r) ==
             /\ r.pc \in {"addSelect", "addAudit", "removeAudit"} => r.org \in Orgs
             /\ r.pc = "addAudit" => Exists(t, <<r.phone, r.chan>>)
             /\ r.pc = "removeAudit" =>
                  \E c \in Channel : /\ Exists(t, <<r.phone, c>>)
                                    /\ t[<<r.phone, c>>].org = r.org
<1>1. ASSUME NEW x \in Calls, call'[x] = call[x]
      PROVE  Due(dno', call'[x])
  <2>1. Due(dno, call[x])
    BY DEF PendingAudits
  <2>2. call[x].pc \in Pending =>
          call[x].phone \in Phones /\ call[x].chan \in Channel
    BY InFlightFields
  <2>3. \A c \in Channel : call[x].pc \in Pending => <<call[x].phone, c>> \in Key
    BY <2>2 DEF Key
  <2> QED BY <1>0, <1>1, <2>1, <2>2, <2>3 DEF KeepsRows, Pending
<1>2. ASSUME NEW x \in Calls, call'[x] = Idle
      PROVE  Due(dno', call'[x])
  BY <1>2 DEF Idle
<1>3. ASSUME NEW x \in Calls, NEW s, NEW p, NEW c, NEW o, Become(x, s, p, c, o),
             Due(dno', [pc |-> s, phone |-> p, chan |-> c, org |-> o])
      PROVE  \A y \in Calls : Due(dno', call'[y])
  <2>1. call'[x] = [pc |-> s, phone |-> p, chan |-> c, org |-> o]
    BY <1>3 DEF Become, TypeOK
  <2>2. \A y \in Calls \ {x} : call'[y] = call[y]
    BY <1>3 DEF Become, TypeOK
  <2> QED BY <1>1, <1>3, <2>1, <2>2
<1>4. ASSUME NEW x \in Calls, Finish(x)
      PROVE  \A y \in Calls : Due(dno', call'[y])
  <2>1. \A y \in Calls : call'[y] = call[y] \/ call'[y] = Idle
    BY <1>4 DEF Finish, TypeOK
  <2> QED BY <1>1, <1>2, <2>1
<1>5. ASSUME NEW x \in Calls, NEW p \in Phones, NEW o \in Orgs, NEW c \in InputChannels,
             AddUpsert(x, p, c, o)
      PROVE  \A y \in Calls : Due(dno', call'[y])
  BY <1>3, <1>5 DEF AddUpsert
<1>6. ASSUME NEW x \in Calls, NEW p \in Phones, NEW o \in Orgs, NEW c \in InputChannels,
             RemoveUpdate(x, p, c, o)
      PROVE  \A y \in Calls : Due(dno', call'[y])
  <2>1. PICK k \in RemoveTargets(dno, p, c, o) : TRUE
    BY <1>6 DEF RemoveUpdate
  <2>2. c \in Channel
    BY InputsAreValid
  <2>3. PICK d \in Channel : k = <<p, d>>
    BY <2>1, <2>2 DEF RemoveTargets, Covering, Channel
  <2>4. Exists(dno, <<p, d>>) /\ dno[<<p, d>>].org = o
    BY <2>1, <2>3 DEF RemoveTargets
  <2>5. Exists(dno', <<p, d>>) /\ dno'[<<p, d>>].org = o
    BY <1>0, <2>4 DEF KeepsRows, Key
  <2>6. Due(dno', [pc |-> "removeAudit", phone |-> p, chan |-> c, org |-> o])
    BY <2>5
  <2> QED BY <1>3, <1>6, <2>6 DEF RemoveUpdate
<1>7. ASSUME NEW x \in Calls, AddSelect(x)
      PROVE  \A y \in Calls : Due(dno', call'[y])
  <2>1. call[x].org \in Orgs /\ dno' = dno
    BY <1>7 DEF AddSelect, PendingAudits
  <2>2. CASE Finish(x)
    BY <1>4, <2>2
  <2>3. CASE ~ Finish(x)
    <3>1. /\ Exists(dno', <<call[x].phone, call[x].chan>>)
          /\ Become(x, "addAudit", call[x].phone, call[x].chan, call[x].org)
      BY <1>7, <2>1, <2>3 DEF AddSelect
    <3> QED BY <1>3, <2>1, <3>1
  <2> QED BY <2>2, <2>3
<1>8. ASSUME NEW x \in Calls,
             AddAudit(x) \/ RemoveGivesUp(x) \/ RemoveAudit(x) \/ NPACClear(x)
      PROVE  \A y \in Calls : Due(dno', call'[y])
  BY <1>4, <1>8 DEF AddAudit, RemoveGivesUp, RemoveAudit, NPACClear
<1>9. ASSUME NEW x \in Calls, NEW p \in Phones, NEW e \in PortEvents,
             NPACPort(x, p, e[1], e[2])
      PROVE  \A y \in Calls : Due(dno', call'[y])
  BY <1>3, <1>9 DEF NPACPort
<1>10. ASSUME call' = call
       PROVE  \A y \in Calls : Due(dno', call'[y])
  BY <1>1, <1>10
<1>11. (\E p \in Phones, c \in InputChannels : IngestITG(p, c))
         \/ (\E p \in Phones : NPACDisconnect(p)) \/ SyncTSS \/ UNCHANGED vars
         => call' = call
  BY DEF IngestITG, NPACDisconnect, SyncTSS, vars
<1>12. \A y \in Calls : Due(dno', call'[y])
  BY <1>5, <1>6, <1>7, <1>8, <1>9, <1>10, <1>11 DEF Next
<1> QED BY <1>12 DEF PendingAudits

\* An audit entry that was true stays true, and a new one is true when written.
LEMMA AuditStep ==
    ASSUME IInv, [Next]_vars
    PROVE  AuditSound'
<1> USE DEF IInv
<1>0. KeepsRows(dno, dno') /\ TypeOK'
  BY TableStep, TypeStep
<1> DEFINE True(t, a) == \E c \in Channel :
                           /\ Exists(t, <<a.phone, c>>)
                           /\ a.action = "remove" => t[<<a.phone, c>>].org = a.org
<1>1. ASSUME NEW a \in audit'
      PROVE  \A c \in Channel : <<a.phone, c>> \in Key
  BY <1>0 DEF TypeOK, AuditEntry, Key
<1>2. ASSUME NEW a \in audit', True(dno, a)
      PROVE  True(dno', a)
  BY <1>0, <1>1, <1>2 DEF KeepsRows
<1>3. \A a \in audit : True(dno, a)
  BY DEF AuditSound
<1>4. ASSUME NEW x \in Calls, AddAudit(x)
      PROVE  \A a \in audit' : True(dno, a)
  <2> DEFINE new == [action |-> "add", org |-> call[x].org, phone |-> call[x].phone]
  <2>1. call[x].chan \in Channel /\ Exists(dno, <<call[x].phone, call[x].chan>>)
    BY <1>4, InFlightFields DEF AddAudit, PendingAudits, Pending
  <2>2. True(dno, new)
    BY <2>1
  <2>3. audit' = audit \cup {new} \/ audit' = audit
    BY <1>4 DEF AddAudit, AuditOrLose
  <2> HIDE DEF new
  <2> QED BY <1>3, <2>2, <2>3
<1>5. ASSUME NEW x \in Calls, RemoveAudit(x)
      PROVE  \A a \in audit' : True(dno, a)
  <2> DEFINE new == [action |-> "remove", org |-> call[x].org, phone |-> call[x].phone]
  <2>1. \E c \in Channel : /\ Exists(dno, <<call[x].phone, c>>)
                          /\ dno[<<call[x].phone, c>>].org = call[x].org
    BY <1>5 DEF RemoveAudit, PendingAudits
  <2>2. True(dno, new)
    BY <2>1
  <2>3. audit' = audit \cup {new} \/ audit' = audit
    BY <1>5 DEF RemoveAudit, AuditOrLose
  <2> HIDE DEF new
  <2> QED BY <1>3, <2>2, <2>3
<1>6. \/ \E x \in Calls : AddAudit(x) \/ RemoveAudit(x)
      \/ audit' = audit
  BY DEF Next, vars, AddUpsert, AddSelect, RemoveUpdate, RemoveGivesUp, NPACClear, NPACPort, IngestITG,
         NPACDisconnect, SyncTSS
<1>7. \A a \in audit' : True(dno, a)
  BY <1>3, <1>4, <1>5, <1>6
<1> QED BY <1>2, <1>7 DEF AuditSound

\* The invariant holds in every reachable state.
THEOREM Invariance == Spec => []IInv
<1>1. IInv /\ [Next]_vars => IInv'
  BY TableStep, TypeStep, ListedStep, PendingStep, AuditStep DEF IInv
<1> QED BY InitInv, <1>1, PTL DEF Spec

-----------------------------------------------------------------------------
(* The theorems.                                                           *)

\* Every variable keeps its type: for all numbers, organizations and calls.
THEOREM TypeCorrect == Spec => []TypeOK
<1>1. IInv => TypeOK
  BY DEF IInv
<1> QED BY Invariance, <1>1, PTL

\* A key that the ITG or a sync listed last is listed, and an NPAC disconnect is last
\* for voice keys only: for any interleaving of any number of calls.
THEOREM TracedNumbersProtected == Spec => []TracedStaysListed
<1>1. ASSUME IInv PROVE TracedStaysListed
  <2> SUFFICES ASSUME NEW k \in Key, listedBy[k] \in {"itg", "tss"}
               PROVE  Active(dno, k)
    BY <1>1 DEF IInv, LabelsAreLastFeeds, TracedStaysListed
  <2>1. Exists(dno, k) /\ dno[k].dataset \in Dataset
    BY <1>1 DEF IInv, GoodTable, LabelsAreLastFeeds, DNOTable, Exists, Row
  <2>2. dno[k].dataset \in {"itg", "tss_registry"}
    BY <1>1, <2>1 DEF IInv, LabelsAreLastFeeds
  <2> QED BY <1>1, <2>1, <2>2 DEF IInv, GoodTable, GoodRow, Active
<1> QED BY Invariance, <1>1, PTL

\* Every row's dataset and organization fit together.
THEOREM ProvenanceKept == Spec => []Provenance
<1>1. IInv => Provenance
  BY DEF IInv, GoodTable, GoodRow, Provenance
<1> QED BY Invariance, <1>1, PTL

\* The audit trail is sound.
THEOREM AuditTrailSound == Spec => []AuditSound
<1>1. IInv => AuditSound
  BY DEF IInv
<1> QED BY Invariance, <1>1, PTL

\* A sync that meets no conflict covers every non-text-enabled toll-free number.
THEOREM SyncCovers == Spec => []SyncCoversAll
<1>1. IInv => SyncCoversAll
  <2> SUFFICES ASSUME IInv, ~ SyncConflict(dno, registry),
                      NEW p \in NonTextTollFree(registry)
               PROVE  Hit(InsertTSS(dno, SyncTargets(dno, registry)), p, "text")
    BY DEF SyncCoversAll
  <2> DEFINE k == <<p, "text">>
             u == InsertTSS(dno, SyncTargets(dno, registry))
  <2>1. k \in Key
    BY DEF NonTextTollFree, Key, Channel
  <2>2. CASE p \in SyncTargets(dno, registry)
    <3>1. u[k] = [dataset |-> "tss_registry", status |-> "active", org |-> NoOrg]
      BY <2>1, <2>2 DEF InsertTSS
    <3>2. u[k] # NoRow /\ u[k].status = "active"
      BY <3>1, NullsAreNotValues DEF Row, Dataset, Status
    <3> QED BY <3>2 DEF Hit, Covering, Active, Exists
  <2>3. CASE p \notin SyncTargets(dno, registry)
    <3>1. Exists(dno, k) /\ dno[k].dataset = "tss_registry"
      BY <2>3 DEF SyncTargets
    <3>2. dno[k].status = "active"
      BY <2>1, <3>1 DEF IInv, GoodTable, GoodRow
    <3>3. u[k] = dno[k]
      BY <2>1, <3>1, InsertTSSGood DEF IInv
    <3> QED BY <3>1, <3>2, <3>3 DEF Hit, Covering, Active, Exists
  <2> QED BY <2>2, <2>3
<1> QED BY Invariance, <1>1, PTL

\* A row of a system dataset never becomes a subscriber row again.
THEOREM SystemRowsNeverReclaimed == Spec => SystemRowsAreNotReclaimed
<1>1. IInv /\ [Next]_vars =>
        \A k \in Key : Exists(dno, k) /\ dno[k].dataset # "subscriber"
            => Exists(dno', k) /\ dno'[k].dataset # "subscriber"
  BY TableStep DEF IInv, KeepsRows
<1> QED BY Invariance, <1>1, PTL DEF Spec, SystemRowsAreNotReclaimed

\* How a row that carries an organization's id leaves the list, in step x of a call.
LeavesWith(x, k) ==
    \/ /\ listedBy[k] = "none"
       /\ call[x] = Idle
       /\ call'[x].pc = "removeAudit"
       /\ call'[x].org = dno[k].org
       /\ call'[x].phone = k[1]
    \/ /\ listedBy[k] = "npac"
       /\ call[x].pc = "npacClear"
       /\ call[x].phone = k[1]
       /\ call'[x] = Idle

\* Only a removal by its organization, or a porting event after a disconnect, takes
\* an organization's row off the list.
LEMMA OwnerStep ==
    ASSUME IInv, [Next]_vars, NEW k \in Key, Active(dno, k), ~ Active(dno', k)
    PROVE  \E x \in Calls : LeavesWith(x, k)
<1> USE DEF IInv
<1>1. dno' # dno /\ ~ KeepsActive(dno, dno')
  BY DEF KeepsActive
<1>2. ASSUME NEW x \in Calls, NEW p \in Phones, NEW o \in Orgs, NEW c \in InputChannels,
             RemoveUpdate(x, p, c, o)
      PROVE  LeavesWith(x, k)
  <2> DEFINE K == RemoveTargets(dno, p, c, o)
  <2>1. c \in Channel /\ K \in SUBSET Key
    BY InputsAreValid, TargetsAreKeys
  <2>2. \A l \in K : Exists(dno, l) /\ dno[l].dataset \notin {"itg", "tss_registry"}
    BY DEF RemoveTargets
  <2>3. k \in K
    BY <1>2, <2>1, <2>2, DeactivateGood DEF RemoveUpdate, Active, Exists
  <2>4. dno[k].org = o /\ k[1] = p /\ dno[k].dataset = "subscriber" /\ Exists(dno, k)
    BY <2>3 DEF RemoveTargets, Covering
  <2>5. call'[x] = [pc |-> "removeAudit", phone |-> p, chan |-> c, org |-> o]
    BY <1>2 DEF RemoveUpdate, Become, TypeOK
  <2>6. listedBy[k] = "none"
    BY <2>4 DEF LabelsAreLastFeeds
  <2> QED BY <1>2, <2>4, <2>5, <2>6 DEF RemoveUpdate, Free, LeavesWith
<1>3. ASSUME NEW x \in Calls, NEW p \in Phones, NEW o \in Orgs, NEW c \in InputChannels,
             AddUpsert(x, p, c, o)
      PROVE  FALSE
  BY <1>1, <1>3, InputsAreValid, UpsertSubscriberGood DEF AddUpsert
<1>4. ASSUME NEW x \in Calls, NPACClear(x)
      PROVE  LeavesWith(x, k)
  <2> DEFINE K == AutoTargets(dno, call[x].phone)
  <2>1. call[x].phone \in Phones
    BY <1>4, InFlightFields DEF NPACClear, Pending
  <2>2. K \in SUBSET Key
    BY <2>1, TargetsAreKeys
  <2>3. \A l \in K : /\ Exists(dno, l) /\ dno[l].dataset = "auto"
                     /\ l[1] = call[x].phone
    BY DEF AutoTargets, Active
  <2>4. dno' = Deactivate(dno, K)
    BY <1>1, <1>4 DEF NPACClear
  <2> HIDE DEF K
  <2>5. k \in K
    BY <2>2, <2>3, <2>4, DeactivateGood DEF Active, Exists
  <2>6. listedBy[k] = "npac"
    BY <2>3, <2>5 DEF LabelsAreLastFeeds
  <2>7. call'[x] = Idle
    BY <1>4 DEF NPACClear, Finish, TypeOK
  <2> QED BY <1>4, <2>3, <2>5, <2>6, <2>7 DEF NPACClear, LeavesWith
<1>5. ASSUME NEW p \in Phones, NEW c \in InputChannels, IngestITG(p, c)
      PROVE  FALSE
  BY <1>1, <1>5, InputsAreValid, UpsertSystemGood DEF IngestITG
<1>6. ASSUME NEW p \in Phones, NPACDisconnect(p)
      PROVE  FALSE
  BY <1>1, <1>6, UpsertSystemGood DEF NPACDisconnect, Channel
<1>7. ASSUME SyncTSS
      PROVE  FALSE
  <2>1. dno'[k] = dno[k]
    BY <1>7, InsertTSSGood DEF SyncTSS, Active
  <2> QED BY <2>1 DEF Active, Exists
<1>8. ~ (\E x \in Calls : AddSelect(x) \/ AddAudit(x) \/ RemoveGivesUp(x) \/ RemoveAudit(x))
  BY <1>1 DEF AddSelect, AddAudit, RemoveGivesUp, RemoveAudit
<1>9. ~ (\E x \in Calls, p \in Phones, e \in PortEvents : NPACPort(x, p, e[1], e[2]))
  BY <1>1 DEF NPACPort
<1>10. ~ UNCHANGED vars
  BY <1>1 DEF vars
<1> QED BY <1>2, <1>3, <1>4, <1>5, <1>6, <1>7, <1>8, <1>9, <1>10 DEF Next

\* A row that carries an organization's id leaves the list by that organization's
\* removal or by a porting event after a disconnect, whatever its label is.
THEOREM OwnRowsLeaveTwoWays == Spec => OwnNumbersLeave
<1>1. IInv /\ [Next]_vars =>
        \A k \in Key :
          Active(dno, k) /\ dno[k].org \in Orgs /\ ~ Active(dno', k) =>
            \E x \in Calls :
               \/ /\ listedBy[k] = "none"
                  /\ call[x] = Idle
                  /\ call'[x].pc = "removeAudit"
                  /\ call'[x].org = dno[k].org
                  /\ call'[x].phone = k[1]
               \/ /\ listedBy[k] = "npac"
                  /\ call[x].pc = "npacClear"
                  /\ call[x].phone = k[1]
                  /\ call'[x] = Idle
  BY OwnerStep DEF LeavesWith
<1> QED BY Invariance, <1>1, PTL DEF Spec, OwnNumbersLeave
=============================================================================
