------------------------ MODULE MigrationLock_proofs ------------------------
(***************************************************************************)
(* Proofs about MigrationLock for every number of instances, sessions and  *)
(* crashes.  The argument for direct connections: an instance in the       *)
(* migrations holds the lock through its own session and took it once;     *)
(* sessions belong to one instance each, so two such instances are one.    *)
(***************************************************************************)
EXTENDS MigrationLock, TLAPS

\* A waiting request has a session, and the lock is counted while it is held.
Counted ==
    /\ \A i \in Instances : pc[i] = "waiting" => waits[i] \in Sessions
    /\ holder # Nobody <=> depth # 0

\* Connected directly.
DirectLock ==
    /\ \A i \in Instances :
         /\ waits[i] \in {Nobody, OwnSession[i]}
         /\ InMigration(i) => holder = OwnSession[i] /\ depth = 1
    /\ holder # Nobody => \E i \in Instances : InMigration(i)

IInv == TypeOK /\ Counted /\ (~ pooled => DirectLock)

-----------------------------------------------------------------------------

\* Nobody has asked for the lock when the instances start.
LEMMA InitInv == Init => IInv
BY LockParameters DEF Init, IInv, TypeOK, PCs, Counted, DirectLock, InMigration

\* A step of the server or of an instance keeps types and the count, pooled or not.
LEMMA CountStep ==
    ASSUME TypeOK, Counted, [Next]_vars
    PROVE  TypeOK' /\ Counted'
<1> USE LockParameters DEF TypeOK, Counted, PCs, Goto
<1>1. ASSUME NEW i \in Instances, NEW s \in Sessions, Request(i, s)
      PROVE  TypeOK' /\ Counted'
  BY <1>1 DEF Request
<1>2. ASSUME NEW i \in Instances, NEW s \in Sessions, Unlock(i, s)
      PROVE  TypeOK' /\ Counted'
  BY <1>2 DEF Unlock, Release
<1>3. ASSUME NEW i \in Instances, Grant(i)
      PROVE  TypeOK' /\ Counted'
  BY <1>3 DEF Grant
<1>4. ASSUME NEW i \in Instances, Migrated(i) \/ Restart(i)
      PROVE  TypeOK' /\ Counted'
  BY <1>4 DEF Migrated, Restart
<1>5. ASSUME NEW i \in Instances, Crash(i)
      PROVE  TypeOK' /\ Counted'
  BY <1>5 DEF Crash
<1>6. ASSUME NEW s \in Sessions, Expire(s)
      PROVE  TypeOK' /\ Counted'
  BY <1>6 DEF Expire
<1>7. CASE UNCHANGED vars
  BY <1>7 DEF vars
<1> QED BY <1>1, <1>2, <1>3, <1>4, <1>5, <1>6, <1>7 DEF Next

\* With direct connections the lock stays with the one instance that migrates.
LEMMA DirectStep ==
    ASSUME TypeOK, Counted, ~ pooled, DirectLock, [Next]_vars
    PROVE  DirectLock' /\ ~ pooled'
<1> USE LockParameters DEF TypeOK, DirectLock, InMigration, PCs, Goto
<1>0. \A i, j \in Instances : OwnSession[i] = OwnSession[j] => i = j
  OBVIOUS
<1>1. ASSUME NEW i \in Instances, NEW s \in Sessions, Request(i, s)
      PROVE  DirectLock' /\ ~ pooled'
  BY <1>1 DEF Request, Route
<1>2. ASSUME NEW i \in Instances, NEW s \in Sessions, Unlock(i, s)
      PROVE  DirectLock' /\ ~ pooled'
  <2>1. s = OwnSession[i] /\ holder = OwnSession[i] /\ depth = 1
    BY <1>2 DEF Unlock, Route
  <2>2. holder' = Nobody /\ \A j \in Instances \ {i} : ~ InMigration(j)
    BY <1>0, <1>2, <2>1 DEF Unlock, Release
  <2>3. \A j \in Instances : ~ InMigration(j)'
    BY <1>2, <2>2 DEF Unlock
  <2> QED BY <1>2, <2>2, <2>3 DEF Unlock
<1>3. ASSUME NEW i \in Instances, Grant(i)
      PROVE  DirectLock' /\ ~ pooled'
  <2>1. waits[i] = OwnSession[i]
    BY <1>3 DEF Grant, Counted
  <2>2. holder = Nobody /\ depth = 0
    BY <1>0, <1>3, <2>1 DEF Grant, Counted
  <2>3. \A j \in Instances : ~ InMigration(j)
    BY <2>2
  <2>4. holder' = OwnSession[i] /\ depth' = 1 /\ pc' = [pc EXCEPT ![i] = "migrating"]
    BY <1>3, <2>1, <2>2 DEF Grant
  <2> QED BY <1>3, <2>3, <2>4 DEF Grant
<1>4. ASSUME NEW i \in Instances, Migrated(i)
      PROVE  DirectLock' /\ ~ pooled'
  <2>1. \A j \in Instances : InMigration(j)' <=> InMigration(j)
    BY <1>4 DEF Migrated
  <2> QED BY <1>4, <2>1 DEF Migrated
<1>5. ASSUME NEW i \in Instances, Restart(i)
      PROVE  DirectLock' /\ ~ pooled'
  <2>1. \A j \in Instances : InMigration(j)' <=> InMigration(j)
    BY <1>5 DEF Restart
  <2> QED BY <1>5, <2>1 DEF Restart
<1>6. ASSUME NEW i \in Instances, Crash(i)
      PROVE  DirectLock' /\ ~ pooled'
  <2>1. \A j \in Instances \ {i} : InMigration(j)' <=> InMigration(j)
    BY <1>6 DEF Crash
  <2>2. ~ InMigration(i)' /\ \A j \in Instances : waits'[j] \in {Nobody, OwnSession[j]}
    BY <1>6 DEF Crash
  <2>3. CASE holder = OwnSession[i]
    <3>1. \A j \in Instances : ~ InMigration(j)'
      BY <1>0, <2>1, <2>2, <2>3
    <3>2. holder' = Nobody /\ ~ pooled'
      BY <1>6, <2>3 DEF Crash
    <3> QED BY <2>2, <3>1, <3>2
  <2>4. CASE holder # OwnSession[i]
    <3>1. holder' = holder /\ depth' = depth /\ ~ pooled' /\ ~ InMigration(i)
      BY <1>6, <2>4 DEF Crash
    <3> QED BY <2>1, <2>2, <3>1
  <2> QED BY <2>3, <2>4
<1>7. ASSUME NEW s \in Sessions, Expire(s)
      PROVE  FALSE
  BY <1>7 DEF Expire
<1>8. CASE UNCHANGED vars
  BY <1>8 DEF vars
<1> QED BY <1>1, <1>2, <1>3, <1>4, <1>5, <1>6, <1>7, <1>8 DEF Next

\* How a deployment is connected never changes.
LEMMA PoolingFixed == ASSUME [Next]_vars PROVE pooled' = pooled
BY DEF Next, vars, Request, Unlock, Grant, Migrated, Crash, Restart, Expire

\* The invariant holds in every reachable state.
THEOREM Invariance == Spec => []IInv
<1>1. IInv /\ [Next]_vars => IInv'
  BY CountStep, DirectStep, PoolingFixed DEF IInv
<1> QED BY InitInv, <1>1, PTL DEF Spec

\* Every variable keeps its type.
THEOREM TypeCorrect == Spec => []TypeOK
<1>1. IInv => TypeOK
  BY DEF IInv
<1> QED BY Invariance, <1>1, PTL

\* Directly connected, however many instances start, crash and restart, at most one
\* at a time is in the migrations.
THEOREM LockExcludes == Spec => []MutualExclusion
<1>1. IInv => MutualExclusion
  BY LockParameters DEF IInv, DirectLock, MutualExclusion, OneMigrates
<1> QED BY Invariance, <1>1, PTL

\* Directly connected, no instance leaves the lock behind.
THEOREM LockNotLeaked == Spec => []NoLeakedLock
<1>1. IInv => NoLeakedLock
  BY DEF IInv, DirectLock, NoLeakedLock
<1> QED BY Invariance, <1>1, PTL
=============================================================================
