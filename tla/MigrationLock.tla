--------------------------- MODULE MigrationLock ---------------------------
(***************************************************************************)
(* Service instances that start at the same time and run the PostgreSQL    *)
(* migrations under pg_advisory_lock (withAdvisoryLock in internal/db).    *)
(* The lock belongs to the server session that took it.  db.Exec runs each *)
(* statement on a connection of the pool: connected to PostgreSQL an       *)
(* instance that starts has one connection, so one session of its own;     *)
(* behind a pooler in transaction mode (docker-compose.yml) every          *)
(* statement may go to any server session that is free.                    *)
(***************************************************************************)
EXTENDS Naturals

CONSTANTS Instances,  \* service processes that start
          Sessions,   \* server sessions
          OwnSession, \* the session of an instance that is connected directly
          Pooling,    \* the deployments of an instance: TRUE is through a pooler
                      \* in transaction mode, FALSE a direct connection
          Nobody,
          MaxCrashes  \* bound of the crashes and failed migrations in an instance

ASSUME LockParameters ==
    /\ OwnSession \in [Instances -> Sessions]
    /\ \A i, j \in Instances : OwnSession[i] = OwnSession[j] => i = j
    /\ Pooling \subseteq BOOLEAN
    /\ Nobody \notin Sessions
    /\ MaxCrashes \in Nat

VARIABLES pooled,  \* how this deployment is connected; chosen once
          pc,      \* where each instance stands in Initialize
          waits,   \* the session on which its pg_advisory_lock waits
          holder,  \* the session that holds the lock
          depth,   \* how often it took it: the lock is re-entrant in a session
          crashes

vars == <<pooled, pc, waits, holder, depth, crashes>>

PCs == {"start", "waiting", "migrating", "unlocking", "up", "down"}

TypeOK ==
    /\ pooled \in Pooling
    /\ pc \in [Instances -> PCs]
    /\ waits \in [Instances -> Sessions \cup {Nobody}]
    /\ holder \in Sessions \cup {Nobody}
    /\ depth \in Nat
    /\ crashes \in Nat

Init ==
    /\ pooled \in Pooling
    /\ pc = [i \in Instances |-> "start"]
    /\ waits = [i \in Instances |-> Nobody]
    /\ holder = Nobody
    /\ depth = 0
    /\ crashes = 0

\* A session that executes a waiting pg_advisory_lock is given to nobody else.
Free(s) == \A i \in Instances : waits[i] # s

\* The sessions a statement of instance i may run on.
Route(i) == IF pooled THEN {s \in Sessions : Free(s)} ELSE {OwnSession[i]}

Goto(i, s) == pc' = [pc EXCEPT ![i] = s]

\* SELECT pg_advisory_lock reaches a session, and waits there.
Request(i, s) ==
    /\ pc[i] = "start"
    /\ s \in Route(i)
    /\ waits' = [waits EXCEPT ![i] = s]
    /\ Goto(i, "waiting")
    /\ UNCHANGED <<pooled, holder, depth, crashes>>

\* Mutant of Grant: the lock is the process's, not the session's.
Grant_ToProcess(i) ==
    /\ pc[i] = "waiting"
    /\ holder \in {Nobody, i}
    /\ holder' = i
    /\ depth' = depth + 1
    /\ waits' = [waits EXCEPT ![i] = Nobody]
    /\ Goto(i, "migrating")
    /\ UNCHANGED <<pooled, crashes>>

\* Mutant of Grant: the lock is asked for and not waited for.
Grant_NoWait(i) ==
    /\ pc[i] = "waiting"
    /\ holder' = waits[i]
    /\ depth' = depth + 1
    /\ waits' = [waits EXCEPT ![i] = Nobody]
    /\ Goto(i, "migrating")
    /\ UNCHANGED <<pooled, crashes>>

\* The server grants it when nobody else holds it, at once to the session that does.
Grant(i) ==
    /\ pc[i] = "waiting"
    /\ holder \in {Nobody, waits[i]}
    /\ holder' = waits[i]
    /\ depth' = depth + 1
    /\ waits' = [waits EXCEPT ![i] = Nobody]
    /\ Goto(i, "migrating")
    /\ UNCHANGED <<pooled, crashes>>

\* runMigrationsPostgres returns, with or without an error: the unlock is deferred.
Migrated(i) ==
    /\ pc[i] = "migrating"
    /\ Goto(i, "unlocking")
    /\ UNCHANGED <<pooled, waits, holder, depth, crashes>>

\* Mutant of Release: the unlock is forgotten.
Release_None(s) == UNCHANGED <<holder, depth>>

\* pg_advisory_unlock in session s: only the holder's counts.
Release(s) ==
    IF s = holder
    THEN /\ depth' = depth - 1
         /\ holder' = IF depth = 1 THEN Nobody ELSE holder
    ELSE UNCHANGED <<holder, depth>>

\* The result of the unlock is not looked at.  If the migrations failed, Initialize
\* returns their error now and the process exits.
Unlock(i, s) ==
    /\ pc[i] = "unlocking"
    /\ s \in Route(i)
    /\ Release(s)
    /\ \/ Goto(i, "up") /\ UNCHANGED crashes
       \/ crashes < MaxCrashes /\ crashes' = crashes + 1 /\ Goto(i, "down")
    /\ UNCHANGED <<pooled, waits>>

\* Mutant of Expire: the pooler keeps its server sessions for ever.
Expire_Never(s) == FALSE /\ UNCHANGED vars

\* The pooler closes a session that was idle for long (SERVER_IDLE_TIMEOUT), and
\* PostgreSQL gives up its lock.  Only the holder's end matters here.
Expire(s) ==
    /\ pooled
    /\ holder = s /\ Free(s)
    /\ holder' = Nobody /\ depth' = 0
    /\ UNCHANGED <<pooled, pc, waits, crashes>>

\* A direct session ends with its process and its lock with it; the pooler keeps
\* its sessions.
Crash(i) ==
    /\ crashes < MaxCrashes
    /\ pc[i] # "down"
    /\ Goto(i, "down")
    /\ waits' = [waits EXCEPT ![i] = Nobody]
    /\ IF ~ pooled /\ holder = OwnSession[i]
       THEN holder' = Nobody /\ depth' = 0
       ELSE UNCHANGED <<holder, depth>>
    /\ crashes' = crashes + 1
    /\ UNCHANGED pooled

Restart(i) ==
    /\ pc[i] = "down"
    /\ Goto(i, "start")
    /\ UNCHANGED <<pooled, waits, holder, depth, crashes>>

Next ==
    \/ \E i \in Instances :
          \/ \E s \in Sessions : Request(i, s) \/ Unlock(i, s)
          \/ Grant(i) \/ Migrated(i) \/ Crash(i) \/ Restart(i)
    \/ \E s \in Sessions : Expire(s)

Spec == Init /\ [][Next]_vars

Progress(i) ==
    \/ \E s \in Sessions : Request(i, s) \/ Unlock(i, s)
    \/ Migrated(i) \/ Restart(i)

\* Every process runs on; the server serves its lock queue in order, so a waiting
\* session is not passed over for ever; idle sessions time out.
LiveSpec ==
    /\ Spec
    /\ \A i \in Instances : WF_vars(Progress(i)) /\ SF_vars(Grant(i))
    /\ \A s \in Sessions : WF_vars(Expire(s))

-----------------------------------------------------------------------------
(* Properties.                                                             *)

InMigration(i) == pc[i] \in {"migrating", "unlocking"}

\* README: PostgreSQL uses pg_advisory_lock to prevent race conditions when
\* multiple instances start: two instances never run the migrations together.  Not so
\* behind a pooler, hence in no run of its own: the project's README, section 3.
OneMigrates ==
    \A i, j \in Instances : InMigration(i) /\ InMigration(j) => i = j

\* With direct connections the lock does that, whoever crashes where.
MutualExclusion == ~ pooled => OneMigrates

\* Directly connected, the lock is held only while some instance that may still
\* unlock it is in the migrations: no exit, crash or error leaves it behind.
NoLeakedLock ==
    ~ pooled /\ holder # Nobody => \E i \in Instances : InMigration(i)

\* Every instance that starts serves in the end, or goes down on the way: not even a
\* lock left in a session of the pooler holds it up for ever.
EveryoneStarts ==
    \A i \in Instances : pc[i] = "start" ~> pc[i] \in {"up", "down"}
=============================================================================
