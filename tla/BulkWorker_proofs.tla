-------------------------- MODULE BulkWorker_proofs --------------------------
(***************************************************************************)
(* Proofs about BulkWorker, for any jobs, workers and files, any crashes,  *)
(* lost updates and resets: no run repeats a record, no completed job was  *)
(* left undone, and with one worker what is completed is whole and final.  *)
(***************************************************************************)
EXTENDS BulkWorker, FiniteSetTheorems, TLAPS

Busy(k) == k.pc \notin {"idle", "down"}

\* What holds of a worker by itself.  Only what Unmarshal found to be the records
\* of the file leads into the loop, and only its end or an errors object out of it.
SoundWorker(k) ==
    /\ Busy(k) => k.job \in Jobs
    /\ k.success + k.errors = k.done
    /\ k.pc = "mark" => k.done = 0
    /\ k.pc = "add" => k.read = "records" /\ k.done < Records
    /\ k.pc = "progress" => k.read = "records"
    /\ k.pc = "finish" => k.read = "errors" \/ k.done = Records

Sound == TypeOK /\ \A w \in Workers : SoundWorker(worker[w])

AllTried(j) == \A i \in 1..Records : tried[j][i] > 0

\* A worker's place in the file has been reached, and an errors object was only
\* ever written at the end of a file.
TriedInv ==
    /\ \A w \in Workers : Busy(worker[w]) =>
          /\ \A i \in 1..worker[w].done : tried[worker[w].job][i] > 0
          /\ worker[w].read = "errors" => AllTried(worker[w].job)
    /\ \A j \in Jobs :
          job[j].summary = "errors" \/ job[j].status = "completed" => AllTried(j)

\* The runs of j that have yet to come to record i.
Owing(j, i) ==
    {w \in Workers : Busy(worker[w]) /\ worker[w].job = j /\ worker[w].done < i}

\* Each selection is a record's next attempt, made or owed.
OwedInv ==
    \A j \in Jobs, i \in 1..Records :
        /\ IsFiniteSet(Owing(j, i))
        /\ tried[j][i] + Cardinality(Owing(j, i)) <= starts[j]

-----------------------------------------------------------------------------
(* Steps of one worker on one job.                                         *)

\* Worker w goes to k, and no other moves.
LEMMA Moved ==
    ASSUME Sound, NEW w \in Workers, NEW k \in Worker, SoundWorker(k),
           worker' = [worker EXCEPT ![w] = k]
    PROVE  /\ worker'[w] = k
           /\ \A v \in Workers \ {w} : worker'[v] = worker[v]
           /\ worker' \in [Workers -> Worker]
           /\ (\A v \in Workers : SoundWorker(worker[v]))'
<1>1. /\ worker'[w] = k
      /\ \A v \in Workers \ {w} : worker'[v] = worker[v]
      /\ worker' \in [Workers -> Worker]
  BY DEF Sound, TypeOK
<1>2. ASSUME NEW v \in Workers PROVE SoundWorker(worker[v])'
  <2>1. SoundWorker(worker'[v])
    BY <1>1 DEF Sound
  <2> QED BY <2>1 DEF SoundWorker, Busy
<1> QED BY <1>1, <1>2

\* An UPDATE of job j, which may be lost, leaves the other rows alone.
LEMMA Updated ==
    ASSUME Sound, NEW j \in Jobs, NEW r \in Job, UpdateJob(j, r)
    PROVE  /\ job' \in [Jobs -> Job]
           /\ job'[j] \in {job[j], r}
           /\ \A i \in Jobs \ {j} : job'[i] = job[i]
BY DEF UpdateJob, Sound, TypeOK

\* A worker that has nothing to do is typed and sound.
LEMMA IdleIsSound ==
    /\ IdleWorker \in Worker /\ SoundWorker(IdleWorker)
    /\ [IdleWorker EXCEPT !.pc = "down"] \in Worker
    /\ SoundWorker([IdleWorker EXCEPT !.pc = "down"])
BY WorkerParameters DEF IdleWorker, Worker, WorkerPC, Summary, SoundWorker, Busy

\* SelectPending, as the worker it makes.
Selected(j) == [IdleWorker EXCEPT !.pc = "mark", !.job = j, !.read = job[j].summary]

\* The selection makes a typed and sound worker.
LEMMA SelectShape ==
    ASSUME Sound, NEW w \in Workers, NEW j \in Jobs, SelectPending(w, j)
    PROVE  /\ Selected(j) \in Worker /\ SoundWorker(Selected(j))
           /\ worker' = [worker EXCEPT ![w] = Selected(j)]
           /\ job[j].status = "pending"
           /\ ~ Busy(worker[w])
<1>1. /\ job[j] \in Job /\ job[j].status = "pending" /\ job[j].summary \in Summary
      /\ ~ Busy(worker[w])
  BY DEF SelectPending, Oldest, At, Busy, Sound, TypeOK, Job
<1>2. /\ IdleWorker \in Worker /\ IdleWorker.done = 0
      /\ IdleWorker.success = 0 /\ IdleWorker.errors = 0
  BY IdleIsSound DEF IdleWorker
<1>3. /\ Selected(j) \in Worker /\ Selected(j).pc = "mark" /\ Selected(j).job = j
      /\ Selected(j).done = 0 /\ Selected(j).success = 0 /\ Selected(j).errors = 0
  <2>1. "mark" \in WorkerPC
    BY DEF WorkerPC
  <2> QED BY <1>1, <1>2, <2>1 DEF Selected, Worker
<1>4. SoundWorker(Selected(j))
  BY <1>3 DEF SoundWorker
<1> QED BY <1>1, <1>3, <1>4 DEF SelectPending, Selected

\* Each other action of a worker: where it goes, and what it wants to write.
LEMMA MarkShape ==
    ASSUME Sound, NEW w \in Workers, MarkProcessing(w)
    PROVE  /\ Busy(worker[w]) /\ worker[w].job \in Jobs
           /\ [job[worker[w].job] EXCEPT !.status = "processing"] \in Job
           /\ \E s \in {"add", "finish", "reject"} :
                /\ [worker[w] EXCEPT !.pc = s] \in Worker
                /\ SoundWorker([worker[w] EXCEPT !.pc = s])
                /\ worker' = [worker EXCEPT ![w] = [worker[w] EXCEPT !.pc = s]]
<1> DEFINE s == AfterMark(worker[w].read)
           k == [worker[w] EXCEPT !.pc = s]
<1>1. /\ worker[w] \in Worker /\ SoundWorker(worker[w]) /\ worker[w].pc = "mark"
      /\ worker' = [worker EXCEPT ![w] = k]
  BY DEF MarkProcessing, At, Goto, Sound, TypeOK
<1>2. Busy(worker[w]) /\ worker[w].job \in Jobs
  BY <1>1 DEF Busy, SoundWorker
<1>3. /\ s \in {"add", "finish", "reject"}
      /\ s = "add" => worker[w].read = "records"
      /\ s = "finish" => worker[w].read = "errors"
  BY <1>1 DEF AfterMark, Worker, Summary
<1>4. k \in Worker /\ SoundWorker(k)
  BY <1>1, <1>2, <1>3, WorkerParameters DEF Worker, WorkerPC, SoundWorker, Busy
<1>5. [job[worker[w].job] EXCEPT !.status = "processing"] \in Job
  BY <1>2 DEF Sound, TypeOK, Job, JobStatus
<1> QED BY <1>1, <1>2, <1>3, <1>4, <1>5

\* Counting what has been done gives a typed row.
LEMMA CountedIsJob ==
    ASSUME Sound, NEW w \in Workers, NEW r \in Job
    PROVE  Counted(r, w) \in Job
BY DEF Counted, Job, Sound, TypeOK, Worker

\* A worker that has tried a record is typed and sound, with the record counted.
LEMMA AddShape ==
    ASSUME Sound, NEW w \in Workers, AddRecord(w)
    PROVE  \E k \in Worker :
             /\ Busy(worker[w]) /\ worker[w].job \in Jobs
             /\ worker[w].done + 1 \in 1..Records
             /\ SoundWorker(k) /\ Busy(k)
             /\ k.job = worker[w].job /\ k.read = worker[w].read
             /\ k.done = worker[w].done + 1
             /\ worker' = [worker EXCEPT ![w] = k]
<1>1. /\ worker[w] \in Worker /\ SoundWorker(worker[w]) /\ worker[w].pc = "add"
  BY DEF AddRecord, At, Sound, TypeOK
<1> DEFINE i == worker[w].done + 1
           s == IF Due(i) THEN "progress" ELSE "add"
           k(a, b) == [worker[w] EXCEPT !.done = i, !.success = a, !.errors = b, !.pc = s]
<1>2. /\ worker[w].success \in 0..Records /\ worker[w].errors \in 0..Records
      /\ worker[w].success + worker[w].errors = worker[w].done
      /\ worker[w].read = "records"
      /\ worker[w].done \in 0..Records /\ worker[w].done < Records
      /\ Busy(worker[w]) /\ worker[w].job \in Jobs
  BY <1>1 DEF Worker, SoundWorker, Busy
<1>3. PICK ok \in BOOLEAN :
         worker' = [worker EXCEPT ![w] =
                       [worker[w] EXCEPT !.done = i,
                                         !.success = IF ok THEN @ + 1 ELSE @,
                                         !.errors = IF ok THEN @ ELSE @ + 1,
                                         !.pc = s]]
  BY DEF AddRecord
<1> DEFINE a == IF ok THEN worker[w].success + 1 ELSE worker[w].success
           b == IF ok THEN worker[w].errors ELSE worker[w].errors + 1
<1>4. /\ a \in 0..Records /\ b \in 0..Records /\ a + b = i
  BY <1>2, WorkerParameters
<1>5. /\ s \in {"progress", "add"} /\ i \in 1..Records
      /\ s = "add" => i < Records
  BY <1>2, WorkerParameters DEF Due
<1>6. worker' = [worker EXCEPT ![w] = k(a, b)]
  BY <1>3
<1> HIDE DEF s, a, b
<1>7. /\ k(a, b) \in Worker
      /\ k(a, b).pc = s /\ k(a, b).job = worker[w].job /\ k(a, b).read = worker[w].read
      /\ k(a, b).done = i /\ k(a, b).success = a /\ k(a, b).errors = b
  <2>1. i \in 0..Records /\ s \in WorkerPC
    BY <1>5, WorkerParameters DEF WorkerPC
  <2> HIDE DEF i
  <2> QED BY <1>1, <1>4, <2>1 DEF Worker
<1> HIDE DEF k
<1>8. SoundWorker(k(a, b)) /\ Busy(k(a, b))
  BY <1>2, <1>4, <1>5, <1>7 DEF SoundWorker, Busy
<1> QED BY <1>2, <1>5, <1>6, <1>7, <1>8

\* Saving the progress leads to the next record or to the end of the file.
LEMMA ProgressShape ==
    ASSUME Sound, NEW w \in Workers, Progress(w)
    PROVE  /\ Busy(worker[w]) /\ worker[w].job \in Jobs
           /\ UpdateJob(worker[w].job, Counted(job[worker[w].job], w))
           /\ \E s \in {"add", "finish"} :
                /\ [worker[w] EXCEPT !.pc = s] \in Worker
                /\ SoundWorker([worker[w] EXCEPT !.pc = s])
                /\ worker' = [worker EXCEPT ![w] = [worker[w] EXCEPT !.pc = s]]
<1> DEFINE s == IF worker[w].done = Records THEN "finish" ELSE "add"
           k == [worker[w] EXCEPT !.pc = s]
<1>1. /\ worker[w] \in Worker /\ SoundWorker(worker[w]) /\ worker[w].pc = "progress"
      /\ worker' = [worker EXCEPT ![w] = k]
  BY DEF Progress, At, Goto, Sound, TypeOK
<1>2. Busy(worker[w]) /\ worker[w].job \in Jobs
  BY <1>1 DEF Busy, SoundWorker
<1>3. k \in Worker /\ SoundWorker(k)
  BY <1>1, <1>2, WorkerParameters DEF Worker, WorkerPC, SoundWorker, Busy
<1> QED BY <1>1, <1>2, <1>3 DEF Progress

\* AddRecord's history: one more attempt of one record.
LEMMA TriedAgain ==
    ASSUME Sound, NEW j \in Jobs, NEW i \in 1..Records,
           tried' = [tried EXCEPT ![j][i] = @ + 1]
    PROVE  /\ tried' \in [Jobs -> [1..Records -> Nat]]
           /\ tried'[j][i] = tried[j][i] + 1
           /\ \A m \in Jobs, n \in 1..Records :
                 <<m, n>> # <<j, i>> => tried'[m][n] = tried[m][n]
<1>1. tried \in [Jobs -> [1..Records -> Nat]]
  BY DEF Sound, TypeOK
<1> DEFINE v == tried[j][i] + 1
           S == 1..Records
           f == [tried[j] EXCEPT ![i] = v]
<1>2. tried' = [tried EXCEPT ![j] = f]
  BY <1>1
<1>3. tried[j] \in [S -> Nat] /\ v \in Nat /\ i \in S
  <2>1. tried[j] \in [S -> Nat]
    BY <1>1
  <2>2. tried[j][i] \in Nat
    BY <2>1
  <2> QED BY <2>1, <2>2
<1> HIDE DEF v, S
<1>4. /\ f \in [S -> Nat] /\ f[i] = v
      /\ \A n \in S : n # i => f[n] = tried[j][n]
  BY <1>3
<1> HIDE DEF f
<1>5. /\ tried' \in [Jobs -> [S -> Nat]]
      /\ tried'[j] = f
      /\ \A m \in Jobs : m # j => tried'[m] = tried[m]
  BY <1>1, <1>2, <1>4 DEF S
<1> QED BY <1>4, <1>5 DEF S, v

\* Only the end of a file completes its job, with a summary that adds up.
LEMMA FinishShape ==
    ASSUME Sound, NEW w \in Workers, Finish(w)
    PROVE  /\ Busy(worker[w]) /\ worker[w].job \in Jobs
           /\ worker[w].read = "errors" \/ worker[w].done = Records
           /\ [Counted(job[worker[w].job], w) EXCEPT !.status = "completed",
                                                     !.summary = "errors"] \in Job
           /\ worker' = [worker EXCEPT ![w] = IdleWorker]
<1>1. SoundWorker(worker[w]) /\ worker[w].pc = "finish"
  BY DEF Finish, At, Sound
<1>2. /\ Busy(worker[w]) /\ worker[w].job \in Jobs
      /\ worker[w].read = "errors" \/ worker[w].done = Records
  BY <1>1 DEF Busy, SoundWorker
<1>3. Counted(job[worker[w].job], w) \in Job
  BY <1>2, CountedIsJob DEF Sound, TypeOK
<1>4. [Counted(job[worker[w].job], w) EXCEPT !.status = "completed",
                                             !.summary = "errors"] \in Job
  BY <1>3 DEF Job, JobStatus, Summary
<1> QED BY <1>2, <1>4 DEF Finish

\* A payload that is not read makes its job failed.
LEMMA RejectShape ==
    ASSUME Sound, NEW w \in Workers, Reject(w)
    PROVE  /\ Busy(worker[w]) /\ worker[w].job \in Jobs
           /\ [job[worker[w].job] EXCEPT !.status = "failed", !.summary = "message"] \in Job
           /\ worker' = [worker EXCEPT ![w] = IdleWorker]
BY DEF Reject, At, Sound, TypeOK, SoundWorker, Busy, Job, JobStatus, Summary

\* A new row is pending, and has no errors object yet.
LEMMA InsertShape ==
    ASSUME Sound, NEW j \in Jobs, EnqueueBulkAdd(j) \/ ForeignInsert(j)
    PROVE  /\ job' \in [Jobs -> Job]
           /\ \A i \in Jobs : \/ job'[i] = job[i]
                              \/ /\ job[i].status = "absent"
                                 /\ job'[i].status = "pending"
                                 /\ job'[i].summary # "errors"
           /\ UNCHANGED <<worker, crashes, tried, starts>>
<1>1. PICK s \in {"records", "null"} : Insert(j, s)
  BY DEF EnqueueBulkAdd, ForeignInsert
<1> DEFINE r == [job[j] EXCEPT !.status = "pending", !.summary = s]
<1>2. job[j] \in Job /\ job[j].status = "absent" /\ job' = [job EXCEPT ![j] = r]
  BY <1>1 DEF Insert, Sound, TypeOK
<1>3. r \in Job /\ r.status = "pending" /\ r.summary # "errors"
  BY <1>1, <1>2 DEF Job, JobStatus, Summary
<1> HIDE DEF r
<1> QED BY <1>1, <1>2, <1>3 DEF Insert, Sound, TypeOK

\* ManualReset and RetryFailed change nothing but the status of jobs that are under
\* way or have failed.
LEMMA RequeueShape ==
    ASSUME Sound, ManualReset \/ (\E w \in Workers : RetryFailed(w))
    PROVE  /\ job' \in [Jobs -> Job]
           /\ \A i \in Jobs : \/ job'[i] = job[i]
                              \/ /\ job[i].status \in {"processing", "failed"}
                                 /\ job'[i].status = "pending"
                                 /\ job'[i].summary = job[i].summary
           /\ UNCHANGED <<worker, crashes, tried, starts>>
<1>1. PICK J \in SUBSET Jobs :
         /\ \A i \in J : job[i].status \in {"processing", "failed"}
         /\ job' = [i \in Jobs |-> IF i \in J THEN [job[i] EXCEPT !.status = "pending"]
                                              ELSE job[i]]
  <2>1. CASE ManualReset
    BY <2>1 DEF ManualReset
  <2>2. ASSUME NEW w \in Workers, RetryFailed(w)
        PROVE  \E J \in SUBSET Jobs :
                 /\ \A i \in J : job[i].status \in {"processing", "failed"}
                 /\ job' = [i \in Jobs |->
                              IF i \in J THEN [job[i] EXCEPT !.status = "pending"]
                                         ELSE job[i]]
    BY <2>2 DEF RetryFailed
  <2> QED BY <2>1, <2>2
<1>2. ASSUME NEW i \in Jobs
      PROVE  /\ job'[i] \in Job
             /\ \/ job'[i] = job[i]
                \/ /\ job[i].status \in {"processing", "failed"}
                   /\ job'[i].status = "pending"
                   /\ job'[i].summary = job[i].summary
  <2>1. job[i] \in Job
    BY DEF Sound, TypeOK
  <2>2. /\ [job[i] EXCEPT !.status = "pending"] \in Job
        /\ [job[i] EXCEPT !.status = "pending"].status = "pending"
        /\ [job[i] EXCEPT !.status = "pending"].summary = job[i].summary
    BY <2>1 DEF Job, JobStatus
  <2>3. CASE i \in J
    BY <1>1, <2>2, <2>3
  <2>4. CASE i \notin J
    BY <1>1, <2>1, <2>4
  <2> QED BY <2>3, <2>4
<1>3. job' \in [Jobs -> Job]
  BY <1>1, <1>2
<1>4. UNCHANGED <<worker, crashes, tried, starts>>
  BY DEF ManualReset, RetryFailed
<1> QED BY <1>2, <1>3, <1>4

\* A crash and a restart leave a worker with nothing to do.
LEMMA CrashShape ==
    ASSUME Sound, NEW w \in Workers, Crash(w) \/ Restart(w)
    PROVE  \E k \in {IdleWorker, [IdleWorker EXCEPT !.pc = "down"]} :
             /\ ~ Busy(k)
             /\ worker' = [worker EXCEPT ![w] = k]
             /\ crashes' \in 0..MaxCrashes
             /\ UNCHANGED <<job, tried, starts>>
BY WorkerParameters DEF Crash, Restart, Busy, IdleWorker, Sound, TypeOK

-----------------------------------------------------------------------------
(* Types, and what holds of each worker.                                   *)

\* The environment leaves the workers and their histories alone.
LEMMA JobsOnly ==
    ASSUME Sound, job' \in [Jobs -> Job], UNCHANGED <<worker, crashes, tried, starts>>
    PROVE  Sound'
<1>1. TypeOK'
  BY DEF Sound, TypeOK
<1>2. ASSUME NEW w \in Workers PROVE SoundWorker(worker[w])'
  BY DEF Sound, SoundWorker, Busy
<1> QED BY <1>1, <1>2 DEF Sound

\* A worker goes to a sound place.
LEMMA OneMoves ==
    ASSUME Sound, NEW w \in Workers, NEW k \in Worker, SoundWorker(k),
           worker' = [worker EXCEPT ![w] = k],
           job' \in [Jobs -> Job], crashes' \in 0..MaxCrashes,
           tried' \in [Jobs -> [1..Records -> Nat]], starts' \in [Jobs -> Nat]
    PROVE  Sound'
BY Moved DEF Sound, TypeOK

\* Sound holds at first.
LEMMA SoundInit == Init => Sound
<1> SUFFICES ASSUME Init PROVE Sound
  OBVIOUS
<1>1. AbsentJob \in Job
  BY WorkerParameters DEF AbsentJob, Job, JobStatus, Summary
<1>2. TypeOK
  BY <1>1, IdleIsSound, WorkerParameters DEF Init, TypeOK
<1>3. \A w \in Workers : SoundWorker(worker[w])
  BY IdleIsSound DEF Init
<1> QED BY <1>2, <1>3 DEF Sound

\* No step breaks Sound: one case per action.
LEMMA SoundStep == Sound /\ [Next]_vars => Sound'
<1> SUFFICES ASSUME Sound, [Next]_vars PROVE Sound'
  OBVIOUS
<1>1. ASSUME NEW j \in Jobs, EnqueueBulkAdd(j) \/ ForeignInsert(j) PROVE Sound'
  BY <1>1, InsertShape, JobsOnly
<1>2. ASSUME ManualReset \/ (\E w \in Workers : RetryFailed(w)) PROVE Sound'
  BY <1>2, RequeueShape, JobsOnly
<1>3. ASSUME NEW w \in Workers, NEW j \in Jobs, SelectPending(w, j) PROVE Sound'
  <2>1. UNCHANGED <<job, crashes, tried>> /\ starts' \in [Jobs -> Nat]
    BY <1>3 DEF SelectPending, Sound, TypeOK
  <2> QED BY <1>3, <2>1, SelectShape, OneMoves DEF Sound, TypeOK
<1>4. ASSUME NEW w \in Workers, MarkProcessing(w) PROVE Sound'
  <2>1. UNCHANGED <<crashes, tried, starts>>
        /\ UpdateJob(worker[w].job, [job[worker[w].job] EXCEPT !.status = "processing"])
    BY <1>4 DEF MarkProcessing
  <2>2. job' \in [Jobs -> Job]
    BY <1>4, <2>1, MarkShape, Updated
  <2> QED BY <1>4, <2>1, <2>2, MarkShape, OneMoves DEF Sound, TypeOK
<1>5. ASSUME NEW w \in Workers, Reject(w) PROVE Sound'
  <2>1. UNCHANGED <<crashes, tried, starts>>
        /\ UpdateJob(worker[w].job, [job[worker[w].job] EXCEPT !.status = "failed",
                                                               !.summary = "message"])
    BY <1>5 DEF Reject
  <2>2. job' \in [Jobs -> Job]
    BY <1>5, <2>1, RejectShape, Updated
  <2> QED BY <1>5, <2>1, <2>2, RejectShape, IdleIsSound, OneMoves DEF Sound, TypeOK
<1>6. ASSUME NEW w \in Workers, AddRecord(w) PROVE Sound'
  <2>1. UNCHANGED <<job, crashes, starts>>
        /\ tried' = [tried EXCEPT ![worker[w].job][worker[w].done + 1] = @ + 1]
    BY <1>6 DEF AddRecord
  <2>2. PICK k \in Worker :
             /\ worker[w].job \in Jobs
             /\ worker[w].done + 1 \in 1..Records
             /\ SoundWorker(k)
             /\ worker' = [worker EXCEPT ![w] = k]
    BY <1>6, AddShape
  <2>3. tried' \in [Jobs -> [1..Records -> Nat]]
    BY <2>1, <2>2, TriedAgain
  <2> QED BY <2>1, <2>2, <2>3, OneMoves DEF Sound, TypeOK
<1>7. ASSUME NEW w \in Workers, Progress(w) PROVE Sound'
  <2>1. UNCHANGED <<crashes, tried, starts>>
    BY <1>7 DEF Progress
  <2>2. job' \in [Jobs -> Job]
    <3>1. worker[w].job \in Jobs /\ UpdateJob(worker[w].job, Counted(job[worker[w].job], w))
      BY <1>7, ProgressShape
    <3>2. Counted(job[worker[w].job], w) \in Job
      BY <3>1, CountedIsJob DEF Sound, TypeOK
    <3> QED BY <3>1, <3>2, Updated
  <2> QED BY <1>7, <2>1, <2>2, ProgressShape, OneMoves DEF Sound, TypeOK
<1>8. ASSUME NEW w \in Workers, Finish(w) PROVE Sound'
  <2>1. UNCHANGED <<crashes, tried, starts>>
        /\ UpdateJob(worker[w].job,
              [Counted(job[worker[w].job], w) EXCEPT !.status = "completed",
                                                     !.summary = "errors"])
    BY <1>8 DEF Finish
  <2>2. job' \in [Jobs -> Job]
    BY <1>8, <2>1, FinishShape, Updated
  <2> QED BY <1>8, <2>1, <2>2, FinishShape, IdleIsSound, OneMoves DEF Sound, TypeOK
<1>9. ASSUME NEW w \in Workers, Crash(w) \/ Restart(w) PROVE Sound'
  BY <1>9, CrashShape, IdleIsSound, OneMoves DEF Sound, TypeOK
<1>10. CASE UNCHANGED vars
  BY <1>10, JobsOnly DEF vars, Sound, TypeOK
<1> QED BY <1>1, <1>2, <1>3, <1>4, <1>5, <1>6, <1>7, <1>8, <1>9, <1>10 DEF Next, Step

-----------------------------------------------------------------------------
(* The kinds of step there are, as the histories and the workers see them.  *)

\* Worker w stays at its record, or drops what it was doing.
Stays(w, k) ==
    /\ k \in Worker
    /\ Busy(k) => /\ Busy(worker[w])
                  /\ k.job = worker[w].job /\ k.read = worker[w].read
                  /\ k.done = worker[w].done
    /\ worker' = [worker EXCEPT ![w] = k]
    /\ UNCHANGED <<tried, starts>>

\* Worker w takes job j up.
Takes(w, j) ==
    /\ job[j].status = "pending"
    /\ ~ Busy(worker[w])
    /\ worker' = [worker EXCEPT ![w] = Selected(j)]
    /\ starts' = [starts EXCEPT ![j] = @ + 1]
    /\ UNCHANGED <<job, tried>>

\* Worker w gives its next record to AddNumber and goes to k.
Tries(w, k) ==
    /\ k \in Worker
    /\ Busy(worker[w]) /\ Busy(k)
    /\ worker[w].job \in Jobs /\ worker[w].done + 1 \in 1..Records
    /\ k.job = worker[w].job /\ k.read = worker[w].read /\ k.done = worker[w].done + 1
    /\ worker' = [worker EXCEPT ![w] = k]
    /\ tried' = [tried EXCEPT ![worker[w].job][worker[w].done + 1] = @ + 1]
    /\ UNCHANGED <<job, starts>>

\* Every step is one of these three or leaves workers and histories alone.
LEMMA StepKinds ==
    ASSUME Sound, [Next]_vars
    PROVE  \/ UNCHANGED <<worker, tried, starts>>
           \/ \E w \in Workers, k \in Worker : Stays(w, k)
           \/ \E w \in Workers, j \in Jobs : Takes(w, j)
           \/ \E w \in Workers, k \in Worker : Tries(w, k)
<1> DEFINE Kind == \/ UNCHANGED <<worker, tried, starts>>
                   \/ \E w \in Workers, k \in Worker : Stays(w, k)
                   \/ \E w \in Workers, j \in Jobs : Takes(w, j)
                   \/ \E w \in Workers, k \in Worker : Tries(w, k)
<1>1. ASSUME NEW w \in Workers, NEW j \in Jobs, SelectPending(w, j) PROVE Kind
  <2>1. Takes(w, j)
    BY <1>1, SelectShape DEF Takes, SelectPending
  <2> QED BY <2>1
<1>2. ASSUME NEW w \in Workers, AddRecord(w) PROVE Kind
  <2>1. UNCHANGED <<job, starts>>
        /\ tried' = [tried EXCEPT ![worker[w].job][worker[w].done + 1] = @ + 1]
    BY <1>2 DEF AddRecord
  <2>2. \E k \in Worker : Tries(w, k)
    BY <1>2, <2>1, AddShape DEF Tries
  <2> QED BY <2>2
<1>3. ASSUME NEW w \in Workers, MarkProcessing(w) \/ Progress(w) PROVE Kind
  <2>1. UNCHANGED <<tried, starts>>
    BY <1>3 DEF MarkProcessing, Progress
  <2>2. PICK s \in {"add", "finish", "reject"} :
           /\ Busy(worker[w])
           /\ [worker[w] EXCEPT !.pc = s] \in Worker
           /\ worker' = [worker EXCEPT ![w] = [worker[w] EXCEPT !.pc = s]]
    BY <1>3, MarkShape, ProgressShape
  <2> DEFINE k == [worker[w] EXCEPT !.pc = s]
  <2>3. worker[w] \in Worker
    BY DEF Sound, TypeOK
  <2>4. k.job = worker[w].job /\ k.read = worker[w].read /\ k.done = worker[w].done
    BY <2>3 DEF Worker
  <2>5. Stays(w, k)
    BY <2>1, <2>2, <2>4 DEF Stays
  <2> QED BY <2>2, <2>5
<1>4. ASSUME NEW w \in Workers, Reject(w) \/ Finish(w) PROVE Kind
  <2>1. UNCHANGED <<tried, starts>> /\ worker' = [worker EXCEPT ![w] = IdleWorker]
    BY <1>4 DEF Reject, Finish
  <2>2. IdleWorker \in Worker /\ ~ Busy(IdleWorker)
    BY IdleIsSound DEF IdleWorker, Busy
  <2>3. Stays(w, IdleWorker)
    BY <2>1, <2>2 DEF Stays
  <2> QED BY <2>2, <2>3
<1>5. ASSUME NEW w \in Workers, Crash(w) \/ Restart(w) PROVE Kind
  <2>1. PICK k \in {IdleWorker, [IdleWorker EXCEPT !.pc = "down"]} :
           ~ Busy(k) /\ worker' = [worker EXCEPT ![w] = k] /\ UNCHANGED <<tried, starts>>
    BY <1>5, CrashShape
  <2>2. k \in Worker
    BY IdleIsSound
  <2>3. Stays(w, k)
    BY <2>1, <2>2 DEF Stays
  <2> QED BY <2>2, <2>3
<1>6. ASSUME NEW w \in Workers, RetryFailed(w) PROVE Kind
  BY <1>6 DEF RetryFailed
<1>7. CASE ManualReset \/ \E j \in Jobs : EnqueueBulkAdd(j) \/ ForeignInsert(j)
  BY <1>7 DEF ManualReset, EnqueueBulkAdd, ForeignInsert, Insert
<1>8. CASE UNCHANGED vars
  BY <1>8 DEF vars
<1> QED BY <1>1, <1>2, <1>3, <1>4, <1>5, <1>6, <1>7, <1>8 DEF Next, Step

-----------------------------------------------------------------------------
(* OncePerRun.                                                             *)

\* At first nothing was selected, tried or owed.
LEMMA OwedInit == Init => OwedInv
<1> SUFFICES ASSUME Init, NEW j \in Jobs, NEW i \in 1..Records
             PROVE  /\ IsFiniteSet(Owing(j, i))
                    /\ tried[j][i] + Cardinality(Owing(j, i)) <= starts[j]
  BY DEF OwedInv
<1>1. Owing(j, i) = {}
  BY DEF Init, Owing, IdleWorker, Busy
<1> QED BY <1>1, FS_EmptySet DEF Init

\* A run owes a record until it has come to it.
LEMMA OwedStep == Sound /\ OwedInv /\ [Next]_vars => OwedInv'
<1> SUFFICES ASSUME Sound, OwedInv, [Next]_vars, NEW j \in Jobs, NEW i \in 1..Records
             PROVE  /\ IsFiniteSet(Owing(j, i)')
                    /\ tried'[j][i] + Cardinality(Owing(j, i)') <= starts'[j]
  BY DEF OwedInv
<1> DEFINE O == Owing(j, i)
           P == Owing(j, i)'
<1>1. /\ IsFiniteSet(O) /\ Cardinality(O) \in Nat
      /\ tried[j][i] + Cardinality(O) <= starts[j]
      /\ tried[j][i] \in Nat /\ starts[j] \in Nat
  BY FS_CardinalityType DEF OwedInv, Sound, TypeOK
<1>2. ASSUME P \subseteq O, tried'[j][i] = tried[j][i], starts'[j] >= starts[j], starts'[j] \in Nat
      PROVE  IsFiniteSet(P) /\ tried'[j][i] + Cardinality(P) <= starts'[j]
  <2>1. IsFiniteSet(P) /\ Cardinality(P) <= Cardinality(O) /\ Cardinality(P) \in Nat
    BY <1>1, <1>2, FS_Subset, FS_CardinalityType
  <2> QED BY <1>1, <1>2, <2>1
<1>3. CASE UNCHANGED <<worker, tried, starts>>
  BY <1>1, <1>2, <1>3 DEF Owing, Busy
<1>4. ASSUME NEW w \in Workers, NEW k \in Worker, Stays(w, k)
      PROVE  IsFiniteSet(P) /\ tried'[j][i] + Cardinality(P) <= starts'[j]
  <2>1. P \subseteq O
    BY <1>4 DEF Stays, Owing, Busy, Sound, TypeOK
  <2> QED BY <1>1, <1>2, <1>4, <2>1 DEF Stays
<1>5. ASSUME NEW w \in Workers, NEW n \in Jobs, Takes(w, n)
      PROVE  IsFiniteSet(P) /\ tried'[j][i] + Cardinality(P) <= starts'[j]
  <2>1. worker'[w] = Selected(n) /\ \A v \in Workers \ {w} : worker'[v] = worker[v]
    BY <1>5 DEF Takes, Sound, TypeOK
  <2>2. Selected(n).job = n
    BY DEF Selected, IdleWorker
  <2>3. tried'[j][i] = tried[j][i]
    BY <1>5 DEF Takes
  <2>4. CASE n # j
    <3>1. P \subseteq O
      BY <2>1, <2>2, <2>4 DEF Owing, Busy
    <3>2. starts'[j] = starts[j]
      BY <1>5, <2>4 DEF Takes, Sound, TypeOK
    <3> QED BY <1>1, <1>2, <2>3, <3>1, <3>2
  <2>5. CASE n = j
    <3>1. P \subseteq O \cup {w}
      BY <2>1 DEF Owing, Busy
    <3>2. IsFiniteSet(O \cup {w}) /\ Cardinality(O \cup {w}) <= Cardinality(O) + 1
          /\ Cardinality(O \cup {w}) \in Nat
      <4>1. /\ IsFiniteSet(O \cup {w})
            /\ \/ Cardinality(O \cup {w}) = Cardinality(O)
               \/ Cardinality(O \cup {w}) = Cardinality(O) + 1
        BY <1>1, FS_AddElement
      <4> QED BY <1>1, <4>1
    <3>3. IsFiniteSet(P) /\ Cardinality(P) <= Cardinality(O) + 1 /\ Cardinality(P) \in Nat
      BY <1>1, <3>1, <3>2, FS_Subset, FS_CardinalityType
    <3>4. starts'[j] = starts[j] + 1
      BY <1>5, <2>5 DEF Takes, Sound, TypeOK
    <3> QED BY <1>1, <2>3, <3>3, <3>4
  <2> QED BY <2>4, <2>5
<1>6. ASSUME NEW w \in Workers, NEW k \in Worker, Tries(w, k)
      PROVE  IsFiniteSet(P) /\ tried'[j][i] + Cardinality(P) <= starts'[j]
  <2>1. worker'[w] = k /\ \A v \in Workers \ {w} : worker'[v] = worker[v]
    BY <1>6 DEF Tries, Sound, TypeOK
  <2>2. worker[w] \in Worker /\ worker[w].done \in Nat
    BY WorkerParameters DEF Sound, TypeOK, Worker
  <2>3. P \subseteq O
    BY <1>6, <2>1, <2>2 DEF Tries, Owing, Busy
  <2>4. starts'[j] = starts[j]
    BY <1>6 DEF Tries
  <2>5. CASE <<j, i>> # <<worker[w].job, worker[w].done + 1>>
    <3>1. tried'[j][i] = tried[j][i]
      BY <1>6, <2>5, TriedAgain DEF Tries
    <3> QED BY <1>1, <1>2, <2>3, <2>4, <3>1
  <2>6. CASE <<j, i>> = <<worker[w].job, worker[w].done + 1>>
    <3>1. tried'[j][i] = tried[j][i] + 1
      BY <1>6, <2>6, TriedAgain DEF Tries
    <3>2. w \in O /\ w \notin P
      BY <1>6, <2>1, <2>2, <2>6 DEF Tries, Owing, Busy
    <3>3. IsFiniteSet(O \ {w}) /\ Cardinality(O \ {w}) = Cardinality(O) - 1
      BY <1>1, <3>2, FS_RemoveElement
    <3>4. IsFiniteSet(P) /\ Cardinality(P) <= Cardinality(O) - 1 /\ Cardinality(P) \in Nat
      <4>1. P \subseteq O \ {w}
        BY <2>3, <3>2
      <4>2. IsFiniteSet(P) /\ Cardinality(P) <= Cardinality(O \ {w})
        BY <3>3, <4>1, FS_Subset
      <4> QED BY <3>3, <4>2, FS_CardinalityType
    <3> QED BY <1>1, <2>4, <3>1, <3>4
  <2> QED BY <2>5, <2>6
<1> QED BY <1>3, <1>4, <1>5, <1>6, StepKinds

-----------------------------------------------------------------------------
(* No record of a completed job was left out.                              *)

\* Whatever a step makes of a job, only Finish writes an errors object or
\* "completed".
LEMMA OnlyFinishCompletes ==
    ASSUME Sound, [Next]_vars, NEW j \in Jobs,
           job'[j].summary = "errors" \/ job'[j].status = "completed"
    PROVE  \/ job[j].summary = "errors" \/ job[j].status = "completed"
           \/ \E w \in Workers : Finish(w) /\ worker[w].job = j
<1> DEFINE Done(r) == r.summary = "errors" \/ r.status = "completed"
<1> SUFFICES ASSUME ~ Done(job[j]) PROVE \E w \in Workers : Finish(w) /\ worker[w].job = j
  OBVIOUS
<1>1. job[j] \in Job
  BY DEF Sound, TypeOK
<1>2. ASSUME NEW w \in Workers, NEW r \in Job, worker[w].job \in Jobs,
             UpdateJob(worker[w].job, r), Done(r) => Done(job[worker[w].job])
      PROVE  FALSE
  BY <1>2, Updated
<1>3. ASSUME NEW n \in Jobs, EnqueueBulkAdd(n) \/ ForeignInsert(n) PROVE FALSE
  BY <1>3, InsertShape
<1>4. ASSUME ManualReset \/ (\E w \in Workers : RetryFailed(w)) PROVE FALSE
  BY <1>4, RequeueShape
<1>5. ASSUME NEW w \in Workers, MarkProcessing(w) PROVE FALSE
  <2> DEFINE r == [job[worker[w].job] EXCEPT !.status = "processing"]
  <2>1. worker[w].job \in Jobs /\ r \in Job /\ UpdateJob(worker[w].job, r)
    BY <1>5, MarkShape DEF MarkProcessing
  <2>2. r.summary = job[worker[w].job].summary /\ r.status = "processing"
    BY <2>1 DEF Sound, TypeOK, Job
  <2> HIDE DEF r
  <2> QED BY <1>2, <2>1, <2>2
<1>6. ASSUME NEW w \in Workers, Reject(w) PROVE FALSE
  <2> DEFINE r == [job[worker[w].job] EXCEPT !.status = "failed", !.summary = "message"]
  <2>1. worker[w].job \in Jobs /\ r \in Job /\ UpdateJob(worker[w].job, r)
    BY <1>6, RejectShape DEF Reject
  <2>2. r.summary = "message" /\ r.status = "failed"
    BY <2>1 DEF Sound, TypeOK, Job
  <2> HIDE DEF r
  <2> QED BY <1>2, <2>1, <2>2
<1>7. ASSUME NEW w \in Workers, Progress(w) PROVE FALSE
  <2> DEFINE r == Counted(job[worker[w].job], w)
  <2>1. worker[w].job \in Jobs /\ UpdateJob(worker[w].job, r)
    BY <1>7, ProgressShape
  <2>2. job[worker[w].job] \in Job /\ r \in Job
    BY <2>1, CountedIsJob DEF Sound, TypeOK
  <2>3. r.summary = job[worker[w].job].summary /\ r.status = job[worker[w].job].status
    BY <2>2 DEF Counted, Job
  <2> HIDE DEF r
  <2> QED BY <1>2, <2>1, <2>2, <2>3
<1>8. ASSUME NEW w \in Workers, Finish(w), worker[w].job # j PROVE FALSE
  <2> DEFINE r == [Counted(job[worker[w].job], w) EXCEPT !.status = "completed",
                                                         !.summary = "errors"]
  <2>1. worker[w].job \in Jobs /\ r \in Job /\ UpdateJob(worker[w].job, r)
    BY <1>8, FinishShape DEF Finish
  <2> HIDE DEF r
  <2> QED BY <1>8, <2>1, Updated
<1>9. ASSUME UNCHANGED job PROVE FALSE
  BY <1>9
<1>10. ASSUME NEW w \in Workers,
              AddRecord(w) \/ Crash(w) \/ Restart(w) \/ \E n \in Jobs : SelectPending(w, n)
       PROVE  FALSE
  BY <1>9, <1>10 DEF AddRecord, Crash, Restart, SelectPending
<1> QED BY <1>3, <1>4, <1>5, <1>6, <1>7, <1>8, <1>9, <1>10 DEF Next, Step, vars

\* At first no job is completed and no worker is in a file.
LEMMA TriedInit == Init => TriedInv
BY DEF Init, TriedInv, IdleWorker, AbsentJob, Busy

\* A worker only moves past a record that it has tried.
LEMMA TriedStep == Sound /\ TriedInv /\ [Next]_vars => TriedInv'
<1> SUFFICES ASSUME Sound, TriedInv, [Next]_vars PROVE TriedInv'
  OBVIOUS
<1> DEFINE Reached(t, k) ==
             Busy(k) => /\ \A i \in 1..k.done : t[k.job][i] > 0
                        /\ k.read = "errors" => \A i \in 1..Records : t[k.job][i] > 0
\* What was tried stays tried.
<1>1. ASSUME NEW m \in Jobs, NEW n \in 1..Records, tried[m][n] > 0
      PROVE  tried'[m][n] > 0
  <2>1. CASE UNCHANGED tried
    BY <1>1, <2>1
  <2>2. ASSUME NEW w \in Workers, NEW k \in Worker, Tries(w, k)
        PROVE  tried'[m][n] > 0
    <3> DEFINE j == worker[w].job
               i == worker[w].done + 1
    <3>1. j \in Jobs /\ i \in 1..Records /\ tried' = [tried EXCEPT ![j][i] = @ + 1]
      BY <2>2 DEF Tries
    <3> HIDE DEF j, i
    <3>2. /\ tried'[j][i] = tried[j][i] + 1
          /\ <<m, n>> # <<j, i>> => tried'[m][n] = tried[m][n]
      BY <3>1, TriedAgain
    <3>3. tried[m][n] \in Nat
      BY DEF Sound, TypeOK
    <3>4. CASE <<m, n>> = <<j, i>>
      BY <1>1, <3>2, <3>3, <3>4
    <3> QED BY <1>1, <3>2, <3>4
  <2> QED BY <2>1, <2>2, StepKinds DEF Stays, Takes
<1>2. ASSUME NEW k \in Worker, SoundWorker(k), Reached(tried, k) PROVE Reached(tried', k)
  <2>1. SUFFICES ASSUME Busy(k) PROVE Reached(tried', k)
    OBVIOUS
  <2>2. k.job \in Jobs /\ 1..k.done \subseteq 1..Records
    BY <2>1, <1>2, WorkerParameters DEF SoundWorker, Worker
  <2> QED BY <1>1, <1>2, <2>2
<1>3. \A v \in Workers : worker[v] \in Worker /\ SoundWorker(worker[v]) /\ Reached(tried, worker[v])
  BY DEF Sound, TypeOK, TriedInv, AllTried
<1>4. ASSUME NEW v \in Workers PROVE Reached(tried', worker'[v])
  <2>1. ASSUME worker'[v] = worker[v] PROVE Reached(tried', worker'[v])
    BY <1>2, <1>3, <2>1
  <2>2. ASSUME NEW w \in Workers, NEW k \in Worker, Stays(w, k)
        PROVE  Reached(tried', worker'[v])
    <3>1. CASE v # w
      BY <2>1, <2>2, <3>1 DEF Stays, Sound, TypeOK
    <3>2. CASE v = w
      <4>1. worker'[v] = k /\ UNCHANGED tried
        BY <2>2, <3>2 DEF Stays, Sound, TypeOK
      <4>2. Reached(tried, k)
        BY <1>3, <2>2 DEF Stays
      <4> QED BY <4>1, <4>2
    <3> QED BY <3>1, <3>2
  <2>3. ASSUME NEW w \in Workers, NEW j \in Jobs, Takes(w, j)
        PROVE  Reached(tried', worker'[v])
    <3>1. CASE v # w
      BY <2>1, <2>3, <3>1 DEF Takes, Sound, TypeOK
    <3>2. CASE v = w
      <4>1. worker'[v] = Selected(j) /\ UNCHANGED tried
        BY <2>3, <3>2 DEF Takes, Sound, TypeOK
      <4>2. Selected(j).job = j /\ Selected(j).done = 0 /\ Selected(j).read = job[j].summary
        BY DEF Selected, IdleWorker
      <4>3. job[j].summary = "errors" => \A i \in 1..Records : tried[j][i] > 0
        BY DEF TriedInv, AllTried
      <4> QED BY <4>1, <4>2, <4>3
    <3> QED BY <3>1, <3>2
  <2>4. ASSUME NEW w \in Workers, NEW k \in Worker, Tries(w, k)
        PROVE  Reached(tried', worker'[v])
    <3>1. CASE v # w
      BY <2>1, <2>4, <3>1 DEF Tries, Sound, TypeOK
    <3>2. CASE v = w
      <4>1. worker'[v] = k /\ Busy(worker[w])
        BY <2>4, <3>2 DEF Tries, Sound, TypeOK
      <4>2. /\ k.job = worker[w].job /\ k.read = worker[w].read
            /\ k.done = worker[w].done + 1 /\ k.done \in 1..Records /\ k.job \in Jobs
        BY <2>4 DEF Tries
      <4>3. tried'[k.job][k.done] > 0
        <5>1. tried'[k.job][k.done] = tried[k.job][k.done] + 1
          BY <2>4, <4>2, TriedAgain DEF Tries
        <5>2. tried[k.job][k.done] \in Nat
          BY <4>2 DEF Sound, TypeOK
        <5> QED BY <5>1, <5>2
      <4>4. Reached(tried', worker[w])
        BY <1>2, <1>3
      <4>5. worker[w].done \in Nat
        BY <1>3, WorkerParameters DEF Worker
      <4>6. ASSUME NEW i \in 1..k.done PROVE tried'[k.job][i] > 0
        <5>1. i \in 1..worker[w].done \/ i = k.done
          BY <4>2, <4>5
        <5> QED BY <4>1, <4>2, <4>3, <4>4, <5>1
      <4> QED BY <4>1, <4>2, <4>4, <4>6
    <3> QED BY <3>1, <3>2
  <2> QED BY <2>1, <2>2, <2>3, <2>4, StepKinds
<1>5. ASSUME NEW j \in Jobs, job'[j].summary = "errors" \/ job'[j].status = "completed"
      PROVE  AllTried(j)'
  <2>1. AllTried(j)
    <3>1. CASE job[j].summary = "errors" \/ job[j].status = "completed"
      BY <3>1 DEF TriedInv
    <3>2. ASSUME NEW w \in Workers, Finish(w), worker[w].job = j PROVE AllTried(j)
      BY <3>2, FinishShape DEF TriedInv, AllTried
    <3> QED BY <1>5, <3>1, <3>2, OnlyFinishCompletes
  <2> QED BY <1>1, <2>1 DEF AllTried
<1> QED BY <1>4, <1>5 DEF TriedInv, AllTried, Busy

-----------------------------------------------------------------------------
(* One worker.                                                             *)

\* docker-compose.yml runs one worker-service.
OneWorker == \A v, w \in Workers : v = w

Whole(r) == r.processed = Records /\ r.success + r.errors = Records

\* The job that is run is not completed, the errors object is only found in
\* completed jobs, and so is never taken for a payload.
SoleInv ==
    /\ \A w \in Workers : Busy(worker[w]) =>
          /\ job[worker[w].job].status \in {"pending", "processing"}
          /\ worker[w].read # "errors"
    /\ \A j \in Jobs :
          /\ job[j].summary = "errors" => job[j].status = "completed"
          /\ job[j].status = "completed" => Whole(job[j])

\* What a step of the one worker does to its job and to itself.
LEMMA SoleMoves ==
    ASSUME Sound, SoleInv, OneWorker, NEW w \in Workers, NEW k \in Worker, NEW r \in Job,
           Busy(worker[w]), worker[w].job \in Jobs,
           UpdateJob(worker[w].job, r), worker' = [worker EXCEPT ![w] = k],
           r.summary = "errors" => r.status = "completed",
           r.status = "completed" => Whole(r),
           Busy(k) => /\ k.job = worker[w].job /\ k.read # "errors"
                      /\ r.status \in {"pending", "processing"}
    PROVE  /\ SoleInv'
           /\ \A j \in Jobs : job[j].status = "completed" => job'[j] = job[j]
<1>1. /\ job'[worker[w].job] \in {job[worker[w].job], r}
      /\ \A i \in Jobs \ {worker[w].job} : job'[i] = job[i]
  BY Updated
<1>2. worker'[w] = k /\ \A v \in Workers : v = w
  BY DEF OneWorker, Sound, TypeOK
<1>3. job[worker[w].job].status \in {"pending", "processing"}
  BY DEF SoleInv
<1>4. \A v \in Workers : Busy(worker'[v]) =>
          /\ job'[worker'[v].job].status \in {"pending", "processing"}
          /\ worker'[v].read # "errors"
  BY <1>1, <1>2, <1>3
<1>5. \A j \in Jobs :
          /\ job'[j].summary = "errors" => job'[j].status = "completed"
          /\ job'[j].status = "completed" => Whole(job'[j])
  BY <1>1 DEF SoleInv
<1>6. SoleInv'
  BY <1>4, <1>5 DEF SoleInv, Busy, Whole
<1> QED BY <1>1, <1>3, <1>6

\* Nobody runs a job while the environment touches one, or the run goes on.
LEMMA SoleRequeue ==
    ASSUME Sound, SoleInv,
           \A i \in Jobs : \/ job'[i] = job[i]
                           \/ /\ job[i].status \in {"absent", "processing", "failed"}
                              /\ job'[i].status = "pending"
                              /\ \/ job'[i].summary = job[i].summary
                                 \/ job'[i].summary # "errors",
           UNCHANGED worker
    PROVE  /\ SoleInv'
           /\ \A j \in Jobs : job[j].status = "completed" => job'[j] = job[j]
<1>1. ASSUME NEW w \in Workers, Busy(worker[w])
      PROVE  /\ job'[worker[w].job].status \in {"pending", "processing"}
             /\ worker[w].read # "errors"
  <2>1. worker[w].job \in Jobs
    BY <1>1 DEF Sound, SoundWorker
  <2> QED BY <1>1, <2>1 DEF SoleInv
<1>2. ASSUME NEW j \in Jobs
      PROVE  /\ job'[j].summary = "errors" => job'[j].status = "completed"
             /\ job'[j].status = "completed" => Whole(job'[j])
  BY DEF SoleInv
<1>3. SoleInv'
  BY <1>1, <1>2 DEF SoleInv, Busy, Whole
<1> QED BY <1>3

\* At first nothing runs and no errors object is stored.
LEMMA SoleInit == Init => SoleInv
BY DEF Init, SoleInv, IdleWorker, AbsentJob, Busy

\* With one worker, what it reads at the selection is not changed under it.
LEMMA SoleStep ==
    ASSUME Sound, SoleInv, OneWorker, [Next]_vars
    PROVE  /\ SoleInv'
           /\ \A j \in Jobs : job[j].status = "completed" => job'[j] = job[j]
<1> DEFINE Goal == /\ SoleInv'
                   /\ \A j \in Jobs : job[j].status = "completed" => job'[j] = job[j]
<1>1. ASSUME NEW j \in Jobs, EnqueueBulkAdd(j) \/ ForeignInsert(j) PROVE Goal
  <2>1. \A i \in Jobs : \/ job'[i] = job[i]
                       \/ /\ job[i].status = "absent"
                          /\ job'[i].status = "pending"
                          /\ job'[i].summary # "errors"
    BY <1>1, InsertShape
  <2>2. UNCHANGED worker
    BY <1>1, InsertShape
  <2> QED BY <2>1, <2>2, SoleRequeue
<1>2. ASSUME ManualReset \/ (\E w \in Workers : RetryFailed(w)) PROVE Goal
  BY <1>2, RequeueShape, SoleRequeue
<1>3. ASSUME NEW w \in Workers, NEW j \in Jobs, SelectPending(w, j) PROVE Goal
  <2>1. /\ worker'[w] = Selected(j) /\ UNCHANGED job /\ job[j].status = "pending"
        /\ \A v \in Workers : v = w
    BY <1>3, SelectShape DEF SelectPending, OneWorker, Sound, TypeOK
  <2>2. Selected(j).job = j /\ Selected(j).read = job[j].summary
    BY DEF Selected, IdleWorker
  <2>3. SoleInv'
    BY <2>1, <2>2 DEF SoleInv, Busy, Whole
  <2> QED BY <2>1, <2>3
<1>4. ASSUME NEW w \in Workers, MarkProcessing(w) PROVE Goal
  <2> DEFINE r == [job[worker[w].job] EXCEPT !.status = "processing"]
  <2>1. Busy(worker[w]) /\ worker[w].job \in Jobs /\ r \in Job /\ UpdateJob(worker[w].job, r)
    BY <1>4, MarkShape DEF MarkProcessing
  <2>2. r.status = "processing" /\ r.summary = job[worker[w].job].summary
    BY <2>1 DEF Sound, TypeOK, Job
  <2>3. PICK s \in {"add", "finish", "reject"} :
           /\ [worker[w] EXCEPT !.pc = s] \in Worker
           /\ worker' = [worker EXCEPT ![w] = [worker[w] EXCEPT !.pc = s]]
    BY <1>4, MarkShape
  <2> DEFINE k == [worker[w] EXCEPT !.pc = s]
  <2>4. k.job = worker[w].job /\ k.read = worker[w].read
    BY DEF Sound, TypeOK, Worker
  <2>5. r.summary # "errors" /\ worker[w].read # "errors"
    BY <2>1, <2>2 DEF SoleInv
  <2> HIDE DEF r, k
  <2> QED BY <2>1, <2>2, <2>3, <2>4, <2>5, SoleMoves DEF k
<1>5. ASSUME NEW w \in Workers, Reject(w) PROVE Goal
  <2> DEFINE r == [job[worker[w].job] EXCEPT !.status = "failed", !.summary = "message"]
  <2>1. /\ Busy(worker[w]) /\ worker[w].job \in Jobs /\ r \in Job
        /\ UpdateJob(worker[w].job, r) /\ worker' = [worker EXCEPT ![w] = IdleWorker]
    BY <1>5, RejectShape DEF Reject
  <2>2. r.status = "failed" /\ r.summary = "message"
    BY <2>1 DEF Sound, TypeOK, Job
  <2>3. IdleWorker \in Worker /\ ~ Busy(IdleWorker)
    BY IdleIsSound DEF IdleWorker, Busy
  <2> HIDE DEF r
  <2> QED BY <2>1, <2>2, <2>3, SoleMoves
<1>6. ASSUME NEW w \in Workers, AddRecord(w) PROVE Goal
  <2>1. PICK k \in Worker : Tries(w, k)
    BY <1>6, AddShape DEF Tries, AddRecord
  <2>2. /\ worker'[w] = k /\ k.job = worker[w].job /\ k.read = worker[w].read
        /\ Busy(worker[w]) /\ UNCHANGED job /\ \A v \in Workers : v = w
    BY <2>1 DEF Tries, OneWorker, Sound, TypeOK
  <2>3. SoleInv'
    BY <2>2 DEF SoleInv, Busy, Whole
  <2> QED BY <2>2, <2>3
<1>7. ASSUME NEW w \in Workers, Progress(w) PROVE Goal
  <2> DEFINE r == Counted(job[worker[w].job], w)
  <2>1. Busy(worker[w]) /\ worker[w].job \in Jobs /\ UpdateJob(worker[w].job, r)
    BY <1>7, ProgressShape
  <2>2. job[worker[w].job] \in Job /\ r \in Job
    BY <2>1, CountedIsJob DEF Sound, TypeOK
  <2>3. r.summary = job[worker[w].job].summary /\ r.status = job[worker[w].job].status
    BY <2>2 DEF Counted, Job
  <2>4. PICK s \in {"add", "finish"} :
           /\ [worker[w] EXCEPT !.pc = s] \in Worker
           /\ worker' = [worker EXCEPT ![w] = [worker[w] EXCEPT !.pc = s]]
    BY <1>7, ProgressShape
  <2> DEFINE k == [worker[w] EXCEPT !.pc = s]
  <2>5. k.job = worker[w].job /\ k.read = worker[w].read
    BY DEF Sound, TypeOK, Worker
  <2>6. /\ r.status \in {"pending", "processing"}
        /\ r.summary # "errors" /\ worker[w].read # "errors"
    BY <2>1, <2>3 DEF SoleInv
  <2> HIDE DEF r, k
  <2> QED BY <2>1, <2>2, <2>4, <2>5, <2>6, SoleMoves DEF k
<1>8. ASSUME NEW w \in Workers, Finish(w) PROVE Goal
  <2> DEFINE q == Counted(job[worker[w].job], w)
             r == [q EXCEPT !.status = "completed", !.summary = "errors"]
  <2>1. /\ Busy(worker[w]) /\ worker[w].job \in Jobs /\ r \in Job
        /\ worker[w].read = "errors" \/ worker[w].done = Records
        /\ UpdateJob(worker[w].job, r) /\ worker' = [worker EXCEPT ![w] = IdleWorker]
    BY <1>8, FinishShape DEF Finish
  <2>2. job[worker[w].job] \in Job /\ q \in Job
    BY <2>1, CountedIsJob DEF Sound, TypeOK
  <2>3. /\ q.processed = worker[w].done
        /\ q.success = worker[w].success /\ q.errors = worker[w].errors
    BY <2>2 DEF Counted, Job
  <2>4. worker[w].success + worker[w].errors = worker[w].done
    BY DEF Sound, SoundWorker
  <2>5. worker[w].done = Records
    BY <2>1 DEF SoleInv
  <2> HIDE DEF q
  <2>6. r.status = "completed" /\ Whole(r)
    BY <2>2, <2>3, <2>4, <2>5 DEF Whole, Job
  <2>7. IdleWorker \in Worker /\ ~ Busy(IdleWorker)
    BY IdleIsSound DEF IdleWorker, Busy
  <2> HIDE DEF r
  <2> QED BY <2>1, <2>6, <2>7, SoleMoves
<1>9. ASSUME NEW w \in Workers, Crash(w) \/ Restart(w) PROVE Goal
  <2>1. UNCHANGED job /\ ~ Busy(worker'[w]) /\ \A v \in Workers : v = w
    BY <1>9, CrashShape DEF OneWorker, Sound, TypeOK
  <2>2. SoleInv'
    BY <2>1 DEF SoleInv, Busy, Whole
  <2> QED BY <2>1, <2>2
<1>10. CASE UNCHANGED vars
  BY <1>10 DEF vars, SoleInv, Busy, Whole
<1> QED BY <1>1, <1>2, <1>3, <1>4, <1>5, <1>6, <1>7, <1>8, <1>9, <1>10 DEF Next, Step

-----------------------------------------------------------------------------
(* Theorems.                                                               *)

\* The invariants of any number of workers hold throughout.
LEMMA Invariance == Spec => [](Sound /\ OwedInv /\ TriedInv)
<1>1. Init => Sound /\ OwedInv /\ TriedInv
  BY SoundInit, OwedInit, TriedInit
<1>2. Sound /\ OwedInv /\ TriedInv /\ [Next]_vars => (Sound /\ OwedInv /\ TriedInv)'
  BY SoundStep, OwedStep, TriedStep
<1> QED BY <1>1, <1>2, PTL DEF Spec

\* Every job, worker and history has its type, for any number of workers.
THEOREM TypeCorrect == Spec => []TypeOK
<1>1. Sound => TypeOK
  BY DEF Sound
<1> QED BY <1>1, Invariance, PTL

\* processPending: a record is given to AddNumber at most once for each time its job
\* was selected, also when several workers run the job side by side.
THEOREM RecordsOncePerRun == Spec => []OncePerRun
<1>1. Sound /\ OwedInv => OncePerRun
  <2> SUFFICES ASSUME Sound, OwedInv, NEW j \in Jobs, NEW i \in 1..Records
               PROVE  tried[j][i] <= starts[j]
    BY DEF OncePerRun
  <2>1. /\ Cardinality(Owing(j, i)) \in Nat
        /\ tried[j][i] + Cardinality(Owing(j, i)) <= starts[j]
        /\ tried[j][i] \in Nat /\ starts[j] \in Nat
    BY FS_CardinalityType DEF OwedInv, Sound, TypeOK
  <2> QED BY <2>1
<1> QED BY <1>1, Invariance, PTL

\* processPending: no job is completed before each of its records was given to
\* AddNumber, also when several workers run it and one finds the other's result.
THEOREM NothingIsSkipped ==
    Spec => [](\A j \in Jobs : job[j].status = "completed" => AllTried(j))
<1>1. TriedInv => \A j \in Jobs : job[j].status = "completed" => AllTried(j)
  BY DEF TriedInv
<1> QED BY <1>1, Invariance, PTL

\* With one worker also what it found and left in the table holds throughout.
LEMMA SoleInvariance == ASSUME OneWorker PROVE Spec => []SoleInv
<1>1. Sound /\ SoleInv /\ [Next]_vars => SoleInv'
  BY SoleStep
<1> QED BY <1>1, SoleInit, Invariance, PTL DEF Spec

\* processPending, with one worker: a completed job was processed to its end and its
\* counters are those of the whole file, whatever crashes, resets and lost updates.
THEOREM CompletedJobsAreWhole == ASSUME OneWorker PROVE Spec => []CompletedIsWhole
<1>1. SoleInv /\ TriedInv => CompletedIsWhole
  BY DEF SoleInv, TriedInv, CompletedIsWhole, Whole, AllTried
<1> QED BY <1>1, Invariance, SoleInvariance, PTL

\* retryFailed, the runbook's reset and processPending, with one worker: nothing
\* touches a completed job.
THEOREM CompletedJobsStay == ASSUME OneWorker PROVE Spec => CompletedIsFinal
<1>1. Sound /\ SoleInv /\ [Next]_vars
         => [\A j \in Jobs : job[j].status = "completed" => job'[j] = job[j]]_vars
  BY SoleStep
<1> QED BY <1>1, Invariance, SoleInvariance, PTL DEF Spec, CompletedIsFinal
=============================================================================
