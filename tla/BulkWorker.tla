----------------------------- MODULE BulkWorker -----------------------------
(***************************************************************************)
(* The bulk upload jobs of internal/jobs.  The portal inserts a pending    *)
(* job; each worker process polls the table and runs one job at a time in  *)
(* one goroutine, adding its records one by one through AddNumber.  The    *)
(* payload of a job and, later, its result share the column                *)
(* result_summary.  No statement tests the status it changes, and the      *)
(* errors of the worker's UPDATEs are ignored.  This is the SQLite         *)
(* deployment: the ? placeholders of these statements are not PostgreSQL's.*)
(*                                                                         *)
(* Two history variables: "tried" counts how often each record was given   *)
(* to AddNumber, "starts" how often a job was selected.                    *)
(***************************************************************************)
EXTENDS Naturals, FiniteSets

CONSTANTS Jobs,           \* rows of bulk_jobs
          CreatedAt,      \* created_at of each row, in seconds
          Workers,        \* worker-service processes
          Records,        \* records of an uploaded job
          ProgressEvery,  \* records between two progress updates (100)
          MaxRetries,     \* maxRetries of worker.go (3)
          NoJob,
          ForeignJobs,    \* jobs of another client, which have no payload
          MayLose,        \* an UPDATE of the worker may fail
          Operator,       \* the runbook's manual reset may be run
          MaxCrashes,     \* bound of the crashes in an instance
          MaxStarts       \* bound of the selections of one job in an instance

ASSUME WorkerParameters ==
    /\ CreatedAt \in [Jobs -> Nat]
    /\ Records \in Nat \ {0} /\ ProgressEvery \in Nat \ {0}
    /\ MaxRetries \in Nat /\ MaxCrashes \in Nat /\ MaxStarts \in Nat
    /\ NoJob \notin Jobs
    /\ ForeignJobs \in BOOLEAN /\ MayLose \in BOOLEAN /\ Operator \in BOOLEAN

VARIABLES job, worker, crashes, tried, starts

vars == <<job, worker, crashes, tried, starts>>

JobStatus == {"absent", "pending", "processing", "completed", "failed"}

\* What result_summary holds: the records, {"errors": ...}, a message, or NULL.
Summary == {"records", "errors", "message", "null"}

Job == [status : JobStatus, summary : Summary, processed : 0..Records,
        success : 0..Records, errors : 0..Records]

\* Where a worker stands: "mark" after the SELECT, "reject" before a failed
\* status, "add" between records, "progress" before a progress update, "finish".
WorkerPC == {"idle", "mark", "reject", "add", "progress", "finish", "down"}

Worker == [pc : WorkerPC, job : Jobs \cup {NoJob}, read : Summary,
           done : 0..Records, success : 0..Records, errors : 0..Records]

TypeOK ==
    /\ job \in [Jobs -> Job]
    /\ worker \in [Workers -> Worker]
    /\ crashes \in 0..MaxCrashes
    /\ tried \in [Jobs -> [1..Records -> Nat]]
    /\ starts \in [Jobs -> Nat]

AbsentJob == [status |-> "absent", summary |-> "null",
              processed |-> 0, success |-> 0, errors |-> 0]

IdleWorker == [pc |-> "idle", job |-> NoJob, read |-> "null",
               done |-> 0, success |-> 0, errors |-> 0]

Init ==
    /\ job = [j \in Jobs |-> AbsentJob]
    /\ worker = [w \in Workers |-> IdleWorker]
    /\ crashes = 0
    /\ tried = [j \in Jobs |-> [i \in 1..Records |-> 0]]
    /\ starts = [j \in Jobs |-> 0]

At(w, s) == worker[w].pc = s

Goto(w, s) == worker' = [worker EXCEPT ![w].pc = s]

\* An UPDATE whose error is ignored.
UpdateJob(j, r) ==
    \/ job' = [job EXCEPT ![j] = r]
    \/ MayLose /\ UNCHANGED job

-----------------------------------------------------------------------------
(* The portal, and other writers of the table.                             *)

Insert(j, s) ==
    /\ job[j].status = "absent"
    /\ \A k \in Jobs : CreatedAt[k] < CreatedAt[j] => job[k].status # "absent"
    /\ job' = [job EXCEPT ![j].status = "pending", ![j].summary = s]
    /\ UNCHANGED <<worker, crashes, tried, starts>>

EnqueueBulkAdd(j) == Insert(j, "records")

\* Not by this program: a row whose nullable result_summary is not set.
ForeignInsert(j) == ForeignJobs /\ Insert(j, "null")

\* README, runbook: SET status = 'pending' WHERE status = 'processing' and old.
ManualReset ==
    /\ Operator
    /\ \E J \in (SUBSET {j \in Jobs : job[j].status = "processing"}) \ {{}} :
          job' = [j \in Jobs |-> IF j \in J THEN [job[j] EXCEPT !.status = "pending"]
                                            ELSE job[j]]
    /\ UNCHANGED <<worker, crashes, tried, starts>>

-----------------------------------------------------------------------------
(* processPending.                                                         *)

\* Mutant of Oldest: older than every other pending job, so not at a tie.
Oldest_NoTie(j) ==
    /\ job[j].status = "pending"
    /\ \A k \in Jobs \ {j} : job[k].status = "pending" => CreatedAt[j] < CreatedAt[k]

Oldest(j) ==
    /\ job[j].status = "pending"
    /\ \A k \in Jobs : job[k].status = "pending" => CreatedAt[j] <= CreatedAt[k]

\* SELECT ... WHERE status = 'pending' ORDER BY created_at LIMIT 1.
SelectPending(w, j) ==
    /\ At(w, "idle")
    /\ Oldest(j)
    /\ starts[j] < MaxStarts
    /\ worker' = [worker EXCEPT ![w] =
          [IdleWorker EXCEPT !.pc = "mark", !.job = j, !.read = job[j].summary]]
    /\ starts' = [starts EXCEPT ![j] = @ + 1]
    /\ UNCHANGED <<job, crashes, tried>>

\* The next statement for what Unmarshal finds in the payload: an errors object
\* has no records, a message is not JSON.
AfterMark(s) ==
    CASE s = "records" -> "add"
      [] s = "errors" -> "finish"
      [] OTHER -> "reject"

MarkProcessing(w) ==
    /\ At(w, "mark")
    /\ LET j == worker[w].job IN UpdateJob(j, [job[j] EXCEPT !.status = "processing"])
    /\ Goto(w, AfterMark(worker[w].read))
    /\ UNCHANGED <<crashes, tried, starts>>

\* No payload, or not JSON.
Reject(w) ==
    /\ At(w, "reject")
    /\ LET j == worker[w].job IN
         UpdateJob(j, [job[j] EXCEPT !.status = "failed", !.summary = "message"])
    /\ worker' = [worker EXCEPT ![w] = IdleWorker]
    /\ UNCHANGED <<crashes, tried, starts>>

Due(i) == i % ProgressEvery = 0 \/ i = Records

\* Mutant of AddRecord: a record that failed is given to AddNumber again.
AddRecord_Again(w) ==
    /\ At(w, "add")
    /\ LET i == worker[w].done + 1
           j == worker[w].job
       IN /\ tried' = [tried EXCEPT ![j][i] = IF @ < 2 * MaxStarts THEN @ + 1 ELSE @]
          /\ \E ok \in BOOLEAN :
               worker' = [worker EXCEPT ![w] =
                   IF ok THEN [@ EXCEPT !.done = i, !.success = @ + 1,
                                        !.pc = IF Due(i) THEN "progress" ELSE "add"]
                   ELSE @]
    /\ UNCHANGED <<job, crashes, starts>>

\* AddNumber of one record, which succeeds or fails; other modules say how.
AddRecord(w) ==
    /\ At(w, "add")
    /\ LET i == worker[w].done + 1
           j == worker[w].job
       IN /\ tried' = [tried EXCEPT ![j][i] = @ + 1]
          /\ \E ok \in BOOLEAN :
               worker' = [worker EXCEPT ![w] =
                   [worker[w] EXCEPT !.done = i,
                                     !.success = IF ok THEN @ + 1 ELSE @,
                                     !.errors = IF ok THEN @ ELSE @ + 1,
                                     !.pc = IF Due(i) THEN "progress" ELSE "add"]]
    /\ UNCHANGED <<job, crashes, starts>>

\* Mutant of Counted: the counters of an earlier run are added to.
Counted_Accumulates(r, w) ==
    [r EXCEPT !.processed = @ + worker[w].done,
              !.success = @ + worker[w].success, !.errors = @ + worker[w].errors]

Counted(r, w) ==
    [r EXCEPT !.processed = worker[w].done,
              !.success = worker[w].success, !.errors = worker[w].errors]

\* Mutant of Progress: the first progress update ends the loop.
Progress_Ends(w) ==
    /\ At(w, "progress")
    /\ LET j == worker[w].job IN UpdateJob(j, Counted(job[j], w))
    /\ Goto(w, "finish")
    /\ UNCHANGED <<crashes, tried, starts>>

Progress(w) ==
    /\ At(w, "progress")
    /\ LET j == worker[w].job IN UpdateJob(j, Counted(job[j], w))
    /\ Goto(w, IF worker[w].done = Records THEN "finish" ELSE "add")
    /\ UNCHANGED <<crashes, tried, starts>>

Finish(w) ==
    /\ At(w, "finish")
    /\ LET j == worker[w].job IN
         UpdateJob(j, [Counted(job[j], w) EXCEPT !.status = "completed",
                                                  !.summary = "errors"])
    /\ worker' = [worker EXCEPT ![w] = IdleWorker]
    /\ UNCHANGED <<crashes, tried, starts>>

\* Mutant of RetryFailed: a job some records of which failed is queued again.
RetryFailed_AnyErrors(w) ==
    /\ At(w, "idle")
    /\ \E J \in (SUBSET {j \in Jobs : job[j].errors \in 1..MaxRetries}) \ {{}} :
          job' = [j \in Jobs |-> IF j \in J THEN [job[j] EXCEPT !.status = "pending"]
                                            ELSE job[j]]
    /\ UNCHANGED <<worker, crashes, tried, starts>>

\* The retry tick, in the same goroutine: failed jobs older than a minute with
\* error_count < maxRetries.  Which are that old is left open.
RetryFailed(w) ==
    /\ At(w, "idle")
    /\ \E J \in (SUBSET {j \in Jobs : /\ job[j].status = "failed"
                                      /\ job[j].errors < MaxRetries}) \ {{}} :
          job' = [j \in Jobs |-> IF j \in J THEN [job[j] EXCEPT !.status = "pending"]
                                            ELSE job[j]]
    /\ UNCHANGED <<worker, crashes, tried, starts>>

\* The process is killed, or told to stop: Stop does not wait for the loop, and
\* main returns.
Crash(w) ==
    /\ crashes < MaxCrashes
    /\ ~ At(w, "down")
    /\ worker' = [worker EXCEPT ![w] = [IdleWorker EXCEPT !.pc = "down"]]
    /\ crashes' = crashes + 1
    /\ UNCHANGED <<job, tried, starts>>

Restart(w) ==
    /\ At(w, "down")
    /\ worker' = [worker EXCEPT ![w] = IdleWorker]
    /\ UNCHANGED <<job, crashes, tried, starts>>

Step(w) ==
    \/ \E j \in Jobs : SelectPending(w, j)
    \/ MarkProcessing(w) \/ Reject(w) \/ AddRecord(w) \/ Progress(w) \/ Finish(w)

Next ==
    \/ \E j \in Jobs : EnqueueBulkAdd(j) \/ ForeignInsert(j)
    \/ ManualReset
    \/ \E w \in Workers : Step(w) \/ RetryFailed(w) \/ Crash(w) \/ Restart(w)

Spec == Init /\ [][Next]_vars

\* The tickers of every worker go on, and a stopped worker is started again.
Fairness ==
    \A w \in Workers :
        WF_vars(Step(w)) /\ WF_vars(RetryFailed(w)) /\ WF_vars(Restart(w))

LiveSpec == Spec /\ Fairness

-----------------------------------------------------------------------------
(* Properties.                                                             *)

\* A job shown as completed was run to its end: every record was given to
\* AddNumber and the counters are those of the whole file, whatever crashes, lost
\* updates, retries and manual resets came before.
CompletedIsWhole ==
    \A j \in Jobs : job[j].status = "completed" =>
        /\ job[j].processed = Records
        /\ job[j].success + job[j].errors = Records
        /\ \A i \in 1..Records : tried[j][i] > 0

\* One run gives each record to AddNumber at most once, so audit entries and
\* webhooks of a record are repeated only as often as its job is run again.
OncePerRun == \A j \in Jobs, i \in 1..Records : tried[j][i] <= starts[j]

\* With one worker, a completed job stays as it was reported: no retry, reset or other
\* run of the job takes it back.  A second worker may have taken the same pending job,
\* and its run takes it back.
CompletedIsFinal ==
    [][\A j \in Jobs : job[j].status = "completed" => job'[j] = job[j]]_vars

\* Without crashes and lost updates every uploaded job is completed in the end and
\* stays so, also when two workers run the same one.
JobsSettle ==
    \A j \in Jobs : job[j].status = "pending"
        ~> [](job[j].status = "completed" /\ job[j].processed = Records)

\* README, runbook for jobs stuck in "processing": the worker retries them.  Every
\* uploaded job is completed although its worker was restarted once.  Not so, hence
\* in no run: the project's README, section 3.
StuckJobsAreRetried ==
    \A j \in Jobs : job[j].status = "pending" ~> job[j].status = "completed"
=============================================================================
