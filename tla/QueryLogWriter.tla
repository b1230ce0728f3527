--------------------------- MODULE QueryLogWriter ---------------------------
(***************************************************************************)
(* The asynchronous query log of internal/querylog in a service that       *)
(* boot.Serve runs.  Handlers append to a buffer; three kinds of goroutine *)
(* take the whole buffer and write it in one transaction: the ticker loop, *)
(* one started by each Log that finds the buffer full, and Stop.  Serve    *)
(* calls Stop when the signal comes and only then drains the HTTP server,  *)
(* so handlers go on logging after the last flush; at the end the process  *)
(* exits with whatever has not been committed.                             *)
(*                                                                         *)
(* An entry stands for one call of Log.  Two history variables: "lost" is  *)
(* the entries that no goroutine will write any more, "early" the entries  *)
(* logged before the signal.                                               *)
(***************************************************************************)
EXTENDS Naturals, FiniteSets

CONSTANTS Entries,     \* calls of Log
          Rejected,    \* entries the table refuses: query_log has no channel 'both'
          FlushSize,
          Loop, Main,  \* the goroutines of flushLoop and of Stop
          Accepts,     \* the driver accepts the INSERT's ? placeholders (SQLite)
          MayFail,     \* BeginTx, Prepare or Commit may fail for other reasons
          MayStop      \* a signal may come

\* A Log that fills the buffer starts a goroutine, named after its entry.
Flushers == Entries \cup {Loop, Main}

ASSUME WriterParameters ==
    /\ Rejected \subseteq Entries
    /\ FlushSize \in Nat \ {0}
    /\ Loop \notin Entries /\ Main \notin Entries /\ Loop # Main
    /\ Accepts \in BOOLEAN /\ MayFail \in BOOLEAN /\ MayStop \in BOOLEAN

VARIABLES logged,  \* entries Log was called with
          buf,     \* AsyncWriter.buf
          pc,      \* what each flusher does
          batch,   \* the entries it took
          phase,   \* where Serve is
          stored,  \* committed rows of query_log
          lost, early

vars == <<logged, buf, pc, batch, phase, stored, lost, early>>

\* The process runs.
Alive == phase # "exited"

Phases == {"serving", "stopping", "draining", "exited"}
PCs    == {"off", "start", "begin", "tx", "done"}

\* The types, and that a flusher in a transaction has something to write.
TypeOK ==
    /\ logged \subseteq Entries
    /\ buf \subseteq Entries
    /\ pc \in [Flushers -> PCs]
    /\ batch \in [Flushers -> SUBSET Entries]
    /\ phase \in Phases
    /\ stored \subseteq Entries
    /\ lost \subseteq Entries
    /\ early \subseteq Entries
    /\ Alive => \A f \in Flushers : pc[f] \in {"begin", "tx"} => batch[f] # {}

Init ==
    /\ logged = {} /\ buf = {}
    /\ pc = [f \in Flushers |-> "off"]
    /\ batch = [f \in Flushers |-> {}]
    /\ phase = "serving"
    /\ stored = {} /\ lost = {} /\ early = {}

\* A handler logs a lookup; also while Serve stops and drains.
Log(e) ==
    /\ Alive
    /\ e \notin logged
    /\ logged' = logged \cup {e}
    /\ buf' = buf \cup {e}
    /\ pc' = [pc EXCEPT ![e] = IF Cardinality(buf') >= FlushSize THEN "start" ELSE @]
    /\ UNCHANGED <<batch, phase, stored, lost, early>>

\* The ticker of flushLoop, until it sees that done is closed; select may still
\* choose a pending tick then.
TimerFlush ==
    /\ Alive
    /\ pc[Loop] = "off"
    /\ pc' = [pc EXCEPT ![Loop] = "start"]
    /\ UNCHANGED <<logged, buf, batch, phase, stored, lost, early>>

LoopEnds ==
    /\ phase \in {"stopping", "draining"}
    /\ pc[Loop] = "off"
    /\ pc' = [pc EXCEPT ![Loop] = "done"]
    /\ UNCHANGED <<logged, buf, batch, phase, stored, lost, early>>

\* The loop waits for its next tick, the other flushers end.
After(f) == IF f = Loop THEN "off" ELSE "done"

\* Mutant of Swap: the buffer is copied out but not replaced.
Swap_KeepsBuffer(f) == batch' = [batch EXCEPT ![f] = buf] /\ buf' = buf

\* entries := w.buf; w.buf = make(...), under the mutex.
Swap(f) == batch' = [batch EXCEPT ![f] = buf] /\ buf' = {}

\* Mutant of Take: flush returns early unless the buffer is full.
Take_WhenFull(f) ==
    /\ Alive
    /\ pc[f] = "start"
    /\ IF Cardinality(buf) < FlushSize
         THEN UNCHANGED <<buf, batch>> /\ pc' = [pc EXCEPT ![f] = After(f)]
         ELSE Swap(f) /\ pc' = [pc EXCEPT ![f] = "begin"]
    /\ UNCHANGED <<logged, phase, stored, lost, early>>

\* Mutant of Take: flush does not return early when the buffer is empty.
Take_Empty(f) ==
    /\ Alive
    /\ pc[f] = "start"
    /\ Swap(f)
    /\ pc' = [pc EXCEPT ![f] = "begin"]
    /\ UNCHANGED <<logged, phase, stored, lost, early>>

Take(f) ==
    /\ Alive
    /\ pc[f] = "start"
    /\ Swap(f)
    /\ pc' = [pc EXCEPT ![f] = IF buf = {} THEN After(f) ELSE "begin"]
    /\ UNCHANGED <<logged, phase, stored, lost, early>>

\* BeginTx and Prepare.  The SQLite writer pool has one connection.
Begin(f) ==
    /\ Alive
    /\ pc[f] = "begin"
    /\ Accepts
    /\ \A g \in Flushers : pc[g] # "tx"
    /\ pc' = [pc EXCEPT ![f] = "tx"]
    /\ UNCHANGED <<logged, buf, batch, phase, stored, lost, early>>

\* Every entry is inserted, an entry the table refuses is skipped, Commit.
Commit(f) ==
    /\ Alive
    /\ pc[f] = "tx"
    /\ stored' = stored \cup (batch[f] \ Rejected)
    /\ lost' = lost \cup (batch[f] \cap Rejected)
    /\ batch' = [batch EXCEPT ![f] = {}]
    /\ pc' = [pc EXCEPT ![f] = After(f)]
    /\ UNCHANGED <<logged, buf, phase, early>>

\* BeginTx, Prepare or Commit fails: the batch is dropped.
Fail(f) ==
    /\ Alive
    /\ \/ pc[f] = "begin" /\ (MayFail \/ ~ Accepts)
       \/ pc[f] = "tx" /\ MayFail
    /\ lost' = lost \cup batch[f]
    /\ batch' = [batch EXCEPT ![f] = {}]
    /\ pc' = [pc EXCEPT ![f] = After(f)]
    /\ UNCHANGED <<logged, buf, phase, stored, early>>

-----------------------------------------------------------------------------
(* Serve.                                                                  *)

\* Mutant of Signal: the final flush is not waited for.
Signal_NoFlush ==
    /\ MayStop
    /\ phase = "serving"
    /\ phase' = "draining"
    /\ pc' = [pc EXCEPT ![Main] = "start"]
    /\ early' = logged
    /\ UNCHANGED <<logged, buf, batch, stored, lost>>

\* onShutdown: Stop closes done and flushes, in Serve's own goroutine.
Signal ==
    /\ MayStop
    /\ phase = "serving"
    /\ phase' = "stopping"
    /\ pc' = [pc EXCEPT ![Main] = "start"]
    /\ early' = logged
    /\ UNCHANGED <<logged, buf, batch, stored, lost>>

\* srv.Shutdown waits for the handlers, at most five seconds.
Drain ==
    /\ phase = "stopping"
    /\ pc[Main] = "done"
    /\ phase' = "draining"
    /\ UNCHANGED <<logged, buf, pc, batch, stored, lost, early>>

\* main returns: the database is closed, open transactions are rolled back.
Exit ==
    /\ phase = "draining"
    /\ phase' = "exited"
    /\ lost' = lost \cup buf \cup UNION {batch[f] : f \in Flushers}
    /\ buf' = {}
    /\ batch' = [f \in Flushers |-> {}]
    /\ UNCHANGED <<logged, pc, stored, early>>

Next ==
    \/ \E e \in Entries : Log(e)
    \/ TimerFlush \/ LoopEnds
    \/ \E f \in Flushers : Take(f) \/ Begin(f) \/ Commit(f) \/ Fail(f)
    \/ Signal \/ Drain \/ Exit

Spec == Init /\ [][Next]_vars

\* The ticker ticks, the scheduler runs every goroutine, and Serve goes on: it
\* waits for its handlers five seconds at most.
Fairness ==
    /\ WF_vars(TimerFlush)
    /\ \A f \in Flushers : WF_vars(Take(f)) /\ WF_vars(Begin(f) \/ Commit(f) \/ Fail(f))
    /\ WF_vars(Drain) /\ WF_vars(Exit)

LiveSpec == Spec /\ Fairness

-----------------------------------------------------------------------------
(* Properties.                                                             *)

InFlight == UNION {batch[f] : f \in Flushers}

\* Whichever goroutines flush at the same time, and wherever one of them fails, an
\* entry is in exactly one place: the buffer, one batch, the table, or lost.  So
\* no lookup is counted twice and none disappears unnoticed.
EachEntryInOnePlace ==
    /\ logged = buf \cup InFlight \cup stored \cup lost
    /\ buf \cap (InFlight \cup stored \cup lost) = {}
    /\ InFlight \cap (stored \cup lost) = {}
    /\ stored \cap lost = {}
    /\ \A f, g \in Flushers : f # g => batch[f] \cap batch[g] = {}

\* Once Stop has returned, the buffer holds no entry from before the signal, also
\* when another goroutine took part of them: what Serve leaves in the buffer at
\* the exit was logged while it stopped.
StopTakesEarlierEntries ==
    phase \in {"draining", "exited"} => buf \cap early = {}

\* No entry waits for ever in the buffer or in a batch, however few come after it:
\* the ticker reaches what no full buffer flushed, and it is stored or lost.
EveryEntrySettles ==
    \A e \in Entries : e \in logged ~> e \in stored \cup lost

\* Stop's comment: "final flush".  After it, a process whose database does not
\* fail exits with every acceptable entry stored.
NothingLostByShutdown == phase = "exited" => logged \ stored \subseteq Rejected
=============================================================================
