----------------------- MODULE QueryLogWriter_proofs -----------------------
(***************************************************************************)
(* Proofs about QueryLogWriter for every set of entries and every flush    *)
(* size.  The argument: a flusher that has not begun its transaction holds *)
(* no batch, so taking the buffer overwrites nothing; and Main, which ran  *)
(* after the signal, left none of the earlier entries in the buffer.       *)
(***************************************************************************)
EXTENDS QueryLogWriter, TLAPS

\* Flushers without a transaction under way hold nothing; the one an entry will
\* start, and Main before the signal, have not run.
Quiet ==
    /\ \A f \in Flushers : pc[f] \notin {"begin", "tx"} => batch[f] = {}
    /\ \A e \in Entries \ logged : pc[e] = "off"
    /\ phase = "serving" => pc[Main] = "off"
    /\ phase \in {"draining", "exited"} => pc[Main] = "done"

\* EachEntryInOnePlace, entry by entry.
Held(e) == \E f \in Flushers : e \in batch[f]

OnePlace ==
    /\ \A e \in Entries : e \in logged <=> e \in buf \/ Held(e) \/ e \in stored \/ e \in lost
    /\ \A e \in Entries :
         /\ e \in buf => ~ Held(e) /\ e \notin stored /\ e \notin lost
         /\ Held(e) => e \notin stored /\ e \notin lost
         /\ ~ (e \in stored /\ e \in lost)
    /\ \A f, g \in Flushers : f # g => batch[f] \cap batch[g] = {}

\* From the time Main has taken the buffer.
Stopped ==
    /\ early \subseteq logged
    /\ phase # "serving" /\ pc[Main] # "start" => buf \cap early = {}

IInv == TypeOK /\ Quiet /\ OnePlace /\ Stopped

-----------------------------------------------------------------------------

\* The two forms of the property agree on typed states.
LEMMA Places == ASSUME TypeOK, OnePlace PROVE EachEntryInOnePlace
<1>1. \A e : e \in InFlight <=> Held(e)
  BY DEF InFlight, Held
<1>2. InFlight \subseteq Entries
  BY <1>1 DEF Held, TypeOK
<1> QED BY <1>1, <1>2 DEF TypeOK, Alive, OnePlace, EachEntryInOnePlace

\* The buffer, the batches and the table start empty.
LEMMA InitInv == Init => IInv
BY WriterParameters
   DEF Init, IInv, TypeOK, Alive, Phases, PCs, Quiet, OnePlace, Held, Stopped, Flushers

\* Where a flusher goes after its work is a state without a batch.
LEMMA AfterStates ==
    \A f \in Flushers : After(f) \in {"off", "done"} /\ (f # Loop => After(f) = "done")
BY DEF After

\* Log puts a new entry into the buffer and into no other place.
LEMMA LogStep ==
    ASSUME IInv, NEW e \in Entries, Log(e)
    PROVE  IInv'
<1> USE WriterParameters DEF IInv, Log
<1>1. e \in Flushers /\ e # Main /\ e # Loop /\ batch[e] = {}
  BY DEF Flushers, Quiet
<1>2. pc'[e] \in {"off", "start"} /\ pc' \in [Flushers -> PCs]
      /\ \A f \in Flushers \ {e} : pc'[f] = pc[f]
  BY <1>1 DEF TypeOK, Alive, PCs, Quiet
<1>3. TypeOK'
  BY <1>2 DEF TypeOK, Alive
<1>4. Quiet'
  BY <1>1, <1>2 DEF Quiet, Flushers
<1>5. OnePlace'
  <2>1. \A d \in Entries : Held(d)' <=> Held(d)
    BY DEF Held
  <2>2. e \notin buf /\ ~ Held(e) /\ e \notin stored /\ e \notin lost
    BY DEF OnePlace
  <2> QED BY <2>1, <2>2 DEF OnePlace
<1>6. Stopped'
  BY <1>1, <1>2 DEF Stopped, Flushers
<1> QED BY <1>3, <1>4, <1>5, <1>6

\* The ticker's step and the end of the loop touch only the loop's place.
LEMMA LoopStep ==
    ASSUME IInv, TimerFlush \/ LoopEnds
    PROVE  IInv'
<1> USE WriterParameters DEF IInv, TimerFlush, LoopEnds
<1>1. Loop \in Flushers /\ batch[Loop] = {}
  BY DEF Flushers, Quiet
<1>2. /\ pc'[Loop] \in {"start", "done"} /\ pc' \in [Flushers -> PCs]
      /\ \A f \in Flushers \ {Loop} : pc'[f] = pc[f]
      /\ UNCHANGED <<logged, buf, batch, phase, stored, lost, early>>
  BY <1>1 DEF TypeOK, Alive, PCs
<1>3. TypeOK'
  BY <1>2 DEF TypeOK, Alive
<1>4. Quiet'
  BY <1>1, <1>2 DEF Quiet, Flushers
<1>5. OnePlace'
  BY <1>2 DEF OnePlace, Held
<1>6. Stopped'
  BY <1>2 DEF Stopped, Flushers
<1> QED BY <1>3, <1>4, <1>5, <1>6

\* Taking the buffer moves its entries into an empty batch.
LEMMA TakeStep ==
    ASSUME IInv, NEW f \in Flushers, Take(f)
    PROVE  IInv'
<1> USE WriterParameters DEF IInv, Take, Swap
<1>1. batch[f] = {}
  BY DEF Quiet
<1>2. /\ batch' = [batch EXCEPT ![f] = buf] /\ buf' = {}
      /\ batch'[f] = buf /\ \A g \in Flushers \ {f} : batch'[g] = batch[g]
  BY DEF TypeOK, Alive
<1>3. /\ pc'[f] \in {"off", "done", "begin"} /\ pc' \in [Flushers -> PCs]
      /\ pc'[f] # "begin" => buf = {} /\ pc'[f] = After(f)
      /\ pc'[f] = "begin" => buf # {}
      /\ \A g \in Flushers \ {f} : pc'[g] = pc[g]
  BY AfterStates DEF TypeOK, Alive, PCs
<1>4. TypeOK'
  BY <1>2, <1>3 DEF TypeOK, Alive
<1>5. Quiet'
  <2>1. \A g \in Flushers : pc'[g] \notin {"begin", "tx"} => batch'[g] = {}
    BY <1>2, <1>3 DEF Quiet
  <2>2. \A e \in Entries \ logged' : pc'[e] = "off"
    BY <1>3 DEF Quiet, Flushers
  <2>3. phase' \in {"serving", "draining", "exited"} => f # Main
    BY DEF Quiet
  <2>4. Main \in Flushers
    BY DEF Flushers
  <2> QED BY <1>3, <2>1, <2>2, <2>3, <2>4 DEF Quiet
<1>6. OnePlace'
  <2>1. \A e \in Entries : Held(e)' <=> Held(e) \/ e \in buf
    BY <1>1, <1>2 DEF Held
  <2>2. \A e \in Entries : ~ (e \in buf /\ Held(e))
    BY DEF OnePlace
  <2>3. \A g \in Flushers : buf \cap batch[g] = {}
    BY <2>2 DEF Held, TypeOK
  <2>4. \A g, h \in Flushers : g # h => batch'[g] \cap batch'[h] = {}
    BY <1>2, <2>3 DEF OnePlace
  <2> QED BY <1>2, <2>1, <2>4 DEF OnePlace
<1>7. Stopped'
  BY <1>2 DEF Stopped
<1> QED BY <1>4, <1>5, <1>6, <1>7

\* BeginTx moves nothing.
LEMMA BeginStep ==
    ASSUME IInv, NEW f \in Flushers, Begin(f)
    PROVE  IInv'
<1> USE WriterParameters DEF IInv, Begin
<1>1. /\ pc'[f] = "tx" /\ pc' \in [Flushers -> PCs]
      /\ \A g \in Flushers \ {f} : pc'[g] = pc[g]
  BY DEF TypeOK, Alive, PCs
<1>2. TypeOK' /\ OnePlace'
  BY <1>1 DEF TypeOK, Alive, OnePlace, Held
<1>3. f = Main => phase = "stopping"
  BY DEF Quiet, TypeOK, Alive, Phases
<1>4. Main \in Flushers /\ Entries \subseteq Flushers
  BY DEF Flushers
<1>5. Quiet' /\ Stopped'
  BY <1>1, <1>3, <1>4 DEF Quiet, Stopped
<1> QED BY <1>2, <1>5

\* A finished or failed transaction moves its batch to the table and to lost.
LEMMA EndStep ==
    ASSUME IInv, NEW f \in Flushers, Commit(f) \/ Fail(f)
    PROVE  IInv'
<1> USE WriterParameters DEF IInv, Commit, Fail
<1>1. /\ batch' = [batch EXCEPT ![f] = {}]
      /\ batch'[f] = {} /\ \A g \in Flushers \ {f} : batch'[g] = batch[g]
  BY DEF TypeOK, Alive
<1>2. /\ pc'[f] = After(f) /\ pc' \in [Flushers -> PCs]
      /\ \A g \in Flushers \ {f} : pc'[g] = pc[g]
  BY AfterStates DEF TypeOK, Alive, PCs
<1>3. PICK S \in SUBSET batch[f] : /\ stored' = stored \cup S
                                  /\ lost' = lost \cup (batch[f] \ S)
  <2>1. CASE Commit(f)
    <3>1. batch[f] \ Rejected \in SUBSET batch[f]
          /\ batch[f] \cap Rejected = batch[f] \ (batch[f] \ Rejected)
      OBVIOUS
    <3> QED BY <2>1, <3>1
  <2>2. CASE Fail(f)
    <3>1. {} \in SUBSET batch[f] /\ stored \cup {} = stored /\ batch[f] \ {} = batch[f]
      OBVIOUS
    <3> QED BY <2>2, <3>1
  <2> QED BY <2>1, <2>2
<1>4. UNCHANGED <<logged, buf, phase, early>>
  OBVIOUS
<1>5. TypeOK'
  <2>1. pc'[f] \notin {"begin", "tx"}
    BY <1>2, AfterStates
  <2> QED BY <1>1, <1>2, <1>3, <1>4, <2>1 DEF TypeOK, Alive
<1>6. Quiet'
  <2>1. pc[f] \in {"begin", "tx"}
    OBVIOUS
  <2>2. f = Main => phase = "stopping"
    BY <2>1 DEF Quiet, TypeOK, Alive, Phases
  <2>3. Main \in Flushers /\ Entries \subseteq Flushers
    BY DEF Flushers
  <2>4. f \in Entries => f \in logged
    BY <2>1 DEF Quiet
  <2> QED BY <1>1, <1>2, <1>4, <2>2, <2>3, <2>4, AfterStates DEF Quiet
<1>7. OnePlace'
  <2>1. \A e \in Entries : Held(e) <=> Held(e)' \/ e \in batch[f]
    BY <1>1 DEF Held
  <2>2. \A e \in batch[f] : ~ Held(e)'
    BY <1>1 DEF Held, OnePlace
  <2>3. \A g, h \in Flushers : g # h => batch'[g] \cap batch'[h] = {}
    BY <1>1 DEF OnePlace
  <2>4. \A e \in Entries : /\ e \in stored' <=> e \in stored \/ e \in S
                           /\ e \in lost' <=> e \in lost \/ (e \in batch[f] /\ e \notin S)
    BY <1>3
  <2>5. \A e \in Entries : e \in S => e \in batch[f]
    BY <1>3
  <2> QED BY <1>4, <2>1, <2>2, <2>3, <2>4, <2>5 DEF OnePlace
<1>8. Stopped'
  <2>1. Main \in Flushers /\ pc[f] \in {"begin", "tx"}
    BY DEF Flushers
  <2> QED BY <1>2, <1>4, <2>1 DEF Stopped
<1> QED BY <1>5, <1>6, <1>7, <1>8

\* Serve's own steps: the signal, the drain, the exit.
LEMMA ServeStep ==
    ASSUME IInv, Signal \/ Drain \/ Exit
    PROVE  IInv'
<1> USE WriterParameters DEF IInv
<1>0. Main \in Flushers /\ Main \notin Entries
  BY DEF Flushers
<1>1. CASE Signal
  <2>1. /\ pc'[Main] = "start" /\ pc' \in [Flushers -> PCs]
        /\ \A g \in Flushers \ {Main} : pc'[g] = pc[g]
        /\ UNCHANGED <<logged, buf, batch, stored, lost>>
        /\ early' = logged /\ phase = "serving" /\ phase' = "stopping" /\ batch[Main] = {}
    BY <1>0, <1>1 DEF Signal, TypeOK, Alive, PCs, Quiet
  <2>2. TypeOK' /\ OnePlace'
    <3>1. Alive /\ "start" \notin {"begin", "tx"}
      BY <2>1 DEF Alive
    <3>2. \A f \in Flushers : pc'[f] \in {"begin", "tx"} => batch'[f] # {}
      BY <2>1, <3>1 DEF TypeOK
    <3>3. TypeOK'
      BY <2>1, <3>2 DEF TypeOK, Phases
    <3> QED BY <2>1, <3>3 DEF OnePlace, Held
  <2>3. Quiet' /\ Stopped'
    BY <1>0, <2>1 DEF Quiet, Stopped, Flushers
  <2> QED BY <2>2, <2>3
<1>2. CASE Drain
  BY <1>2 DEF Drain, TypeOK, Alive, Phases, Quiet, OnePlace, Held, Stopped
<1>3. CASE Exit
  <2>1. /\ \A f \in Flushers : batch'[f] = {}
        /\ batch' \in [Flushers -> SUBSET Entries]
        /\ buf' = {} /\ phase' = "exited"
        /\ UNCHANGED <<logged, pc, stored, early>>
    BY <1>3 DEF Exit
  <2>2. \A e : e \in lost' <=> e \in lost \/ e \in buf \/ Held(e)
    BY <1>3 DEF Exit, Held
  <2>3. TypeOK'
    <3>1. lost' \subseteq Entries
      BY <2>2 DEF Held, TypeOK
    <3> QED BY <2>1, <3>1 DEF TypeOK, Alive, Phases
  <2>4. OnePlace'
    BY <2>1, <2>2 DEF OnePlace, Held
  <2>5. Quiet' /\ Stopped'
    BY <1>3, <2>1 DEF Exit, Quiet, Stopped
  <2> QED BY <2>3, <2>4, <2>5
<1> QED BY <1>1, <1>2, <1>3

\* The invariant holds in every reachable state.
THEOREM Invariance == Spec => []IInv
<1>1. IInv /\ UNCHANGED vars => IInv'
  BY DEF IInv, vars, TypeOK, Alive, Quiet, OnePlace, Held, Stopped
<1>2. IInv /\ [Next]_vars => IInv'
  BY <1>1, LogStep, LoopStep, TakeStep, BeginStep, EndStep, ServeStep DEF Next
<1> QED BY InitInv, <1>2, PTL DEF Spec

-----------------------------------------------------------------------------

\* Every variable keeps its type.
THEOREM TypeCorrect == Spec => []TypeOK
<1>1. IInv => TypeOK
  BY DEF IInv
<1> QED BY Invariance, <1>1, PTL

\* However many goroutines flush, and wherever they fail, an entry is in one place.
THEOREM NoDuplicateNoLoss == Spec => []EachEntryInOnePlace
<1>1. IInv => EachEntryInOnePlace
  BY Places DEF IInv
<1> QED BY Invariance, <1>1, PTL

\* Once Stop has returned, no entry from before the signal is in the buffer.
THEOREM StopEmptiesBuffer == Spec => []StopTakesEarlierEntries
<1>1. IInv => StopTakesEarlierEntries
  BY DEF IInv, Quiet, Stopped, StopTakesEarlierEntries
<1> QED BY Invariance, <1>1, PTL
=============================================================================
