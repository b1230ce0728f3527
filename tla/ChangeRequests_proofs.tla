------------------------ MODULE ChangeRequests_proofs ------------------------
(***************************************************************************)
(* Proofs about ChangeRequests, for any requests and plans, subscribers,   *)
(* numbers, organizations and crashes, and both dialects: notices are due, *)
(* and what clients are told of their changes is true.                     *)
(***************************************************************************)
EXTENDS ChangeRequests, TLAPS

Reads == {"lookup", "bulkLookup"}

\* An execution belongs to an attempt that was dispatched, and a body is only
\* dispatched once.
Begun ==
    \A r \in Requests :
        /\ req[r].pc # "new" => req[r].op \in Ops
        /\ \A a \in 1..2 : exec[<<r, a>>] # "none" =>
              /\ req[r].pc # "new"
              /\ a <= req[r].attempt
              /\ a = req[r].attempt => req[r].pc # "forward"
              /\ a = 2 => ~ HasBody(req[r].op)

\* Who has changed something, by where the handler stands; subscriptions that were
\* deleted then are deleted now.
Committed ==
    \A x \in Executions :
        /\ exec[x] \in {"none", "start"} => x \notin committed
        /\ exec[x] = "addSelect" => x \in committed /\ OpOf(x).kind = "add"
        /\ exec[x] = "removeAudit" => x \in committed /\ OpOf(x).kind = "remove"
        /\ exec[x] = "ok" => x \in committed \/ OpOf(x).kind \in Reads
        /\ gone[x] \subseteq Webhooks!Deleted

\* The event an execution fires, if any.
EventOf(x) == IF OpOf(x).kind = "add" THEN "dno.added" ELSE "dno.removed"

\* x may send s, or has sent it, its event.
Due(x, s) ==
    /\ s \notin gone[x]
    /\ subs[s].status # "absent"
    /\ EventOf(x) \in subs[s].events

NoticeSound(x) ==
    /\ notice[x].pc # "none" =>
          /\ exec[x] = "ok" /\ x \in committed
          /\ OpOf(x).kind \in {"add", "remove"}
          /\ notice[x].event = EventOf(x)
    /\ notice[x].pc # "sending" => notice[x].to = {}
    /\ \A s \in notice[x].to : received[<<x, s>>] = 0 /\ Due(x, s)

ReceivedSound(x) ==
    \A s \in Subs : received[<<x, s>>] > 0 =>
        /\ received[<<x, s>>] = 1
        /\ x \in committed /\ OpOf(x).kind \in {"add", "remove"} /\ Due(x, s)
        /\ exec[x] \in {"ok", "killed"}
        /\ notice[x].pc # "fired"

NoticeInv == \A x \in Executions : NoticeSound(x) /\ ReceivedSound(x)

\* What a removal matched can be matched again, or ITG has the number.
RemovedInv ==
    \A x \in committed : OpOf(x).kind = "remove" =>
        Removable(OpOf(x)) # {} \/ TakenByITG(OpOf(x))

KeyInv ==
    \A x \in Executions : exec[x] = "ok" /\ OpOf(x).kind = "generateKey" =>
        key = x \/ KeyChangedBesides(x)

-----------------------------------------------------------------------------
(* What the statements do to the table.                                    *)

\* Every row of t is in u, with its organization and, but for number p, its dataset.
KeepsRows(t, u, P) ==
    \A k \in Key : Exists(t, k) =>
        /\ Exists(u, k) /\ u[k].org = t[k].org
        /\ k[1] \notin P => u[k].dataset = t[k].dataset

\* AddNumber's statement keeps the table's type and all rows.
LEMMA UpsertSubscriberKeeps ==
    ASSUME NEW t \in DNOTable, NEW p \in Phones, NEW c \in Channel, NEW o \in Orgs
    PROVE  /\ UpsertSubscriber(t, p, c, o) \in DNOTable
           /\ KeepsRows(t, UpsertSubscriber(t, p, c, o), {})
<1> DEFINE u == UpsertSubscriber(t, p, c, o)
           new == [dataset |-> "subscriber", status |-> "active", org |-> o]
<1>0. <<p, c>> \in Key
  BY DEF Key
<1>1. new \in Row
  BY DEF Row, Dataset, Status
<1>2. CASE Exists(t, <<p, c>>)
  <2> DEFINE r == t[<<p, c>>]
             s == [r EXCEPT !.status = "active"]
  <2>1. r \in Row /\ u = [t EXCEPT ![<<p, c>>] = s]
    BY <1>0, <1>2 DEF DNOTable, Exists, UpsertSubscriber
  <2>2. s \in Row /\ s.dataset = r.dataset /\ s.org = r.org
    BY <2>1 DEF Row, Status
  <2> HIDE DEF s
  <2>3. /\ u[<<p, c>>] = s /\ u \in DNOTable
        /\ \A k \in Key : k # <<p, c>> => u[k] = t[k]
    BY <1>0, <2>1, <2>2 DEF DNOTable
  <2> QED BY <2>2, <2>3, NullsAreNotValues DEF KeepsRows, Exists
<1>3. CASE ~ Exists(t, <<p, c>>)
  <2>1. u = [t EXCEPT ![<<p, c>>] = new]
    BY <1>3 DEF UpsertSubscriber
  <2> HIDE DEF new
  <2>2. /\ u \in DNOTable
        /\ \A k \in Key : k # <<p, c>> => u[k] = t[k]
    BY <1>0, <1>1, <2>1 DEF DNOTable
  <2> QED BY <1>3, <2>2 DEF KeepsRows, Exists
<1> QED BY <1>2, <1>3

\* IngestITGNumber's statement keeps them too, but for one number's dataset.
LEMMA UpsertSystemKeeps ==
    ASSUME NEW t \in DNOTable, NEW p \in Phones, NEW c \in Channel
    PROVE  /\ UpsertSystem(t, p, c, "itg") \in DNOTable
           /\ KeepsRows(t, UpsertSystem(t, p, c, "itg"), {p})
<1> DEFINE u == UpsertSystem(t, p, c, "itg")
           new == [dataset |-> "itg", status |-> "active", org |-> NoOrg]
<1>0. <<p, c>> \in Key
  BY DEF Key
<1>1. new \in Row
  BY DEF Row, Dataset, Status
<1>2. CASE Exists(t, <<p, c>>)
  <2> DEFINE r == t[<<p, c>>]
             s == [r EXCEPT !.status = "active", !.dataset = "itg"]
  <2>1. r \in Row /\ u = [t EXCEPT ![<<p, c>>] = s]
    BY <1>0, <1>2 DEF DNOTable, Exists, UpsertSystem
  <2>2. s \in Row /\ s.org = r.org
    BY <2>1 DEF Row, Status, Dataset
  <2> HIDE DEF s
  <2>3. /\ u[<<p, c>>] = s /\ u \in DNOTable
        /\ \A k \in Key : k # <<p, c>> => u[k] = t[k]
    BY <1>0, <2>1, <2>2 DEF DNOTable
  <2> QED BY <2>2, <2>3, NullsAreNotValues DEF KeepsRows, Exists
<1>3. CASE ~ Exists(t, <<p, c>>)
  <2>1. u = [t EXCEPT ![<<p, c>>] = new]
    BY <1>3 DEF UpsertSystem
  <2> HIDE DEF new
  <2>2. /\ u \in DNOTable
        /\ \A k \in Key : k # <<p, c>> => u[k] = t[k]
    BY <1>0, <1>1, <2>1 DEF DNOTable
  <2> QED BY <1>3, <2>2 DEF KeepsRows, Exists
<1> QED BY <1>2, <1>3

\* RemoveNumber's statement keeps rows, organizations and datasets.
LEMMA DeactivateKeeps ==
    ASSUME NEW t \in DNOTable, NEW K \in SUBSET Key, \A k \in K : Exists(t, k)
    PROVE  /\ Deactivate(t, K) \in DNOTable
           /\ KeepsRows(t, Deactivate(t, K), {})
<1> DEFINE u == Deactivate(t, K)
<1>1. ASSUME NEW k \in Key
      PROVE  /\ u[k] \in Row \cup {NoRow}
             /\ Exists(t, k) => /\ Exists(u, k) /\ u[k].org = t[k].org
                                /\ u[k].dataset = t[k].dataset
  <2>1. CASE k \in K
    <3> DEFINE s == [t[k] EXCEPT !.status = "inactive"]
    <3>1. t[k] \in Row /\ u[k] = s
      BY <2>1 DEF DNOTable, Exists, Deactivate
    <3>2. s \in Row /\ s.org = t[k].org /\ s.dataset = t[k].dataset
      BY <3>1 DEF Row, Status
    <3> HIDE DEF s
    <3> QED BY <3>1, <3>2, NullsAreNotValues DEF Exists
  <2>2. CASE k \notin K
    <3>1. u[k] = t[k]
      BY <2>2 DEF Deactivate
    <3>2. t[k] \in Row \cup {NoRow}
      BY DEF DNOTable
    <3> HIDE DEF u
    <3> QED BY <3>1, <3>2 DEF Exists
  <2> QED BY <2>1, <2>2
<1>2. u \in DNOTable
  <2>1. \A k \in Key : u[k] \in Row \cup {NoRow}
    BY <1>1
  <2> QED BY <2>1 DEF Deactivate, DNOTable
<1> HIDE DEF u
<1> QED BY <1>1, <1>2 DEF KeepsRows, u

\* What was removable stays so, but for the numbers that are taken.
LEMMA TargetsStay ==
    ASSUME NEW t, NEW u, NEW P, KeepsRows(t, u, P),
           NEW p \in Phones \ P, NEW c \in Channel, NEW o
    PROVE  RemoveTargets(t, p, c, o) \subseteq RemoveTargets(u, p, c, o)
BY DEF KeepsRows, RemoveTargets, Covering, Key, Channel

-----------------------------------------------------------------------------
(* The kinds of step there are.                                            *)

\* The fields of an operation.
LEMMA OpsTyped ==
    ASSUME NEW op \in Ops
    PROVE  op.kind \in Kind /\ op.phone \in Phones /\ op.chan \in Channel /\ op.org \in Orgs
BY InstanceParameters

\* An execution is an attempt of a request, and one that was dispatched has an
\* operation.
LEMMA ExecutionOf ==
    ASSUME Begun, NEW x \in Executions
    PROVE  /\ x[1] \in Requests /\ x[2] \in 1..2 /\ x = <<x[1], x[2]>>
           /\ exec[x] # "none" => OpOf(x) \in Ops
<1>1. PICK r \in Requests, a \in 1..2 : x = <<r, a>>
  BY DEF Executions
<1>2. x[1] = r /\ x[2] = a
  BY <1>1
<1>3. exec[<<r, a>>] # "none" => req[r].op \in Ops
  BY DEF Begun
<1> QED BY <1>1, <1>2, <1>3 DEF OpOf

\* What a removal matches are keys of rows.
LEMMA RemovableKeys ==
    ASSUME NEW op \in Ops
    PROVE  Removable(op) \in SUBSET Key /\ \A k \in Removable(op) : Exists(dno, k)
BY OpsTyped DEF Removable, RemoveTargets, Covering, Key, Channel

\* The handler of x answers and has changed nothing in this step.
AnswerStep(x) ==
    \E s \in {"ok", "refused", "notFound"} :
        /\ exec[x] \in {"start", "addSelect", "removeAudit"} /\ Go(x, s)
        /\ s = "ok" => OpOf(x).kind \in Reads
        /\ UNCHANGED <<gatewayVars, tableVars, webhookVars, crashes>>

\* The handler of x changes the list or the key, and goes to s.
CommitStep(x, s) ==
    /\ exec[x] = "start" /\ Go(x, s)
    /\ s \in {"addSelect", "removeAudit", "ok"}
    /\ s = "addSelect" => OpOf(x).kind = "add"
    /\ s = "removeAudit" => OpOf(x).kind = "remove"
    /\ dno' \in DNOTable
    /\ KeepsRows(dno, dno', IF OpOf(x).kind = "ingest" THEN {OpOf(x).phone} ELSE {})
    /\ OpOf(x).kind = "remove" => Removable(OpOf(x)) # {}
    /\ key' \in {key, x, NoKey}
    /\ key' # key => OpOf(x).kind \in {"generateKey", "revokeKey"}
    /\ OpOf(x).kind = "generateKey" => key' = x
    /\ Record(x)
    /\ UNCHANGED <<gatewayVars, webhookVars, crashes>>

\* The handler of x fires its event and answers.
FireStep(x) ==
    /\ exec[x] \in {"addSelect", "removeAudit"} /\ Go(x, "ok")
    /\ OpOf(x).kind \in {"add", "remove"}
    /\ notice' = [notice EXCEPT ![x] = [pc |-> "fired", event |-> EventOf(x), to |-> {}]]
    /\ UNCHANGED <<gatewayVars, tableVars, subs, received, crashes>>

\* Every step of a handler answers, changes something or fires.
LEMMA HandleKinds ==
    ASSUME TypeOK, Begun, Committed, NEW x \in Executions, Handle(x)
    PROVE  AnswerStep(x) \/ FireStep(x) \/ \E s \in ExecPC : CommitStep(x, s)
<1> DEFINE Kinds == AnswerStep(x) \/ FireStep(x) \/ \E s \in ExecPC : CommitStep(x, s)
           op == OpOf(x)
<1>0. exec[x] # "none" => /\ op \in Ops /\ op.phone \in Phones /\ op.chan \in Channel
                          /\ op.org \in Orgs
  BY ExecutionOf, OpsTyped
<1>1. ASSUME exec[x] \in {"start", "addSelect", "removeAudit"}, Refuse(x) PROVE Kinds
  <2>1. AnswerStep(x)
    BY <1>1 DEF AnswerStep, Refuse
  <2> QED BY <2>1
<1>2. CASE \/ RefuseLookup(x) \/ RefuseBulk(x) \/ RefuseAdd(x) \/ RefuseRemove(x)
           \/ RefuseIngest(x) \/ RefuseKey(x) \/ AddSelectFails(x)
           \/ RemoveCountFails(x)
  BY <1>1, <1>2 DEF RefuseLookup, RefuseBulk, RefuseAdd, RefuseRemove, RefuseIngest,
                    RefuseKey, AddSelectFails, RemoveCountFails, At
<1>3. CASE Lookup(x)
  <2>1. AnswerStep(x)
    BY <1>3 DEF AnswerStep, Lookup, Reads
  <2> QED BY <2>1
<1>4. CASE RemoveMisses(x)
  <2>1. AnswerStep(x)
    BY <1>4 DEF AnswerStep, RemoveMisses, At
  <2> QED BY <2>1
<1>5. CASE AddUpsert(x)
  <2>1. exec[x] = "start" /\ op.kind = "add" /\ Go(x, "addSelect")
        /\ dno' = UpsertSubscriber(dno, op.phone, op.chan, op.org)
        /\ UNCHANGED key /\ Record(x)
    BY <1>5 DEF AddUpsert, At, Commit
  <2>2. dno' \in DNOTable /\ KeepsRows(dno, dno', {})
    BY <1>0, <2>1, UpsertSubscriberKeeps DEF TypeOK
  <2>3. CommitStep(x, "addSelect")
    BY <1>5, <2>1, <2>2 DEF CommitStep, AddUpsert
  <2> QED BY <2>3 DEF ExecPC
<1>6. CASE RemoveUpdate(x)
  <2>1. exec[x] = "start" /\ op.kind = "remove" /\ Go(x, "removeAudit")
        /\ dno' = Deactivate(dno, Removable(op))
        /\ Removable(op) # {}
        /\ UNCHANGED key /\ Record(x)
    BY <1>6 DEF RemoveUpdate, At, Commit
  <2>2. dno' \in DNOTable /\ KeepsRows(dno, dno', {})
    BY <1>0, <2>1, RemovableKeys, DeactivateKeeps DEF TypeOK
  <2>3. CommitStep(x, "removeAudit")
    BY <1>6, <2>1, <2>2 DEF CommitStep, RemoveUpdate
  <2> QED BY <2>3 DEF ExecPC
<1>7. CASE Ingest(x)
  <2>1. exec[x] = "start" /\ op.kind = "ingest" /\ Go(x, "ok")
        /\ dno' = UpsertSystem(dno, op.phone, op.chan, "itg")
        /\ UNCHANGED key /\ Record(x)
    BY <1>7 DEF Ingest, At, Commit
  <2>2. dno' \in DNOTable /\ KeepsRows(dno, dno', {op.phone})
    BY <1>0, <2>1, UpsertSystemKeeps DEF TypeOK
  <2>3. CommitStep(x, "ok")
    BY <1>7, <2>1, <2>2 DEF CommitStep, Ingest
  <2> QED BY <2>3 DEF ExecPC
<1>8. CASE GenerateKey(x) \/ RevokeKey(x)
  <2>1. exec[x] = "start" /\ op.kind \in {"generateKey", "revokeKey"} /\ Go(x, "ok")
        /\ key' \in {x, NoKey} /\ (op.kind = "generateKey" => key' = x)
        /\ UNCHANGED dno /\ Record(x)
    BY <1>8 DEF GenerateKey, RevokeKey, At, CommitKey
  <2>2. dno' \in DNOTable /\ KeepsRows(dno, dno', {})
    BY <2>1 DEF TypeOK, KeepsRows, Exists
  <2>3. CommitStep(x, "ok")
    BY <1>8, <2>1, <2>2 DEF CommitStep, GenerateKey, RevokeKey
  <2> QED BY <2>3 DEF ExecPC
<1>9. CASE AddFinish(x)
  <2>1. op.kind = "add"
    BY <1>9 DEF AddFinish, Committed
  <2>2. FireStep(x)
    BY <1>9, <2>1 DEF AddFinish, FireStep, EventOf, Webhooks!FireWebhooks
  <2> QED BY <2>2
<1>10. CASE RemoveFinish(x)
  <2>1. op.kind = "remove"
    BY <1>10 DEF RemoveFinish, Committed
  <2>2. FireStep(x)
    BY <1>10, <2>1 DEF RemoveFinish, FireStep, EventOf, Webhooks!FireWebhooks
  <2> QED BY <2>2
<1> QED BY <1>2, <1>3, <1>4, <1>5, <1>6, <1>7, <1>8, <1>9, <1>10 DEF Handle

\* A step of the gateway alone: request r goes to q.
GatewayStep(r, q) ==
    /\ q \in Req /\ req' = [req EXCEPT ![r] = q]
    /\ q.op = req[r].op /\ q.op \in Ops /\ q.pc # "new"
    /\ q.attempt >= req[r].attempt
    /\ q.attempt = req[r].attempt /\ q.pc = "forward" => req[r].pc = "new"
    /\ UNCHANGED <<up, tableVars, webhookVars, exec, crashes>>

\* The gateway moves a request on without touching a service.
LEMMA GatewayKinds ==
    ASSUME TypeOK, Begun, NEW r \in Requests,
           Send(r) \/ GiveUpAttempt(r) \/ ConnectionBreaks(r) \/ Respond(r)
    PROVE  \E q \in Req : GatewayStep(r, q)
<1> DEFINE c == req[r]
<1>0. /\ c \in Req /\ req \in [Requests -> Req]
      /\ c.pc # "new" => c.op \in Ops
  BY DEF TypeOK, GatewayTypeOK, Begun
<1>1. c.attempt \in 1..2 /\ c.op \in Ops \cup {NoOp}
  BY <1>0 DEF Req
<1>2. CASE Send(r)
  <2> DEFINE q == [c EXCEPT !.pc = "forward"]
  <2>1. /\ c.pc = "new" /\ c.op # NoOp
        /\ req' = [req EXCEPT ![r] = q]
        /\ UNCHANGED <<up, tableVars, webhookVars, exec, crashes>>
    BY <1>2 DEF Send, Receive
  <2>2. q \in Req /\ q.op = c.op /\ q.pc = "forward" /\ q.attempt = c.attempt
    BY <1>0 DEF Req
  <2> HIDE DEF q
  <2>3. GatewayStep(r, q)
    BY <1>1, <2>1, <2>2 DEF GatewayStep
  <2> QED BY <2>2, <2>3
<1>3. ASSUME AttemptFails(r), UNCHANGED <<tableVars, webhookVars, exec, crashes>>
      PROVE  \E q \in Req : GatewayStep(r, q)
  <2>0. UNCHANGED <<up, tableVars, webhookVars, exec, crashes>>
    BY <1>3 DEF AttemptFails
  <2>1. CASE c.attempt = 1
    <3> DEFINE q == [c EXCEPT !.pc = "forward", !.attempt = 2]
    <3>1. c.pc # "new" /\ req' = [req EXCEPT ![r] = q]
      BY <1>0, <1>3, <2>1 DEF AttemptFails
    <3>2. q \in Req /\ q.op = c.op /\ q.pc = "forward" /\ q.attempt = 2
      <4>1. 2 \in 1..2
        OBVIOUS
      <4> HIDE DEF c
      <4> QED BY <1>0, <4>1, Zenon DEF Req
    <3> HIDE DEF q
    <3>3. GatewayStep(r, q)
      BY <1>0, <2>0, <2>1, <3>1, <3>2 DEF GatewayStep
    <3> QED BY <3>2, <3>3
  <2>2. CASE c.attempt = 2
    <3> DEFINE q == [c EXCEPT !.pc = "answered", !.answer = "unavailable"]
    <3>1. c.pc # "new" /\ req' = [req EXCEPT ![r] = q]
      BY <1>0, <1>3, <2>2 DEF AttemptFails, Reply
    <3>2. q \in Req /\ q.op = c.op /\ q.pc = "answered" /\ q.attempt = c.attempt
      BY <1>0 DEF Req
    <3> HIDE DEF q
    <3>3. GatewayStep(r, q)
      BY <1>0, <1>1, <2>0, <3>1, <3>2 DEF GatewayStep
    <3> QED BY <3>2, <3>3
  <2> QED BY <1>1, <2>1, <2>2
<1>4. CASE Respond(r)
  <2> DEFINE q == [c EXCEPT !.pc = "answered", !.answer = exec[Current(r)]]
  <2>1. /\ c.pc # "new" /\ req' = [req EXCEPT ![r] = q] /\ exec[Current(r)] \in Answer
        /\ UNCHANGED <<up, tableVars, webhookVars, exec, crashes>>
    BY <1>4 DEF Respond, PassOn, Reply
  <2>2. q \in Req /\ q.op = c.op /\ q.pc = "answered" /\ q.attempt = c.attempt
    BY <1>0, <2>1 DEF Req
  <2> HIDE DEF q
  <2>3. GatewayStep(r, q)
    BY <1>0, <1>1, <2>1, <2>2 DEF GatewayStep
  <2> QED BY <2>2, <2>3
<1> QED BY <1>2, <1>3, <1>4 DEF GiveUpAttempt, ConnectionBreaks

\* The gateway dispatches request r: an execution starts that was not there.
DispatchStep(r, q) ==
    /\ q \in Req /\ req' = [req EXCEPT ![r] = q]
    /\ q.op = req[r].op /\ q.op \in Ops /\ q.pc = "sent"
    /\ q.attempt = req[r].attempt
    /\ q.attempt = 2 => ~ HasBody(q.op)
    /\ exec[<<r, q.attempt>>] = "none"
    /\ exec' = [exec EXCEPT ![<<r, q.attempt>>] = "start"]
    /\ UNCHANGED <<up, tableVars, webhookVars, crashes>>

\* Dispatch starts the execution of the current attempt.
LEMMA DispatchKind ==
    ASSUME TypeOK, Begun, NEW r \in Requests, Dispatch(r)
    PROVE  \E q \in Req : DispatchStep(r, q)
<1> DEFINE c == req[r]
           q == [c EXCEPT !.pc = "sent"]
<1>0. /\ c \in Req /\ req \in [Requests -> Req]
      /\ c.pc # "new" => c.op \in Ops
  BY DEF TypeOK, GatewayTypeOK, Begun
<1>1. c.attempt \in 1..2
  BY <1>0 DEF Req
<1>2. /\ c.pc = "forward" /\ CanSend(r)
      /\ req' = [req EXCEPT ![r] = q]
      /\ exec' = [exec EXCEPT ![<<r, c.attempt>>] = "start"]
      /\ UNCHANGED <<up, tableVars, webhookVars, crashes>>
  BY DEF Dispatch, Forward, Current
<1>3. q \in Req /\ q.op = c.op /\ q.pc = "sent" /\ q.attempt = c.attempt
  BY <1>0 DEF Req
<1>4. exec[<<r, c.attempt>>] = "none"
  BY <1>1, <1>2 DEF Begun
<1>5. c.attempt = 2 => ~ HasBody(c.op)
  BY <1>2 DEF CanSend
<1> HIDE DEF q
<1>6. DispatchStep(r, q)
  BY <1>0, <1>2, <1>3, <1>4, <1>5 DEF DispatchStep
<1> QED BY <1>3, <1>6

\* Every step, by what it does.
Step ==
    \/ \E r \in Requests, q \in Req : GatewayStep(r, q) \/ DispatchStep(r, q)
    \/ \E x \in Executions : \/ AnswerStep(x) \/ FireStep(x) \/ Notify(x)
                             \/ \E s \in ExecPC : CommitStep(x, s)
    \/ \E s \in Service : Crash(s) \/ Restart(s)
    \/ \E s \in Subs, o \in Orgs : ChangeSubscription(s, o)
    \/ UNCHANGED vars

\* Every step of the specification is of one of these kinds.
LEMMA StepKinds ==
    ASSUME TypeOK, Begun, Committed, [Next]_vars
    PROVE  Step
<1>1. ASSUME NEW r \in Requests,
             Send(r) \/ GiveUpAttempt(r) \/ ConnectionBreaks(r) \/ Respond(r)
      PROVE  Step
  BY <1>1, GatewayKinds DEF Step
<1>2. ASSUME NEW r \in Requests, Dispatch(r) PROVE Step
  BY <1>2, DispatchKind DEF Step
<1>3. ASSUME NEW x \in Executions, Handle(x) PROVE Step
  BY <1>3, HandleKinds DEF Step
<1>4. CASE UNCHANGED vars
  BY <1>4 DEF Step
<1>5. CASE \/ \E x \in Executions : Notify(x)
           \/ \E s \in Service : Crash(s) \/ Restart(s)
           \/ \E s \in Subs, o \in Orgs : ChangeSubscription(s, o)
  BY <1>5 DEF Step
<1> QED BY <1>1, <1>2, <1>3, <1>4, <1>5 DEF Next

-----------------------------------------------------------------------------
(* Types.                                                                  *)

\* What a step of the notices or the subscriptions leaves.
LEMMA WebhookTypes ==
    ASSUME TypeOK,
           \/ \E x \in Executions : Notify(x)
           \/ \E s \in Subs, o \in Orgs : ChangeSubscription(s, o)
    PROVE  Webhooks!WebhookTypeOK'
<1>0. /\ subs \in [Subs -> Webhooks!Sub]
      /\ notice \in [Executions -> Webhooks!Notice]
      /\ received \in [Executions \X Subs -> Nat]
  BY DEF TypeOK, Webhooks!WebhookTypeOK
<1>1. ASSUME NEW x \in Executions, Webhooks!ReadSubscribers(x)
      PROVE  Webhooks!WebhookTypeOK'
  <2> DEFINE n == notice[x]
             m == [n EXCEPT !.pc = "sending", !.to = Webhooks!Subscribed(n.event)]
  <2>1. n \in Webhooks!Notice /\ Webhooks!Subscribed(n.event) \subseteq Subs
    BY <1>0 DEF Webhooks!Subscribed
  <2>2. m \in Webhooks!Notice
    BY <2>1 DEF Webhooks!Notice
  <2>3. notice' = [notice EXCEPT ![x] = m] /\ UNCHANGED <<subs, received>>
    BY <1>1 DEF Webhooks!ReadSubscribers
  <2> HIDE DEF m
  <2> QED BY <1>0, <2>2, <2>3 DEF Webhooks!WebhookTypeOK
<1>2. ASSUME NEW x \in Executions, Webhooks!ReadFails(x)
      PROVE  Webhooks!WebhookTypeOK'
  <2>1. Webhooks!NoNotice \in Webhooks!Notice
    BY DEF Webhooks!NoNotice, Webhooks!Notice, Webhooks!Event
  <2> QED BY <1>0, <1>2, <2>1 DEF Webhooks!ReadFails, Webhooks!WebhookTypeOK
<1>3. ASSUME NEW x \in Executions, NEW s \in Subs, Webhooks!DeliverWebhook(x, s)
      PROVE  Webhooks!WebhookTypeOK'
  <2> DEFINE n == notice[x]
             m == [n EXCEPT !.to = n.to \ {s}]
  <2>1. n \in Webhooks!Notice
    BY <1>0
  <2>2. m \in Webhooks!Notice
    BY <2>1 DEF Webhooks!Notice
  <2>3. notice' = [notice EXCEPT ![x] = m] /\ UNCHANGED subs
    BY <1>3 DEF Webhooks!DeliverWebhook
  <2>4. \/ received' = received
        \/ received' = [received EXCEPT ![<<x, s>>] = received[<<x, s>>] + 1]
    BY <1>3 DEF Webhooks!DeliverWebhook
  <2>5. received' \in [Executions \X Subs -> Nat]
    <3>1. <<x, s>> \in Executions \X Subs
      OBVIOUS
    <3>2. received[<<x, s>>] + 1 \in Nat
      BY <1>0, <3>1
    <3> QED BY <1>0, <2>4, <3>1, <3>2
  <2> HIDE DEF m
  <2> QED BY <1>0, <2>2, <2>3, <2>5 DEF Webhooks!WebhookTypeOK
<1>4. ASSUME NEW s \in Subs, NEW o \in Orgs, ChangeSubscription(s, o)
      PROVE  Webhooks!WebhookTypeOK'
  <2>1. ASSUME NEW new \in NewSubs, Webhooks!CreateWebhook(s, o, new.events)
        PROVE  Webhooks!WebhookTypeOK'
    <3> DEFINE E == IF new.events = {} THEN Webhooks!Event ELSE new.events
               v == [status |-> "active", owner |-> o, events |-> E]
    <3>1. E \subseteq Webhooks!Event
      BY InstanceParameters
    <3>2. v \in Webhooks!Sub
      BY <3>1 DEF Webhooks!Sub
    <3>3. subs' = [subs EXCEPT ![s] = v] /\ UNCHANGED <<notice, received>>
      BY <2>1 DEF Webhooks!CreateWebhook
    <3> HIDE DEF v
    <3> QED BY <1>0, <3>2, <3>3 DEF Webhooks!WebhookTypeOK
  <2>2. ASSUME Webhooks!DeleteWebhook(s, o)
        PROVE  Webhooks!WebhookTypeOK'
    <3> DEFINE u == subs[s]
               v == [u EXCEPT !.status = "deleted"]
    <3>1. u \in Webhooks!Sub
      BY <1>0
    <3>2. v \in Webhooks!Sub
      BY <3>1 DEF Webhooks!Sub
    <3>3. subs' = [subs EXCEPT ![s] = v] /\ UNCHANGED <<notice, received>>
      BY <2>2 DEF Webhooks!DeleteWebhook
    <3> HIDE DEF v
    <3> QED BY <1>0, <3>2, <3>3 DEF Webhooks!WebhookTypeOK
  <2> QED BY <1>4, <2>1, <2>2 DEF ChangeSubscription
<1> QED BY <1>1, <1>2, <1>3, <1>4 DEF Notify

\* No step breaks the types.
LEMMA TypeStep ==
    ASSUME TypeOK, Step
    PROVE  TypeOK'
<1>0. /\ req \in [Requests -> Req] /\ up \in [Service -> BOOLEAN]
      /\ subs \in [Subs -> Webhooks!Sub]
      /\ notice \in [Executions -> Webhooks!Notice]
      /\ received \in [Executions \X Subs -> Nat]
      /\ dno \in DNOTable
      /\ key \in Executions \cup {NoKey}
      /\ exec \in [Executions -> ExecPC]
      /\ crashes \in 0..MaxCrashes
      /\ committed \subseteq Executions
      /\ gone \in [Executions -> SUBSET Subs]
  BY DEF TypeOK, GatewayTypeOK, Webhooks!WebhookTypeOK
<1>1. CASE \E r \in Requests, q \in Req : GatewayStep(r, q)
  <2>1. PICK r \in Requests, q \in Req : GatewayStep(r, q)
    BY <1>1
  <2>2. req' \in [Requests -> Req]
    BY <1>0, <2>1 DEF GatewayStep
  <2>3. UNCHANGED <<up, dno, key, committed, gone, subs, notice, received, exec, crashes>>
    BY <2>1 DEF GatewayStep, tableVars, webhookVars
  <2> QED BY <1>0, <2>2, <2>3 DEF TypeOK, GatewayTypeOK, Webhooks!WebhookTypeOK
<1>2. CASE \E r \in Requests, q \in Req : DispatchStep(r, q)
  <2>1. PICK r \in Requests, q \in Req : DispatchStep(r, q)
    BY <1>2
  <2>2. req' \in [Requests -> Req]
    BY <1>0, <2>1 DEF DispatchStep
  <2>3. exec' \in [Executions -> ExecPC]
    BY <1>0, <2>1 DEF DispatchStep, ExecPC
  <2>4. UNCHANGED <<up, dno, key, committed, gone, subs, notice, received, crashes>>
    BY <2>1 DEF DispatchStep, tableVars, webhookVars
  <2> QED BY <1>0, <2>2, <2>3, <2>4 DEF TypeOK, GatewayTypeOK, Webhooks!WebhookTypeOK
<1>3. ASSUME NEW x \in Executions, AnswerStep(x) PROVE TypeOK'
  <2>1. exec' \in [Executions -> ExecPC]
    BY <1>0, <1>3 DEF AnswerStep, Go, ExecPC
  <2>2. UNCHANGED <<req, up, dno, key, committed, gone, subs, notice, received, crashes>>
    BY <1>3 DEF AnswerStep, gatewayVars, tableVars, webhookVars
  <2> QED BY <1>0, <2>1, <2>2 DEF TypeOK, GatewayTypeOK, Webhooks!WebhookTypeOK
<1>4. ASSUME NEW x \in Executions, FireStep(x) PROVE TypeOK'
  <2>1. exec' \in [Executions -> ExecPC]
    BY <1>0, <1>4 DEF FireStep, Go, ExecPC
  <2>2. UNCHANGED <<req, up, dno, key, committed, gone, subs, received, crashes>>
    BY <1>4 DEF FireStep, gatewayVars, tableVars
  <2>3. [pc |-> "fired", event |-> EventOf(x), to |-> {}] \in Webhooks!Notice
    BY DEF EventOf, Webhooks!Notice, Webhooks!Event
  <2>4. notice' \in [Executions -> Webhooks!Notice]
    BY <1>0, <1>4, <2>3 DEF FireStep
  <2> QED BY <1>0, <2>1, <2>2, <2>4 DEF TypeOK, GatewayTypeOK, Webhooks!WebhookTypeOK
<1>5. ASSUME NEW x \in Executions, NEW s \in ExecPC, CommitStep(x, s) PROVE TypeOK'
  <2>1. exec' \in [Executions -> ExecPC]
    BY <1>0, <1>5 DEF CommitStep, Go
  <2>2. UNCHANGED <<req, up, subs, notice, received, crashes>>
    BY <1>5 DEF CommitStep, gatewayVars, webhookVars
  <2>3. dno' \in DNOTable /\ key' \in Executions \cup {NoKey}
    BY <1>0, <1>5 DEF CommitStep
  <2>4. committed' \subseteq Executions /\ gone' \in [Executions -> SUBSET Subs]
    BY <1>0, <1>5 DEF CommitStep, Record, Webhooks!Deleted
  <2> QED BY <1>0, <2>1, <2>2, <2>3, <2>4 DEF TypeOK, GatewayTypeOK, Webhooks!WebhookTypeOK
<1>6. ASSUME NEW x \in Executions, Notify(x) PROVE TypeOK'
  <2>1. Webhooks!WebhookTypeOK'
    BY <1>6, WebhookTypes
  <2>2. UNCHANGED <<req, up, dno, key, committed, gone, exec, crashes>>
    BY <1>6 DEF Notify, gatewayVars, tableVars
  <2> QED BY <1>0, <2>1, <2>2 DEF TypeOK, GatewayTypeOK
<1>7. ASSUME NEW s \in Subs, NEW o \in Orgs, ChangeSubscription(s, o) PROVE TypeOK'
  <2>1. Webhooks!WebhookTypeOK'
    BY <1>7, WebhookTypes
  <2>2. UNCHANGED <<req, up, dno, key, committed, gone, exec, crashes>>
    BY <1>7 DEF ChangeSubscription, gatewayVars, tableVars
  <2> QED BY <1>0, <2>1, <2>2 DEF TypeOK, GatewayTypeOK
<1>8. ASSUME NEW s \in Service, Crash(s) PROVE TypeOK'
  <2>1. up' \in [Service -> BOOLEAN] /\ crashes' \in 0..MaxCrashes
    BY <1>0, <1>8, InstanceParameters DEF Crash
  <2>2. exec' \in [Executions -> ExecPC]
    <3>1. \A x \in Executions : exec[x] \in ExecPC
      BY <1>0
    <3> QED BY <1>8, <3>1 DEF Crash, ExecPC
  <2>3. Webhooks!NoNotice \in Webhooks!Notice
    BY DEF Webhooks!NoNotice, Webhooks!Notice, Webhooks!Event
  <2>4. notice' \in [Executions -> Webhooks!Notice]
    BY <1>0, <1>8, <2>3 DEF Crash, Webhooks!NoticesDie
  <2>5. UNCHANGED <<req, dno, key, committed, gone, subs, received>>
    BY <1>8 DEF Crash, tableVars
  <2> QED BY <1>0, <2>1, <2>2, <2>4, <2>5 DEF TypeOK, GatewayTypeOK, Webhooks!WebhookTypeOK
<1>9. ASSUME NEW s \in Service, Restart(s) PROVE TypeOK'
  <2>1. up' \in [Service -> BOOLEAN]
    BY <1>0, <1>9 DEF Restart
  <2>2. UNCHANGED <<req, dno, key, committed, gone, subs, notice, received, exec, crashes>>
    BY <1>9 DEF Restart, tableVars, webhookVars
  <2> QED BY <1>0, <2>1, <2>2 DEF TypeOK, GatewayTypeOK, Webhooks!WebhookTypeOK
<1>10. CASE UNCHANGED vars
  <2>1. UNCHANGED <<req, up, dno, key, committed, gone, subs, notice, received, exec, crashes>>
    BY <1>10 DEF vars, gatewayVars, tableVars, webhookVars
  <2> QED BY <1>0, <2>1 DEF TypeOK, GatewayTypeOK, Webhooks!WebhookTypeOK
<1> QED BY <1>1, <1>2, <1>3, <1>4, <1>5, <1>6, <1>7, <1>8, <1>9, <1>10 DEF Step

-----------------------------------------------------------------------------
(* What no step takes back.                                                *)

\* What a request asks for does not change.
LEMMA OpsStay ==
    ASSUME TypeOK, Step
    PROVE  /\ \A r \in Requests : req'[r].op = req[r].op
           /\ \A x \in Executions : OpOf(x)' = OpOf(x)
<1>0. req \in [Requests -> Req]
  BY DEF TypeOK, GatewayTypeOK
<1>1. \A r \in Requests : req'[r].op = req[r].op
  <2>1. CASE \E r \in Requests, q \in Req : GatewayStep(r, q) \/ DispatchStep(r, q)
    BY <1>0, <2>1 DEF GatewayStep, DispatchStep
  <2>2. CASE UNCHANGED req
    BY <2>2
  <2> QED
    BY <2>1, <2>2 DEF Step, AnswerStep, FireStep, CommitStep, Notify, Crash, Restart,
                      ChangeSubscription, vars, gatewayVars
<1> QED BY <1>1 DEF OpOf, Executions

\* A change that was made has been made.
LEMMA CommittedGrows ==
    ASSUME Step
    PROVE  committed \subseteq committed'
<1>1. CASE \E x \in Executions, s \in ExecPC : CommitStep(x, s)
  BY <1>1 DEF CommitStep, Record
<1>2. CASE UNCHANGED committed
  BY <1>2
<1> QED
  BY <1>1, <1>2 DEF Step, GatewayStep, DispatchStep, AnswerStep, FireStep, Notify, Crash,
                    Restart, ChangeSubscription, vars, tableVars

\* A subscription that exists keeps its events, and one that was deleted stays so.
LEMMA SubscriptionsStay ==
    ASSUME TypeOK, Step
    PROVE  /\ Webhooks!Deleted \subseteq Webhooks!Deleted'
           /\ \A s \in Subs : subs[s].status # "absent" =>
                 subs'[s].status # "absent" /\ subs'[s].events = subs[s].events
<1>0. subs \in [Subs -> Webhooks!Sub]
  BY DEF TypeOK, Webhooks!WebhookTypeOK
<1>1. CASE UNCHANGED subs
  BY <1>1 DEF Webhooks!Deleted
<1>2. ASSUME NEW s \in Subs, NEW o \in Orgs, ChangeSubscription(s, o)
      PROVE  /\ Webhooks!Deleted \subseteq Webhooks!Deleted'
             /\ \A z \in Subs : subs[z].status # "absent" =>
                   subs'[z].status # "absent" /\ subs'[z].events = subs[z].events
  <2>1. CASE \E E : Webhooks!CreateWebhook(s, o, E)
    <3>1. PICK v : subs' = [subs EXCEPT ![s] = v]
      BY <2>1 DEF Webhooks!CreateWebhook
    <3>2. subs[s].status = "absent"
      BY <2>1 DEF Webhooks!CreateWebhook
    <3> QED BY <1>0, <3>1, <3>2 DEF Webhooks!Deleted
  <2>2. CASE Webhooks!DeleteWebhook(s, o)
    <3> DEFINE v == [subs[s] EXCEPT !.status = "deleted"]
    <3>1. subs' = [subs EXCEPT ![s] = v]
      BY <2>2 DEF Webhooks!DeleteWebhook
    <3>2. v.status = "deleted" /\ v.events = subs[s].events
      <4>1. subs[s] \in Webhooks!Sub
        BY <1>0
      <4> QED BY <4>1 DEF Webhooks!Sub
    <3> HIDE DEF v
    <3> QED BY <1>0, <3>1, <3>2 DEF Webhooks!Deleted
  <2> QED BY <1>2, <2>1, <2>2 DEF ChangeSubscription
<1>3. ASSUME NEW x \in Executions, Notify(x) PROVE UNCHANGED subs
  BY <1>3 DEF Notify, Webhooks!ReadSubscribers, Webhooks!ReadFails, Webhooks!DeliverWebhook
<1>4. CASE \/ \E r \in Requests, q \in Req : GatewayStep(r, q) \/ DispatchStep(r, q)
           \/ \E x \in Executions : \/ AnswerStep(x) \/ FireStep(x)
                                    \/ \E s \in ExecPC : CommitStep(x, s)
           \/ \E s \in Service : Crash(s) \/ Restart(s)
           \/ UNCHANGED vars
  <2>1. UNCHANGED subs
    BY <1>4 DEF GatewayStep, DispatchStep, AnswerStep, FireStep, CommitStep, Crash, Restart,
                vars, webhookVars
  <2> QED BY <1>1, <2>1
<1> QED BY <1>1, <1>2, <1>3, <1>4 DEF Step

-----------------------------------------------------------------------------
(* Executions and what they have changed.                                  *)

\* Executions start in the order of the attempts, a body only in the first.
LEMMA BegunStep ==
    ASSUME TypeOK, Begun, Step
    PROVE  Begun'
<1>0. req \in [Requests -> Req] /\ exec \in [Executions -> ExecPC]
  BY DEF TypeOK, GatewayTypeOK
<1>1. ASSUME NEW r \in Requests, NEW q \in Req, GatewayStep(r, q) PROVE Begun'
  <2>0. req'[r] = q /\ (\A z \in Requests : z # r => req'[z] = req[z]) /\ exec' = exec
    BY <1>0, <1>1 DEF GatewayStep
  <2>1. q.attempt \in 1..2 /\ req[r].attempt \in 1..2
    BY <1>0 DEF Req
  <2>2. ASSUME NEW a \in 1..2, exec[<<r, a>>] # "none"
        PROVE  a <= q.attempt /\ (a = q.attempt => q.pc # "forward")
               /\ (a = 2 => ~ HasBody(q.op))
    <3>1. /\ q.op = req[r].op /\ q.attempt >= req[r].attempt
          /\ q.attempt = req[r].attempt /\ q.pc = "forward" => req[r].pc = "new"
      BY <1>1 DEF GatewayStep
    <3>2. /\ req[r].pc # "new" /\ a <= req[r].attempt
          /\ a = req[r].attempt => req[r].pc # "forward"
          /\ a = 2 => ~ HasBody(req[r].op)
      BY <2>2 DEF Begun
    <3>3. a <= q.attempt /\ (a = q.attempt => a = req[r].attempt)
      BY <2>1, <3>1, <3>2
    <3> QED BY <3>1, <3>2, <3>3
  <2>3. q.pc # "new" /\ q.op \in Ops
    BY <1>1 DEF GatewayStep
  <2> QED BY <2>0, <2>2, <2>3 DEF Begun
<1>2. ASSUME NEW r \in Requests, NEW q \in Req, DispatchStep(r, q) PROVE Begun'
  <2>0. /\ req'[r] = q /\ (\A z \in Requests : z # r => req'[z] = req[z])
        /\ exec' = [exec EXCEPT ![<<r, q.attempt>>] = "start"]
        /\ q.pc = "sent" /\ q.op = req[r].op /\ q.op \in Ops /\ q.attempt = req[r].attempt
        /\ q.attempt = 2 => ~ HasBody(q.op)
    BY <1>0, <1>2 DEF DispatchStep
  <2>1. q.attempt \in 1..2
    BY DEF Req
  <2>2. ASSUME NEW a \in 1..2, exec'[<<r, a>>] # "none"
        PROVE  a <= q.attempt /\ (a = 2 => ~ HasBody(q.op))
    <3>1. CASE a = q.attempt
      BY <2>0, <2>1, <3>1
    <3>2. CASE a # q.attempt
      <4>1. exec[<<r, a>>] # "none"
        BY <1>0, <2>0, <2>2, <3>2 DEF Executions
      <4> QED BY <2>0, <4>1 DEF Begun
    <3> QED BY <3>1, <3>2
  <2>3. ASSUME NEW z \in Requests, z # r, NEW a \in 1..2
        PROVE  exec'[<<z, a>>] = exec[<<z, a>>]
    BY <1>0, <2>0, <2>3 DEF Executions
  <2> QED BY <2>0, <2>2, <2>3 DEF Begun
<1>3. ASSUME UNCHANGED req, \A x \in Executions : exec'[x] # "none" => exec[x] # "none"
      PROVE  Begun'
  <2>1. \A r \in Requests, a \in 1..2 : exec'[<<r, a>>] # "none" => exec[<<r, a>>] # "none"
    BY <1>3 DEF Executions
  <2> QED BY <1>3, <2>1 DEF Begun
<1>4. ASSUME NEW x \in Executions,
             AnswerStep(x) \/ FireStep(x) \/ \E s \in ExecPC : CommitStep(x, s)
      PROVE  Begun'
  <2>1. UNCHANGED req /\ exec[x] # "none" /\ \E s : exec' = [exec EXCEPT ![x] = s]
    BY <1>4 DEF AnswerStep, FireStep, CommitStep, Go, gatewayVars
  <2> QED BY <1>0, <1>3, <2>1
<1>5. ASSUME NEW s \in Service, Crash(s) PROVE Begun'
  BY <1>3, <1>5 DEF Crash
<1>6. CASE \/ \E x \in Executions : Notify(x)
           \/ \E s \in Service : Restart(s)
           \/ \E s \in Subs, o \in Orgs : ChangeSubscription(s, o)
           \/ UNCHANGED vars
  <2>1. UNCHANGED <<req, exec>>
    BY <1>6 DEF Notify, Restart, ChangeSubscription, vars, gatewayVars
  <2> QED BY <1>3, <2>1
<1> QED BY <1>1, <1>2, <1>4, <1>5, <1>6 DEF Step

\* Only the first statement of a handler commits.
LEMMA CommittedStep ==
    ASSUME TypeOK, Committed, Step
    PROVE  Committed'
<1>0. /\ exec \in [Executions -> ExecPC] /\ gone \in [Executions -> SUBSET Subs]
      /\ committed \subseteq Executions
  BY DEF TypeOK
<1>1. /\ \A x \in Executions : OpOf(x)' = OpOf(x)
      /\ Webhooks!Deleted \subseteq Webhooks!Deleted'
  BY OpsStay, SubscriptionsStay
<1>2. ASSUME UNCHANGED <<committed, gone>>,
             \A x \in Executions : exec'[x] \in {exec[x], "killed", "refused", "notFound"}
      PROVE  Committed'
  BY <1>1, <1>2 DEF Committed
<1>3. ASSUME NEW r \in Requests, NEW q \in Req, DispatchStep(r, q) PROVE Committed'
  <2>1. /\ exec' = [exec EXCEPT ![<<r, q.attempt>>] = "start"]
        /\ exec[<<r, q.attempt>>] = "none" /\ UNCHANGED <<committed, gone>>
    BY <1>3 DEF DispatchStep, tableVars
  <2> QED BY <1>0, <1>1, <2>1 DEF Committed
<1>4. ASSUME NEW x \in Executions, AnswerStep(x) PROVE Committed'
  <2>1. PICK s \in {"ok", "refused", "notFound"} :
            /\ exec' = [exec EXCEPT ![x] = s] /\ (s = "ok" => OpOf(x).kind \in Reads)
            /\ UNCHANGED <<committed, gone>>
    BY <1>4 DEF AnswerStep, Go, tableVars
  <2> QED BY <1>0, <1>1, <2>1 DEF Committed
<1>5. ASSUME NEW x \in Executions, FireStep(x) PROVE Committed'
  <2>1. /\ exec' = [exec EXCEPT ![x] = "ok"] /\ exec[x] \in {"addSelect", "removeAudit"}
        /\ UNCHANGED <<committed, gone>>
    BY <1>5 DEF FireStep, Go, tableVars
  <2> QED BY <1>0, <1>1, <2>1 DEF Committed
<1>6. ASSUME NEW x \in Executions, NEW s \in ExecPC, CommitStep(x, s) PROVE Committed'
  <2>1. /\ exec' = [exec EXCEPT ![x] = s] /\ s \in {"addSelect", "removeAudit", "ok"}
        /\ s = "addSelect" => OpOf(x).kind = "add"
        /\ s = "removeAudit" => OpOf(x).kind = "remove"
        /\ committed' = committed \cup {x}
        /\ gone' = [gone EXCEPT ![x] = Webhooks!Deleted]
    BY <1>6 DEF CommitStep, Go, Record
  <2>2. \A y \in Executions : gone'[y] \subseteq Webhooks!Deleted'
    BY <1>0, <1>1, <2>1 DEF Committed
  <2> HIDE DEF Committed
  <2>3. ASSUME NEW y \in Executions
        PROVE  /\ exec'[y] \in {"none", "start"} => y \notin committed'
               /\ exec'[y] = "addSelect" => y \in committed' /\ OpOf(y).kind = "add"
               /\ exec'[y] = "removeAudit" => y \in committed' /\ OpOf(y).kind = "remove"
               /\ exec'[y] = "ok" => y \in committed' \/ OpOf(y).kind \in Reads
    BY <1>0, <2>1 DEF Committed
  <2> QED BY <1>1, <2>2, <2>3 DEF Committed
<1>7. ASSUME NEW s \in Service, Crash(s) PROVE Committed'
  <2>1. \A x \in Executions : exec'[x] \in {exec[x], "killed"}
    BY <1>7 DEF Crash
  <2>2. UNCHANGED <<committed, gone>>
    BY <1>7 DEF Crash, tableVars
  <2> QED BY <1>2, <2>1, <2>2
<1>8. CASE \/ \E r \in Requests, q \in Req : GatewayStep(r, q)
           \/ \E x \in Executions : Notify(x)
           \/ \E s \in Service : Restart(s)
           \/ \E s \in Subs, o \in Orgs : ChangeSubscription(s, o)
           \/ UNCHANGED vars
  <2>1. UNCHANGED <<exec, committed, gone>>
    BY <1>8 DEF GatewayStep, Notify, Restart, ChangeSubscription, vars, tableVars
  <2> QED BY <1>2, <2>1
<1> QED BY <1>3, <1>4, <1>5, <1>6, <1>7, <1>8 DEF Step

-----------------------------------------------------------------------------
(* Notices.                                                                *)

\* An execution that has not answered has not fired, and nothing was received of it.
Quiet(x) ==
    /\ notice[x].pc = "none" /\ notice[x].to = {}
    /\ \A s \in Subs : received[<<x, s>>] = 0

\* Before the answer there is no notice.
LEMMA QuietBefore ==
    ASSUME TypeOK, NoticeInv, NEW x \in Executions, exec[x] \notin {"ok", "killed"}
    PROVE  Quiet(x)
<1>1. \A s \in Subs : received[<<x, s>>] \in Nat
  BY DEF TypeOK, Webhooks!WebhookTypeOK
<1>2. NoticeSound(x) /\ ReceivedSound(x)
  BY DEF NoticeInv
<1> QED BY <1>1, <1>2 DEF NoticeSound, ReceivedSound, Quiet

\* An execution without a notice is sound.
LEMMA QuietIsSound ==
    ASSUME NEW x \in Executions, Quiet(x)
    PROVE  NoticeSound(x) /\ ReceivedSound(x)
BY DEF Quiet, NoticeSound, ReceivedSound

\* Who is due an event stays so, deleted or not.
LEMMA DueStays ==
    ASSUME TypeOK, Step, NEW x \in Executions, NEW s \in Subs, Due(x, s),
           gone'[x] = gone[x]
    PROVE  Due(x, s)'
<1>1. OpOf(x)' = OpOf(x)
  BY OpsStay
<1>2. EventOf(x)' = EventOf(x)
  BY <1>1 DEF EventOf
<1>3. subs'[s].status # "absent" /\ subs'[s].events = subs[s].events
  BY SubscriptionsStay DEF Due
<1> QED BY <1>2, <1>3 DEF Due

\* An execution that no step of its own, or of its notice, touches.
LEMMA Untouched ==
    ASSUME TypeOK, NoticeInv, Step, NEW x \in Executions,
           gone'[x] = gone[x], exec'[x] = exec[x], notice'[x] = notice[x],
           \A s \in Subs : received'[<<x, s>>] = received[<<x, s>>]
    PROVE  NoticeSound(x)' /\ ReceivedSound(x)'
<1>1. OpOf(x)' = OpOf(x) /\ committed \subseteq committed'
  BY OpsStay, CommittedGrows
<1>2. EventOf(x)' = EventOf(x)
  BY <1>1 DEF EventOf
<1>3. \A s \in Subs : Due(x, s) => Due(x, s)'
  BY DueStays
<1>4. NoticeSound(x) /\ ReceivedSound(x)
  BY DEF NoticeInv
<1>5. notice[x].to \subseteq Subs
  <2>1. notice[x] \in Webhooks!Notice
    BY DEF TypeOK, Webhooks!WebhookTypeOK
  <2> QED BY <2>1 DEF Webhooks!Notice
<1>6. NoticeSound(x)'
  BY <1>1, <1>2, <1>3, <1>4, <1>5 DEF NoticeSound
<1>7. ReceivedSound(x)'
  BY <1>1, <1>3, <1>4 DEF ReceivedSound
<1> QED BY <1>6, <1>7

\* The notice of x is read, fails or is sent to one subscriber.
LEMMA NotifyIsSound ==
    ASSUME TypeOK, Committed, NoticeInv, Step, NEW x \in Executions, Notify(x)
    PROVE  NoticeSound(x)' /\ ReceivedSound(x)'
<1>0. /\ subs \in [Subs -> Webhooks!Sub]
      /\ notice \in [Executions -> Webhooks!Notice]
      /\ received \in [Executions \X Subs -> Nat]
  BY DEF TypeOK, Webhooks!WebhookTypeOK
<1>1. /\ UNCHANGED <<exec, gone, committed>>
      /\ OpOf(x)' = OpOf(x)
  BY OpsStay DEF Notify, tableVars
<1>2. EventOf(x)' = EventOf(x)
  BY <1>1 DEF EventOf
<1>3. \A s \in Subs : Due(x, s) => Due(x, s)'
  BY <1>1, DueStays
<1>4. NoticeSound(x) /\ ReceivedSound(x)
  BY DEF NoticeInv
<1>5. \A s \in Subs : received[<<x, s>>] \in Nat
  BY <1>0
<1> DEFINE n == notice[x]
<1>6. n \in Webhooks!Notice /\ n.to \subseteq Subs
  <2>1. n \in Webhooks!Notice
    BY <1>0
  <2> QED BY <2>1 DEF Webhooks!Notice
<1>7. CASE Webhooks!ReadSubscribers(x)
  <2> DEFINE T == Webhooks!Subscribed(n.event)
             m == [n EXCEPT !.pc = "sending", !.to = T]
  <2>1. n.pc = "fired" /\ notice' = [notice EXCEPT ![x] = m] /\ UNCHANGED received
    BY <1>7 DEF Webhooks!ReadSubscribers
  <2>2. m.pc = "sending" /\ m.to = T /\ m.event = n.event
    BY <1>6 DEF Webhooks!Notice
  <2>3. \A s \in T : s \in Subs /\ received[<<x, s>>] = 0 /\ Due(x, s)
    <3>1. n.event = EventOf(x)
      BY <1>4, <2>1 DEF NoticeSound
    <3>2. \A s \in Subs : received[<<x, s>>] = 0
      BY <1>4, <1>5, <2>1 DEF ReceivedSound
    <3>3. gone[x] \subseteq Webhooks!Deleted
      BY DEF Committed
    <3> QED BY <3>1, <3>2, <3>3 DEF Due, Webhooks!Subscribed, Webhooks!Deleted
  <2> HIDE DEF m, T
  <2>4. notice'[x] = m
    BY <1>0, <2>1
  <2>5. NoticeSound(x)'
    BY <1>1, <1>2, <1>3, <1>4, <2>1, <2>2, <2>3, <2>4 DEF NoticeSound
  <2>6. ReceivedSound(x)'
    BY <1>1, <1>3, <1>4, <2>1, <2>2, <2>4 DEF ReceivedSound
  <2> QED BY <2>5, <2>6
<1>8. CASE Webhooks!ReadFails(x)
  <2>1. n.pc = "fired" /\ notice'[x] = Webhooks!NoNotice /\ UNCHANGED received
    BY <1>0, <1>8 DEF Webhooks!ReadFails
  <2>2. \A s \in Subs : received[<<x, s>>] = 0
    BY <1>4, <1>5, <2>1 DEF ReceivedSound
  <2>3. Quiet(x)'
    BY <2>1, <2>2 DEF Quiet, Webhooks!NoNotice
  <2> QED BY <2>1, <2>2 DEF NoticeSound, ReceivedSound, Webhooks!NoNotice
<1>9. ASSUME NEW s \in Subs, Webhooks!DeliverWebhook(x, s)
      PROVE  NoticeSound(x)' /\ ReceivedSound(x)'
  <2> DEFINE m == [n EXCEPT !.to = n.to \ {s}]
  <2>1. s \in n.to /\ notice' = [notice EXCEPT ![x] = m]
    BY <1>9 DEF Webhooks!DeliverWebhook
  <2>2. m.pc = n.pc /\ m.to = n.to \ {s} /\ m.event = n.event
    BY <1>6 DEF Webhooks!Notice
  <2>3. /\ n.pc = "sending" /\ exec[x] = "ok" /\ x \in committed
        /\ OpOf(x).kind \in {"add", "remove"} /\ n.event = EventOf(x)
        /\ \A z \in n.to : received[<<x, z>>] = 0 /\ Due(x, z)
    BY <1>4, <2>1 DEF NoticeSound
  <2>4. \/ received' = received
        \/ received' = [received EXCEPT ![<<x, s>>] = received[<<x, s>>] + 1]
    BY <1>9 DEF Webhooks!DeliverWebhook
  <2>5. /\ \A z \in Subs : z # s => received'[<<x, z>>] = received[<<x, z>>]
        /\ received'[<<x, s>>] \in {0, 1}
    <3>1. received[<<x, s>>] = 0 /\ \A z \in Subs : <<x, z>> \in Executions \X Subs
      BY <2>1, <2>3
    <3> QED BY <1>0, <2>4, <3>1
  <2> HIDE DEF m
  <2>6. notice'[x] = m
    BY <1>0, <2>1
  <2>7. NoticeSound(x)'
    BY <1>1, <1>2, <1>3, <1>6, <2>2, <2>3, <2>5, <2>6 DEF NoticeSound
  <2>8. ReceivedSound(x)'
    <3>1. ASSUME NEW z \in Subs, received'[<<x, z>>] > 0
          PROVE  received'[<<x, z>>] = 1 /\ Due(x, z)
      <4>1. CASE z = s
        BY <2>1, <2>3, <2>5, <3>1, <4>1
      <4>2. CASE z # s
        BY <1>4, <2>5, <3>1, <4>2 DEF ReceivedSound
      <4> QED BY <4>1, <4>2
    <3> QED BY <1>1, <1>3, <2>2, <2>3, <2>6, <3>1 DEF ReceivedSound
  <2> QED BY <2>7, <2>8
<1> QED BY <1>7, <1>8, <1>9 DEF Notify

\* No step breaks what holds of the notices: one case per kind of step.
LEMMA NoticeStep ==
    ASSUME TypeOK, Committed, NoticeInv, Step
    PROVE  NoticeInv'
<1>0. /\ exec \in [Executions -> ExecPC] /\ gone \in [Executions -> SUBSET Subs]
      /\ notice \in [Executions -> Webhooks!Notice]
      /\ received \in [Executions \X Subs -> Nat]
  BY DEF TypeOK, Webhooks!WebhookTypeOK
<1> SUFFICES ASSUME NEW y \in Executions
             PROVE  NoticeSound(y)' /\ ReceivedSound(y)'
  BY DEF NoticeInv
<1> DEFINE Sound == NoticeSound(y)' /\ ReceivedSound(y)'
<1>1. ASSUME Quiet(y), UNCHANGED <<notice, received>>
      PROVE  Sound
  <2>1. Quiet(y)'
    BY <1>1 DEF Quiet
  <2> QED BY <2>1 DEF Quiet, NoticeSound, ReceivedSound
<1>2. ASSUME NEW r \in Requests, NEW q \in Req, DispatchStep(r, q) PROVE Sound
  <2> DEFINE x == <<r, q.attempt>>
  <2>1. /\ exec' = [exec EXCEPT ![x] = "start"] /\ exec[x] = "none"
        /\ UNCHANGED <<notice, received, gone>>
    BY <1>2 DEF DispatchStep, tableVars, webhookVars
  <2> HIDE DEF x
  <2>2. CASE y = x
    BY <1>1, <2>1, <2>2, QuietBefore
  <2>3. CASE y # x
    BY <1>0, <2>1, <2>3, Untouched
  <2> QED BY <2>2, <2>3
<1>3. ASSUME NEW x \in Executions, AnswerStep(x) PROVE Sound
  <2>1. /\ \E s : exec' = [exec EXCEPT ![x] = s]
        /\ exec[x] \in {"start", "addSelect", "removeAudit"}
        /\ UNCHANGED <<notice, received, gone>>
    BY <1>3 DEF AnswerStep, Go, tableVars, webhookVars
  <2>2. CASE y = x
    BY <1>1, <2>1, <2>2, QuietBefore
  <2>3. CASE y # x
    BY <1>0, <2>1, <2>3, Untouched
  <2> QED BY <2>2, <2>3
<1>4. ASSUME NEW x \in Executions, NEW s \in ExecPC, CommitStep(x, s) PROVE Sound
  <2>1. /\ exec' = [exec EXCEPT ![x] = s]
        /\ exec[x] = "start"
        /\ \E G : gone' = [gone EXCEPT ![x] = G]
        /\ UNCHANGED <<notice, received>>
    BY <1>4 DEF CommitStep, Go, Record, webhookVars
  <2>2. CASE y = x
    BY <1>1, <2>1, <2>2, QuietBefore
  <2>3. CASE y # x
    BY <1>0, <2>1, <2>3, Untouched
  <2> QED BY <2>2, <2>3
<1>5. ASSUME NEW x \in Executions, FireStep(x) PROVE Sound
  <2> DEFINE m == [pc |-> "fired", event |-> EventOf(x), to |-> {}]
  <2>1. /\ exec' = [exec EXCEPT ![x] = "ok"]
        /\ exec[x] \in {"addSelect", "removeAudit"}
        /\ OpOf(x).kind \in {"add", "remove"}
        /\ notice' = [notice EXCEPT ![x] = m]
        /\ UNCHANGED <<received, gone, committed>>
    BY <1>5 DEF FireStep, Go, tableVars
  <2>2. CASE y = x
    <3>1. Quiet(x) /\ x \in committed
      BY <2>1, QuietBefore DEF Committed
    <3>2. OpOf(x)' = OpOf(x)
      BY OpsStay
    <3>3. EventOf(x)' = EventOf(x)
      BY <3>2 DEF EventOf
    <3>4. m.pc = "fired" /\ m.event = EventOf(x) /\ m.to = {}
      OBVIOUS
    <3> HIDE DEF m
    <3>5. exec'[x] = "ok" /\ notice'[x] = m
      BY <1>0, <2>1
    <3> QED BY <2>1, <2>2, <3>1, <3>2, <3>3, <3>4, <3>5 DEF Quiet, NoticeSound, ReceivedSound
  <2>3. CASE y # x
    <3> HIDE DEF m
    <3> QED BY <1>0, <2>1, <2>3, Untouched
  <2> QED BY <2>2, <2>3
<1>6. ASSUME NEW x \in Executions, Notify(x) PROVE Sound
  <2>1. CASE y = x
    BY <1>6, <2>1, NotifyIsSound
  <2>2. CASE y # x
    <3>1. UNCHANGED <<exec, gone>>
      BY <1>6 DEF Notify, tableVars
    <3>2. \E m : notice' = [notice EXCEPT ![x] = m]
      BY <1>6 DEF Notify, Webhooks!ReadSubscribers, Webhooks!ReadFails, Webhooks!DeliverWebhook
    <3>3. \/ received' = received
          \/ \E s \in Subs : \E k : received' = [received EXCEPT ![<<x, s>>] = k]
      BY <1>6 DEF Notify, Webhooks!ReadSubscribers, Webhooks!ReadFails, Webhooks!DeliverWebhook
    <3>4. \A s \in Subs : received'[<<y, s>>] = received[<<y, s>>]
      BY <1>0, <2>2, <3>3
    <3> QED BY <1>0, <2>2, <3>1, <3>2, <3>4, Untouched
  <2> QED BY <2>1, <2>2
<1>7. ASSUME NEW s \in Service, Crash(s) PROVE Sound
  <2>0. NoticeSound(y) /\ ReceivedSound(y)
    BY DEF NoticeInv
  <2>1. /\ exec'[y] = IF exec[y] # "none" /\ ServiceOf(OpOf(y)) = s THEN "killed" ELSE exec[y]
        /\ UNCHANGED <<received, gone, committed>>
        /\ IF s = "portal" THEN notice'[y] = Webhooks!NoNotice ELSE UNCHANGED notice
    BY <1>7 DEF Crash, Webhooks!NoticesDie, tableVars
  <2>2. OpOf(y)' = OpOf(y)
    BY OpsStay
  <2>3. \A z \in Subs : Due(y, z) => Due(y, z)'
    BY <2>1, DueStays
  <2>4. CASE exec'[y] = exec[y] /\ notice'[y] = notice[y]
    BY <2>1, <2>4, Untouched
  <2>5. CASE notice'[y] = Webhooks!NoNotice
    <3>1. notice'[y].pc = "none" /\ notice'[y].to = {}
      BY <2>5 DEF Webhooks!NoNotice
    <3>2. NoticeSound(y)'
      BY <3>1 DEF NoticeSound
    <3>3. exec[y] \in {"ok", "killed"} => exec'[y] \in {"ok", "killed"}
      BY <2>1
    <3>4. ReceivedSound(y)'
      BY <2>0, <2>1, <2>2, <2>3, <3>1, <3>3 DEF ReceivedSound
    <3> QED BY <3>2, <3>4
  <2>6. CASE s # "portal" /\ exec'[y] = "killed"
    <3>1. notice'[y] = notice[y]
      BY <2>1, <2>6
    <3>2. CASE ServiceOf(OpOf(y)) # s
      BY <2>1, <2>4, <3>1, <3>2
    <3>3. CASE ServiceOf(OpOf(y)) = s
      <4>1. OpOf(y).kind \notin {"add", "remove"}
        BY <2>6, <3>3 DEF ServiceOf
      <4>2. notice[y].pc = "none" /\ notice[y].to = {} /\ \A z \in Subs : ~ (received[<<y, z>>] > 0)
        BY <2>0, <4>1 DEF NoticeSound, ReceivedSound
      <4> QED BY <2>1, <3>1, <4>2 DEF NoticeSound, ReceivedSound
    <3> QED BY <3>2, <3>3
  <2> QED BY <2>1, <2>4, <2>5, <2>6
<1>8. CASE \/ \E r \in Requests, q \in Req : GatewayStep(r, q)
           \/ \E s \in Service : Restart(s)
           \/ \E s \in Subs, o \in Orgs : ChangeSubscription(s, o)
           \/ UNCHANGED vars
  <2>1. UNCHANGED <<exec, gone, notice, received>>
    BY <1>8 DEF GatewayStep, Restart, ChangeSubscription, Webhooks!CreateWebhook,
                Webhooks!DeleteWebhook, vars, tableVars, webhookVars
  <2> QED BY <2>1, Untouched
<1> QED BY <1>2, <1>3, <1>4, <1>5, <1>6, <1>7, <1>8 DEF Step

-----------------------------------------------------------------------------
(* Removals and keys.                                                      *)

\* A statement leaves what an execution has matched, or moves its number to ITG.
LEMMA RemovedStep ==
    ASSUME TypeOK, Begun, Committed, RemovedInv, Step
    PROVE  RemovedInv'
<1>1. /\ \A x \in Executions : OpOf(x)' = OpOf(x)
      /\ committed \subseteq committed' /\ committed \subseteq Executions
  BY OpsStay, CommittedGrows DEF TypeOK
<1>2. CASE UNCHANGED <<dno, committed>>
  <2>1. \A x \in committed : Removable(OpOf(x))' = Removable(OpOf(x))
    BY <1>1, <1>2 DEF Removable
  <2>2. \A x \in committed : TakenByITG(OpOf(x))' = TakenByITG(OpOf(x))
    BY <1>1, <1>2 DEF TakenByITG
  <2> QED BY <1>1, <1>2, <2>1, <2>2 DEF RemovedInv
<1>3. ASSUME NEW x \in Executions, NEW s \in ExecPC, CommitStep(x, s)
      PROVE  RemovedInv'
  <2> DEFINE P == IF OpOf(x).kind = "ingest" THEN {OpOf(x).phone} ELSE {}
  <2>1. /\ KeepsRows(dno, dno', P)
        /\ OpOf(x).kind = "remove" => Removable(OpOf(x)) # {}
        /\ committed' = committed \cup {x} /\ exec[x] = "start"
    BY <1>3 DEF CommitStep, Record
  <2> SUFFICES ASSUME NEW y \in committed', OpOf(y)'.kind = "remove"
               PROVE  Removable(OpOf(y))' # {} \/ TakenByITG(OpOf(y))'
    BY DEF RemovedInv
  <2> DEFINE op == OpOf(y)
  <2>2. y \in Executions /\ OpOf(y)' = op /\ op.kind = "remove"
    BY <1>1, <2>1
  <2>3. exec[y] # "none"
    BY <2>1, <2>2 DEF Committed
  <2>4. /\ op \in Ops
        /\ op.phone \in Phones /\ op.chan \in Channel /\ op.org \in Orgs
    BY <2>2, <2>3, ExecutionOf, OpsTyped
  <2>5. Removable(op) # {} \/ TakenByITG(op)
    <3>1. CASE y = x
      BY <2>1, <2>2, <3>1
    <3>2. CASE y \in committed
      BY <2>2, <3>2 DEF RemovedInv
    <3> QED BY <2>1, <3>1, <3>2
  <2>6. CASE TakenByITG(op)
    <3>1. PICK z \in committed : OpOf(z).kind = "ingest" /\ OpOf(z).phone = op.phone
      BY <2>6 DEF TakenByITG
    <3>2. z \in committed' /\ OpOf(z)' = OpOf(z)
      BY <1>1
    <3>3. \E v \in committed' : OpOf(v)'.kind = "ingest" /\ OpOf(v)'.phone = OpOf(y)'.phone
      BY <2>2, <3>1, <3>2
    <3> QED BY <3>3 DEF TakenByITG
  <2>7. CASE op.phone \in P
    <3>1. OpOf(x).kind = "ingest" /\ OpOf(x).phone = op.phone
      BY <2>7
    <3>2. x \in committed' /\ OpOf(x)' = OpOf(x)
      BY <1>1, <2>1
    <3>3. \E v \in committed' : OpOf(v)'.kind = "ingest" /\ OpOf(v)'.phone = OpOf(y)'.phone
      BY <2>2, <3>1, <3>2
    <3> QED BY <3>3 DEF TakenByITG
  <2>8. CASE Removable(op) # {} /\ op.phone \notin P
    <3> HIDE DEF P, op
    <3>1. /\ op.phone \in Phones \ P
      BY <2>4, <2>8
    <3>2. RemoveTargets(dno, op.phone, op.chan, op.org)
             \subseteq RemoveTargets(dno', op.phone, op.chan, op.org)
      BY <2>1, <2>4, <3>1, TargetsStay
    <3>3. RemoveTargets(dno', op.phone, op.chan, op.org) # {}
      BY <2>8, <3>2 DEF Removable
    <3>4. Removable(OpOf(y))' = RemoveTargets(dno', op.phone, op.chan, op.org)
      BY <2>2 DEF Removable
    <3> QED BY <3>3, <3>4
  <2> QED BY <2>5, <2>6, <2>7, <2>8
<1>4. CASE \/ \E r \in Requests, q \in Req : GatewayStep(r, q) \/ DispatchStep(r, q)
           \/ \E x \in Executions : AnswerStep(x) \/ FireStep(x) \/ Notify(x)
           \/ \E s \in Service : Crash(s) \/ Restart(s)
           \/ \E s \in Subs, o \in Orgs : ChangeSubscription(s, o)
           \/ UNCHANGED vars
  <2>1. UNCHANGED <<dno, committed>>
    BY <1>4 DEF GatewayStep, DispatchStep, AnswerStep, FireStep, Notify, Crash, Restart,
                ChangeSubscription, vars, tableVars
  <2> QED BY <1>2, <2>1
<1> QED BY <1>3, <1>4 DEF Step

\* Who writes the key is the last to have done so; only a generating execution that
\* has just written it becomes done in that step.
LEMMA KeyStep ==
    ASSUME TypeOK, Committed, KeyInv, Step
    PROVE  KeyInv'
<1>0. exec \in [Executions -> ExecPC]
  BY DEF TypeOK
<1>1. /\ \A x \in Executions : OpOf(x)' = OpOf(x)
      /\ committed \subseteq committed' /\ committed \subseteq Executions
  BY OpsStay, CommittedGrows DEF TypeOK
<1>2. ASSUME NEW x \in Executions, KeyChangedBesides(x) PROVE KeyChangedBesides(x)'
  <2>1. PICK y \in committed \ {x} : OpOf(y).kind \in {"generateKey", "revokeKey"}
    BY <1>2 DEF KeyChangedBesides
  <2>2. y \in committed' \ {x} /\ OpOf(y)'.kind \in {"generateKey", "revokeKey"}
    BY <1>1, <2>1
  <2> QED BY <2>2 DEF KeyChangedBesides
<1>3. ASSUME key' = key,
             \A x \in Executions : exec'[x] = "ok" =>
                exec[x] = "ok" \/ OpOf(x).kind # "generateKey"
      PROVE  KeyInv'
  BY <1>1, <1>2, <1>3 DEF KeyInv
<1>4. ASSUME NEW x \in Executions, NEW s \in ExecPC, CommitStep(x, s)
      PROVE  KeyInv'
  <2>1. /\ exec' = [exec EXCEPT ![x] = s]
        /\ key' # key => OpOf(x).kind \in {"generateKey", "revokeKey"}
        /\ OpOf(x).kind = "generateKey" => key' = x
        /\ committed' = committed \cup {x}
    BY <1>4 DEF CommitStep, Go, Record
  <2>2. ASSUME NEW y \in Executions, exec'[y] = "ok", OpOf(y)'.kind = "generateKey"
        PROVE  key' = y \/ KeyChangedBesides(y)'
    <3>1. CASE y = x
      BY <1>1, <2>1, <2>2, <3>1
    <3>2. CASE y # x /\ key' = key
      <4>1. exec[y] = "ok" /\ OpOf(y).kind = "generateKey"
        BY <1>0, <1>1, <2>1, <2>2, <3>2
      <4> QED BY <1>2, <3>2, <4>1 DEF KeyInv
    <3>3. CASE y # x /\ key' # key
      <4>1. x \in committed' \ {y} /\ OpOf(x)'.kind \in {"generateKey", "revokeKey"}
        BY <1>1, <2>1, <3>3
      <4> QED BY <4>1 DEF KeyChangedBesides
    <3> QED BY <3>1, <3>2, <3>3
  <2> QED BY <2>2 DEF KeyInv
<1>5. ASSUME NEW r \in Requests, NEW q \in Req, DispatchStep(r, q) PROVE KeyInv'
  <2>1. exec' = [exec EXCEPT ![<<r, q.attempt>>] = "start"] /\ key' = key
    BY <1>5 DEF DispatchStep, tableVars
  <2> QED BY <1>0, <1>3, <2>1
<1>6. ASSUME NEW x \in Executions, AnswerStep(x) PROVE KeyInv'
  <2>1. PICK s : exec' = [exec EXCEPT ![x] = s] /\ (s = "ok" => OpOf(x).kind \in Reads)
                 /\ key' = key
    BY <1>6 DEF AnswerStep, Go, tableVars
  <2> QED BY <1>0, <1>3, <2>1 DEF Reads
<1>7. ASSUME NEW x \in Executions, FireStep(x) PROVE KeyInv'
  <2>1. exec' = [exec EXCEPT ![x] = "ok"] /\ OpOf(x).kind \in {"add", "remove"} /\ key' = key
    BY <1>7 DEF FireStep, Go, tableVars
  <2> QED BY <1>0, <1>3, <2>1
<1>8. ASSUME NEW s \in Service, Crash(s) PROVE KeyInv'
  <2>1. \A x \in Executions : exec'[x] \in {exec[x], "killed"}
    BY <1>8 DEF Crash
  <2>2. key' = key
    BY <1>8 DEF Crash, tableVars
  <2> QED BY <1>3, <2>1, <2>2
<1>9. CASE \/ \E r \in Requests, q \in Req : GatewayStep(r, q)
           \/ \E x \in Executions : Notify(x)
           \/ \E s \in Service : Restart(s)
           \/ \E s \in Subs, o \in Orgs : ChangeSubscription(s, o)
           \/ UNCHANGED vars
  <2>1. UNCHANGED <<exec, key>>
    BY <1>9 DEF GatewayStep, Notify, Restart, ChangeSubscription, vars, tableVars
  <2> QED BY <1>3, <2>1
<1> QED BY <1>4, <1>5, <1>6, <1>7, <1>8, <1>9 DEF Step

-----------------------------------------------------------------------------
(* The theorems.                                                           *)

IInv == TypeOK /\ Begun /\ Committed /\ NoticeInv /\ RemovedInv /\ KeyInv

\* The inductive invariant holds at first.
LEMMA IInvInit ==
    ASSUME Init
    PROVE  IInv
<1>0. /\ exec = [x \in Executions |-> "none"] /\ committed = {}
      /\ gone = [x \in Executions |-> {}]
      /\ notice = [x \in Executions |-> Webhooks!NoNotice]
      /\ received = [xs \in Executions \X Subs |-> 0]
  BY DEF Init, Webhooks!WebhookInit
<1>1. PICK plan \in Plans :
         req = [r \in Requests |->
                  [pc |-> "new", op |-> plan[r], attempt |-> 1, answer |-> "none"]]
  BY DEF Init, GatewayInit
<1>2. TypeOK
  <2>1. req \in [Requests -> Req]
    <3>1. \A r \in Requests : plan[r] \in Ops \cup {NoOp}
      BY PlansAskForOps
    <3> QED BY <1>1, <3>1 DEF Req, Answer
  <2>2. up \in [Service -> BOOLEAN] /\ dno \in DNOTable /\ key = NoKey /\ crashes \in 0..MaxCrashes
    BY InstanceParameters DEF Init, GatewayInit
  <2>3. Webhooks!NoNotice \in Webhooks!Notice
    BY DEF Webhooks!NoNotice, Webhooks!Notice, Webhooks!Event
  <2>4. subs \in [Subs -> Webhooks!Sub]
    <3>1. [status |-> "absent", owner |-> NoOrg, events |-> {}] \in Webhooks!Sub
      BY DEF Webhooks!Sub
    <3>2. subs = [s \in Subs |-> [status |-> "absent", owner |-> NoOrg, events |-> {}]]
      BY DEF Init, Webhooks!WebhookInit
    <3> QED BY <3>1, <3>2
  <2>5. notice \in [Executions -> Webhooks!Notice] /\ received \in [Executions \X Subs -> Nat]
    BY <1>0, <2>3
  <2>6. /\ exec \in [Executions -> ExecPC] /\ committed \subseteq Executions
        /\ gone \in [Executions -> SUBSET Subs]
    BY <1>0 DEF ExecPC
  <2> QED
    BY <2>1, <2>2, <2>4, <2>5, <2>6 DEF TypeOK, GatewayTypeOK, Webhooks!WebhookTypeOK
<1>3. \A x \in Executions : exec[x] = "none" /\ gone[x] = {}
  BY <1>0
<1>4. Begun
  <2>1. \A r \in Requests : req[r].pc = "new"
    BY <1>1
  <2>2. \A r \in Requests, a \in 1..2 : exec[<<r, a>>] = "none"
    BY <1>3 DEF Executions
  <2> QED BY <2>1, <2>2 DEF Begun
<1>5. Committed
  BY <1>0, <1>3 DEF Committed
<1>6. NoticeInv
  <2> SUFFICES ASSUME NEW x \in Executions PROVE Quiet(x)
    BY QuietIsSound DEF NoticeInv
  <2>1. notice[x].pc = "none" /\ notice[x].to = {}
    BY <1>0 DEF Webhooks!NoNotice
  <2>2. \A s \in Subs : received[<<x, s>>] = 0
    BY <1>0
  <2> QED BY <2>1, <2>2 DEF Quiet
<1>7. RemovedInv /\ KeyInv
  BY <1>0, <1>3 DEF RemovedInv, KeyInv
<1> QED BY <1>2, <1>4, <1>5, <1>6, <1>7 DEF IInv

\* The inductive invariant is kept by every step.
LEMMA IInvStep ==
    ASSUME IInv, [Next]_vars
    PROVE  IInv'
<1>1. Step
  BY StepKinds DEF IInv
<1> QED
  BY <1>1, TypeStep, BegunStep, CommittedStep, NoticeStep, RemovedStep, KeyStep DEF IInv

\* Hence it always holds.
LEMMA Invariance == Spec => []IInv
<1>1. Init => IInv
  BY IInvInit
<1>2. IInv /\ [Next]_vars => IInv'
  BY IInvStep
<1> QED BY <1>1, <1>2, PTL DEF Spec

\* The variables keep their types, the histories included.
THEOREM TypeCorrect == Spec => []TypeOK
<1>1. IInv => TypeOK
  BY DEF IInv
<1> QED BY <1>1, Invariance, PTL

\* Whatever crashes, breaks off or is sent twice: a subscriber receives an event of
\* an execution at most once, only of a change that was made, and only if its
\* subscription, to that event, was not deleted before the change.
THEOREM NoticesDue == Spec => []NoticesAreDue
<1>1. ASSUME IInv PROVE NoticesAreDue
  <2> SUFFICES ASSUME NEW x \in Executions, NEW s \in Subs, received[<<x, s>>] > 0
               PROVE  /\ received[<<x, s>>] = 1
                      /\ x \in committed /\ s \notin gone[x]
                      /\ OpOf(x).kind = "add" => "dno.added" \in subs[s].events
                      /\ OpOf(x).kind = "remove" => "dno.removed" \in subs[s].events
    BY DEF NoticesAreDue
  <2>1. ReceivedSound(x)
    BY <1>1 DEF IInv, NoticeInv
  <2>2. /\ received[<<x, s>>] = 1 /\ x \in committed
        /\ s \notin gone[x] /\ EventOf(x) \in subs[s].events
    BY <2>1 DEF ReceivedSound, Due
  <2> QED BY <2>2 DEF EventOf
<1>2. IInv => NoticesAreDue
  BY <1>1
<1> QED BY <1>2, Invariance, PTL

\* What a client is told of a change agrees with the tables, although an attempt that
\* broke off may still be running beside the next one.
THEOREM AnswersTrue == Spec => AnswersAreTrue
<1> DEFINE True(r) ==
        LET op == req[r].op IN
        /\ Respond(r) /\ req'[r].answer = "ok" =>
             op.kind \in {"lookup", "bulkLookup"} \/ Current(r) \in committed
        /\ Respond(r) /\ req'[r].answer = "ok" /\ op.kind = "generateKey" =>
             key = Current(r) \/ KeyChangedBesides(Current(r))
        /\ RemoveMisses(<<r, 2>>) => <<r, 1>> \notin committed \/ TakenByITG(op)
        /\ req[r].pc # "new" /\ HasBody(op) => ~ Attempts(r) \subseteq committed'
<1>1. ASSUME IInv, IInv', [Next]_vars, NEW r \in Requests PROVE True(r)
  <2> DEFINE op == req[r].op
             c == Current(r)
  <2>0. req \in [Requests -> Req]
    BY <1>1 DEF IInv, TypeOK, GatewayTypeOK
  <2>1. c \in Executions /\ OpOf(c) = op
    <3>1. req[r].attempt \in 1..2
      BY <2>0 DEF Req
    <3> QED BY <3>1 DEF Current, Executions, OpOf
  <2>2. Respond(r) /\ req'[r].answer = "ok" => exec[c] = "ok"
    <3>1. ASSUME Respond(r) PROVE req'[r].answer = exec[c]
      <4> DEFINE q == [req[r] EXCEPT !.pc = "answered", !.answer = exec[c]]
      <4>1. req' = [req EXCEPT ![r] = q]
        BY <3>1 DEF Respond, PassOn, Reply
      <4>2. q.answer = exec[c]
        <5>1. req[r] \in Req
          BY <2>0
        <5> QED BY <5>1 DEF Req
      <4> HIDE DEF q
      <4> QED BY <2>0, <4>1, <4>2
    <3> QED BY <3>1
  <2>3. Respond(r) /\ req'[r].answer = "ok" =>
             op.kind \in {"lookup", "bulkLookup"} \/ c \in committed
    BY <1>1, <2>1, <2>2 DEF IInv, Committed, Reads
  <2>4. Respond(r) /\ req'[r].answer = "ok" /\ op.kind = "generateKey" =>
             key = c \/ KeyChangedBesides(c)
    BY <1>1, <2>1, <2>2 DEF IInv, KeyInv
  <2>5. RemoveMisses(<<r, 2>>) => <<r, 1>> \notin committed \/ TakenByITG(op)
    <3>1. OpOf(<<r, 1>>) = op /\ OpOf(<<r, 2>>) = op
      BY DEF OpOf
    <3>2. RemoveMisses(<<r, 2>>) => op.kind = "remove" /\ Removable(op) = {}
      BY <3>1 DEF RemoveMisses, At
    <3> QED BY <1>1, <3>1, <3>2 DEF IInv, RemovedInv
  <2>6. HasBody(op) => ~ Attempts(r) \subseteq committed'
    <3>1. Step
      BY <1>1, StepKinds DEF IInv
    <3>2. req'[r].op = op
      BY <1>1, <3>1, OpsStay DEF IInv
    <3>3. <<r, 2>> \in committed' => exec'[<<r, 2>>] # "none"
      <4>1. <<r, 2>> \in Executions
        BY DEF Executions
      <4> QED BY <1>1, <4>1 DEF IInv, Committed
    <3>4. exec'[<<r, 2>>] # "none" => ~ HasBody(req'[r].op)
      <4>1. Begun' /\ 2 \in 1..2
        BY <1>1 DEF IInv
      <4> HIDE DEF op, c, True
      <4> QED BY <4>1, Zenon DEF Begun
    <3>5. <<r, 2>> \in Attempts(r)
      BY DEF Attempts
    <3> QED BY <3>2, <3>3, <3>4, <3>5
  <2> QED BY <2>3, <2>4, <2>5, <2>6
<1>2. IInv /\ IInv' /\ [Next]_vars => [\A r \in Requests : True(r)]_vars
  BY <1>1
<1>3. Spec => [][\A r \in Requests : True(r)]_vars
  <2> HIDE DEF True
  <2> QED BY <1>2, Invariance, PTL DEF Spec
<1> QED BY <1>3 DEF AnswersAreTrue, True
=============================================================================
