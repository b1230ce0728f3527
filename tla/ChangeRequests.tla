--------------------------- MODULE ChangeRequests ---------------------------
(***************************************************************************)
(* A client's request from the gateway to the tables and on to the         *)
(* subscribers: the retrying gateway, the handlers of both services with   *)
(* the DNOService calls behind them, and the webhooks these fire.  A       *)
(* connection may break while the handler goes on: what was attempt one    *)
(* then runs beside attempt two.  The services may crash and are started   *)
(* again.                                                                  *)
(*                                                                         *)
(* Histories: "committed" are the executions whose first statement changed *)
(* the list, "gone" the subscriptions deleted before that.                 *)
(***************************************************************************)
EXTENDS DNOTable, Gateway

CONSTANTS Subs, Dialect,
          NoKey,       \* SQL NULL in api_key
          NewSubs,     \* owners and events of the subscriptions in an instance
          InitTables,  \* dno_numbers contents to start from
          MaxCrashes   \* bound of the crashes in an instance

VARIABLES dno,
          key,   \* organizations.api_key: named by the execution that made it
          exec, subs, notice, received, crashes, committed, gone

Executions == Requests \X (1..2)

Webhooks == INSTANCE WebhookDelivery WITH Owners <- Orgs, NoOwner <- NoOrg

tableVars   == <<dno, key, committed, gone>>
webhookVars == <<subs, notice, received>>
vars == <<gatewayVars, tableVars, webhookVars, exec, crashes>>

ASSUME InstanceParameters ==
    /\ Ops \subseteq [kind : Kind, phone : Phones, chan : Channel, org : Orgs]
    /\ NoKey \notin Requests \X (1..2)
    /\ NewSubs \subseteq [owner : Orgs, events : SUBSET Webhooks!Event]
    /\ InitTables \subseteq DNOTable
    /\ Dialect \in {"sqlite", "postgres"}
    /\ MaxCrashes \in Nat

\* Where a handler stands: the statement after the change, or its answer.
ExecPC == {"none", "start", "addSelect", "removeAudit", "ok", "refused", "notFound",
           "killed"}

TypeOK ==
    /\ GatewayTypeOK
    /\ Webhooks!WebhookTypeOK
    /\ dno \in DNOTable
    /\ key \in Executions \cup {NoKey}
    /\ exec \in [Executions -> ExecPC]
    /\ crashes \in 0..MaxCrashes
    /\ committed \subseteq Executions
    /\ gone \in [Executions -> SUBSET Subs]

Init ==
    /\ GatewayInit
    /\ Webhooks!WebhookInit
    /\ dno \in InitTables
    /\ key = NoKey
    /\ exec = [x \in Executions |-> "none"]
    /\ crashes = 0
    /\ committed = {}
    /\ gone = [x \in Executions |-> {}]

OpOf(x) == req[x[1]].op

Current(r) == <<r, req[r].attempt>>

-----------------------------------------------------------------------------
(* The gateway.                                                            *)

Send(r) ==
    /\ Receive(r)
    /\ UNCHANGED <<tableVars, webhookVars, exec, crashes>>

Dispatch(r) ==
    /\ Forward(r)
    /\ exec' = [exec EXCEPT ![Current(r)] = "start"]
    /\ UNCHANGED <<tableVars, webhookVars, crashes>>

\* Nothing listens, nothing is left to send, or the handler's process died.
Hopeless(r) ==
    \/ req[r].pc = "forward" /\ ~ (Running(r) /\ CanSend(r))
    \/ req[r].pc = "sent" /\ exec[Current(r)] = "killed"

GiveUpAttempt(r) ==
    /\ Hopeless(r)
    /\ AttemptFails(r)
    /\ UNCHANGED <<tableVars, webhookVars, exec, crashes>>

\* The network's doing, at any time; a handler that runs is not stopped by it.
ConnectionBreaks(r) ==
    /\ ~ Hopeless(r)
    /\ AttemptFails(r)
    /\ UNCHANGED <<tableVars, webhookVars, exec, crashes>>

Respond(r) ==
    /\ exec[Current(r)] \in Answer
    /\ PassOn(r, exec[Current(r)])
    /\ UNCHANGED <<tableVars, webhookVars, exec, crashes>>

-----------------------------------------------------------------------------
(* The handlers.  AddNumber and RemoveNumber write their audit entry, whose *)
(* error they ignore, and drop cache entries in the step that fires.       *)

Go(x, s) == exec' = [exec EXCEPT ![x] = s]

\* The statement of x has changed the list or the key: what its history records.
Record(x) ==
    /\ committed' = committed \cup {x}
    /\ gone' = [gone EXCEPT ![x] = Webhooks!Deleted]

Commit(x, table) ==
    /\ dno' = table
    /\ UNCHANGED key
    /\ Record(x)

CommitKey(x, k) ==
    /\ key' = k
    /\ UNCHANGED dno
    /\ Record(x)

At(x, k, s) == exec[x] = s /\ OpOf(x).kind = k

\* An input a check refuses, or an error of the first statement: 400, and
\* 500 from the key handlers for the latter.
Refuse(x) ==
    /\ Go(x, "refused")
    /\ UNCHANGED <<gatewayVars, tableVars, webhookVars, crashes>>

RefuseLookup(x) == At(x, "lookup", "start") /\ Refuse(x)
RefuseBulk(x)   == At(x, "bulkLookup", "start") /\ Refuse(x)
RefuseAdd(x)    == At(x, "add", "start") /\ Refuse(x)
RefuseRemove(x) == At(x, "remove", "start") /\ Refuse(x)
RefuseIngest(x) == At(x, "ingest", "start") /\ Refuse(x)
RefuseKey(x)    == (At(x, "generateKey", "start") \/ At(x, "revokeKey", "start")) /\ Refuse(x)

Lookup(x) ==
    /\ exec[x] = "start"
    /\ OpOf(x).kind \in {"lookup", "bulkLookup"}
    /\ Go(x, "ok")
    /\ UNCHANGED <<gatewayVars, tableVars, webhookVars, crashes>>

AddUpsert(x) ==
    /\ At(x, "add", "start")
    /\ LET op == OpOf(x) IN Commit(x, UpsertSubscriber(dno, op.phone, op.chan, op.org))
    /\ Go(x, "addSelect")
    /\ UNCHANGED <<gatewayVars, webhookVars, crashes>>

\* The id is not read back, for example because the client's connection broke and
\* cancelled the context: 400, and no event.
AddSelectFails(x) == exec[x] = "addSelect" /\ Refuse(x)

AddFinish(x) ==
    /\ exec[x] = "addSelect"
    /\ Go(x, "ok")
    /\ Webhooks!FireWebhooks(x, "dno.added")
    /\ UNCHANGED <<gatewayVars, tableVars, subs, received, crashes>>

\* Mutant of Removable: only rows that are still active count.
Removable_Active(op) ==
    {k \in RemoveTargets(dno, op.phone, op.chan, op.org) : Active(dno, k)}

\* The rows RemoveNumber's UPDATE matches, removed ones included.
Removable(op) == RemoveTargets(dno, op.phone, op.chan, op.org)

RemoveUpdate(x) ==
    /\ At(x, "remove", "start")
    /\ Removable(OpOf(x)) # {}
    /\ Commit(x, Deactivate(dno, Removable(OpOf(x))))
    /\ Go(x, "removeAudit")
    /\ UNCHANGED <<gatewayVars, webhookVars, crashes>>

\* No row matched: "number not found or not authorized to remove".
RemoveMisses(x) ==
    /\ At(x, "remove", "start")
    /\ Removable(OpOf(x)) = {}
    /\ Go(x, "notFound")
    /\ UNCHANGED <<gatewayVars, tableVars, webhookVars, crashes>>

\* The driver could not say how many rows the update took: no event.
RemoveCountFails(x) == exec[x] = "removeAudit" /\ Refuse(x)

RemoveFinish(x) ==
    /\ exec[x] = "removeAudit"
    /\ Go(x, "ok")
    /\ Webhooks!FireWebhooks(x, "dno.removed")
    /\ UNCHANGED <<gatewayVars, tableVars, subs, received, crashes>>

\* IngestITGNumber: the error of reading the id back is ignored, no event.
Ingest(x) ==
    /\ At(x, "ingest", "start")
    /\ LET op == OpOf(x) IN Commit(x, UpsertSystem(dno, op.phone, op.chan, "itg"))
    /\ Go(x, "ok")
    /\ UNCHANGED <<gatewayVars, webhookVars, crashes>>

\* Every execution makes a key of its own, which only its answer shows.
GenerateKey(x) ==
    /\ At(x, "generateKey", "start")
    /\ CommitKey(x, x)
    /\ Go(x, "ok")
    /\ UNCHANGED <<gatewayVars, webhookVars, crashes>>

RevokeKey(x) ==
    /\ At(x, "revokeKey", "start")
    /\ CommitKey(x, NoKey)
    /\ Go(x, "ok")
    /\ UNCHANGED <<gatewayVars, webhookVars, crashes>>

Handle(x) ==
    \/ RefuseLookup(x) \/ RefuseBulk(x) \/ RefuseAdd(x) \/ RefuseRemove(x) \/ RefuseIngest(x)
    \/ Lookup(x)
    \/ AddUpsert(x) \/ AddSelectFails(x) \/ AddFinish(x)
    \/ RemoveUpdate(x) \/ RemoveMisses(x) \/ RemoveCountFails(x) \/ RemoveFinish(x)
    \/ Ingest(x)
    \/ RefuseKey(x) \/ GenerateKey(x) \/ RevokeKey(x)

-----------------------------------------------------------------------------
(* Crashes and subscriptions.                                              *)

Crash(s) ==
    /\ up[s] /\ crashes < MaxCrashes
    /\ up' = [up EXCEPT ![s] = FALSE]
    /\ crashes' = crashes + 1
    /\ exec' = [x \in Executions |->
                   IF exec[x] # "none" /\ ServiceOf(OpOf(x)) = s THEN "killed" ELSE exec[x]]
    /\ IF s = "portal" THEN Webhooks!NoticesDie ELSE UNCHANGED notice
    /\ UNCHANGED <<req, tableVars, subs, received>>

Restart(s) ==
    /\ ~ up[s]
    /\ up' = [up EXCEPT ![s] = TRUE]
    /\ UNCHANGED <<req, tableVars, webhookVars, exec, crashes>>

ChangeSubscription(s, o) ==
    /\ \/ \E new \in NewSubs :
             new.owner = o /\ Webhooks!CreateWebhook(s, o, new.events)
       \/ Webhooks!DeleteWebhook(s, o)
    /\ UNCHANGED <<gatewayVars, tableVars, exec, crashes>>

Notify(x) ==
    /\ \/ Webhooks!ReadSubscribers(x)
       \/ Webhooks!ReadFails(x)
       \/ \E s \in Subs : Webhooks!DeliverWebhook(x, s)
    /\ UNCHANGED <<gatewayVars, tableVars, exec, crashes>>

Next ==
    \/ \E r \in Requests :
          \/ Send(r)
          \/ Dispatch(r) \/ GiveUpAttempt(r) \/ ConnectionBreaks(r) \/ Respond(r)
    \/ \E x \in Executions : Handle(x) \/ Notify(x)
    \/ \E s \in Service : Crash(s) \/ Restart(s)
    \/ \E s \in Subs, o \in Orgs : ChangeSubscription(s, o)

Spec == Init /\ [][Next]_vars

\* The proxy and the handlers go on.  Neither restarts nor luck are needed.
Fairness ==
    /\ \A r \in Requests :
          WF_vars(Dispatch(r)) /\ WF_vars(GiveUpAttempt(r)) /\ WF_vars(Respond(r))
    /\ \A x \in Executions : WF_vars(Handle(x))

LiveSpec == Spec /\ Fairness

-----------------------------------------------------------------------------
(* Properties.                                                             *)

Attempts(r) == {r} \X (1..2)

\* Another request moved the number to the ITG set, where removals leave it alone.
TakenByITG(op) ==
    \E x \in committed : OpOf(x).kind = "ingest" /\ OpOf(x).phone = op.phone

\* Another execution, the same request's abandoned first attempt included, has
\* written the key: the one that is shown need not be the one that is stored.
KeyChangedBesides(x) ==
    \E y \in committed \ {x} : OpOf(y).kind \in {"generateKey", "revokeKey"}

\* What a client is told of a change agrees with the list, although attempts break
\* off with their handlers running: done means that it was applied; a removal that
\* finds no number had not removed it in its first attempt; and an addition is never
\* applied by both, also when the client is told that nobody answered.  A key that is
\* shown is the stored one, or something else has written it.  A refusal says nothing:
\* the change of a request may stand although its answer is an error (AddSelectFails,
\* RemoveCountFails).
AnswersAreTrue ==
    [][\A r \in Requests :
        LET op == req[r].op IN
        /\ Respond(r) /\ req'[r].answer = "ok" =>
             op.kind \in {"lookup", "bulkLookup"} \/ Current(r) \in committed
        /\ Respond(r) /\ req'[r].answer = "ok" /\ op.kind = "generateKey" =>
             key = Current(r) \/ KeyChangedBesides(Current(r))
        /\ RemoveMisses(<<r, 2>>) => <<r, 1>> \notin committed \/ TakenByITG(op)
        /\ req[r].pc # "new" /\ HasBody(op) => ~ Attempts(r) \subseteq committed']_vars

\* A notice tells of a change that is in the table, a subscriber gets it at most
\* once per execution, and not when it had ended its subscription before the change.
NoticesAreDue ==
    \A x \in Executions, s \in Subs :
        received[<<x, s>>] > 0 =>
            /\ received[<<x, s>>] = 1
            /\ x \in committed /\ s \notin gone[x]
            /\ OpOf(x).kind = "add" => "dno.added" \in subs[s].events
            /\ OpOf(x).kind = "remove" => "dno.removed" \in subs[s].events

\* Every request is answered, whatever breaks and whether or not services that
\* crashed come back.
EveryRequestIsAnswered ==
    \A r \in Requests : req[r].pc # "new" ~> req[r].pc = "answered"
=============================================================================
