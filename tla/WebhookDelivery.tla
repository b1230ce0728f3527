-------------------------- MODULE WebhookDelivery --------------------------
(***************************************************************************)
(* Webhook subscriptions and the notices of events: CreateWebhook,         *)
(* DeleteWebhook, FireWebhooks and deliverWebhook of FeaturesService.  An  *)
(* event is a goroutine that reads the subscriptions and starts one        *)
(* goroutine for each that matches; each of those makes one attempt, so    *)
(* notices arrive in any order or not at all, and none survives the        *)
(* process.  Nothing restricts an event to subscriptions of its            *)
(* organization.                                                           *)
(*                                                                         *)
(* An event is named by the execution that fires it.  "received" is a      *)
(* history of what reached the subscribers.                                *)
(***************************************************************************)
EXTENDS Naturals

CONSTANTS Subs,        \* webhook_subscriptions.id, each used once
          Owners,      \* organizations
          NoOwner,     \* the row does not exist yet
          Executions,  \* what may fire an event
          Dialect      \* "sqlite" or "postgres"

VARIABLES subs,     \* webhook_subscriptions
          notice,   \* the goroutines of each event
          received  \* how often each subscriber was sent each event

webhookVars == <<subs, notice, received>>

Event == {"dno.added", "dno.removed"}

Sub == [status : {"absent", "active", "deleted"}, owner : Owners \cup {NoOwner},
        events : SUBSET Event]

\* "fired" before the SELECT, then the subscribers still to be sent to.
Notice == [pc : {"none", "fired", "sending"}, event : Event, to : SUBSET Subs]

NoNotice == [pc |-> "none", event |-> "dno.added", to |-> {}]

WebhookTypeOK ==
    /\ subs \in [Subs -> Sub]
    /\ notice \in [Executions -> Notice]
    /\ received \in [Executions \X Subs -> Nat]

WebhookInit ==
    /\ subs = [s \in Subs |-> [status |-> "absent", owner |-> NoOwner, events |-> {}]]
    /\ notice = [x \in Executions |-> NoNotice]
    /\ received = [xs \in Executions \X Subs |-> 0]

\* No events named means both.
CreateWebhook(s, o, E) ==
    /\ subs[s].status = "absent"
    /\ subs' = [subs EXCEPT ![s] = [status |-> "active", owner |-> o,
                                    events |-> IF E = {} THEN Event ELSE E]]
    /\ UNCHANGED <<notice, received>>

\* WHERE id = $1 AND org_id = $2.
DeleteWebhook(s, o) ==
    /\ subs[s].status = "active" /\ subs[s].owner = o
    /\ subs' = [subs EXCEPT ![s].status = "deleted"]
    /\ UNCHANGED <<notice, received>>

Deleted == {s \in Subs : subs[s].status = "deleted"}

FireWebhooks(x, e) == notice' = [notice EXCEPT ![x] = [pc |-> "fired", event |-> e, to |-> {}]]

\* Mutant of Subscribed: deleted subscriptions are only marked.
Subscribed_Marked(e) == {s \in Subs : e \in subs[s].events}

Subscribed(e) == {s \in Subs : subs[s].status = "active" /\ e \in subs[s].events}

\* WHERE active = 1: PostgreSQL, where the column is BOOLEAN, refuses to compare.
ReadSubscribers(x) ==
    /\ notice[x].pc = "fired"
    /\ Dialect = "sqlite"
    /\ notice' = [notice EXCEPT ![x] = [@ EXCEPT !.pc = "sending",
                                                 !.to = Subscribed(notice[x].event)]]
    /\ UNCHANGED <<subs, received>>

\* The SELECT's error, or its ten seconds are over: the event is gone.
ReadFails(x) ==
    /\ notice[x].pc = "fired"
    /\ notice' = [notice EXCEPT ![x] = NoNotice]
    /\ UNCHANGED <<subs, received>>

\* Mutant of DeliverWebhook: an attempt without an answer is made again.
DeliverWebhook_Retried(x, s) ==
    /\ s \in notice[x].to
    /\ received[<<x, s>>] < 2
    /\ received' = [received EXCEPT ![<<x, s>>] = @ + 1]
    /\ \/ notice' = [notice EXCEPT ![x].to = @ \ {s}]
       \/ UNCHANGED notice
    /\ UNCHANGED subs

\* One POST.  It arrives or not; deliverWebhook tries no second time either way.
DeliverWebhook(x, s) ==
    /\ s \in notice[x].to
    /\ \/ received' = [received EXCEPT ![<<x, s>>] = @ + 1]
       \/ UNCHANGED received
    /\ notice' = [notice EXCEPT ![x].to = @ \ {s}]
    /\ UNCHANGED subs

\* The portal's process ends with all its goroutines.
NoticesDie == notice' = [x \in Executions |-> NoNotice]
=============================================================================
