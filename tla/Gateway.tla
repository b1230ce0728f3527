------------------------------ MODULE Gateway ------------------------------
(***************************************************************************)
(* The gateway's retrying reverse proxy: which service a request goes to,  *)
(* and the at most two attempts RoundTrip makes to have it answered.  The  *)
(* services behind it are the modules that use this one.                   *)
(*                                                                         *)
(* net/http's transport closes the request body when an attempt fails, a   *)
(* failed dial included, so a second attempt of a request with a body has  *)
(* nothing left to send and reaches no handler.                            *)
(***************************************************************************)
EXTENDS Naturals

CONSTANTS Requests,  \* requests clients send
          Ops,       \* what they may ask for: records with a field "kind"
          NoOp,      \* nothing: the request is not made
          Plans      \* what each request asks for, in an instance's cases

VARIABLES req,  \* where the gateway stands with each request
          up    \* is each service's server running

gatewayVars == <<req, up>>

Service == {"query", "portal"}
Kind    == {"lookup", "bulkLookup", "add", "remove", "ingest", "generateKey", "revokeKey"}

\* Two routes of the query service; every other API call goes to the portal.
ServiceOf(op) == IF op.kind \in {"lookup", "bulkLookup"} THEN "query" ELSE "portal"

\* POST with JSON, as against GET, DELETE and a POST with parameters in the URL.
HasBody(op) == op.kind \in {"bulkLookup", "add", "ingest"}

\* What a handler answers; "unavailable" is the gateway's own 502.
Answer == {"ok", "refused", "notFound"}

\* "forward" before an attempt, "sent" while a service has it.
Req == [pc : {"new", "forward", "sent", "answered"}, op : Ops \cup {NoOp},
        attempt : 1..2, answer : Answer \cup {"none", "unavailable"}]

ASSUME PlansAskForOps == Plans \subseteq [Requests -> Ops \cup {NoOp}]

GatewayTypeOK ==
    /\ req \in [Requests -> Req]
    /\ up \in [Service -> BOOLEAN]

GatewayInit ==
    /\ \E plan \in Plans :
         req = [r \in Requests |->
                  [pc |-> "new", op |-> plan[r], attempt |-> 1, answer |-> "none"]]
    /\ up = [s \in Service |-> TRUE]

Running(r) == up[ServiceOf(req[r].op)]

\* Mutant of CanSend: the body can be sent again.
CanSend_Again(r) == TRUE

\* There is something to send: the first attempt took the body with it.
CanSend(r) == req[r].attempt = 1 \/ ~ HasBody(req[r].op)

Receive(r) ==
    /\ req[r].pc = "new" /\ req[r].op # NoOp
    /\ req' = [req EXCEPT ![r].pc = "forward"]
    /\ UNCHANGED up

\* The inner RoundTrip gets the request to its service.
Forward(r) ==
    /\ req[r].pc = "forward"
    /\ Running(r) /\ CanSend(r)
    /\ req' = [req EXCEPT ![r].pc = "sent"]
    /\ UNCHANGED up

Reply(r, a) == [req EXCEPT ![r] = [@ EXCEPT !.pc = "answered", !.answer = a]]

\* Mutant of AttemptFails: the attempts before the last count from zero.
AttemptFails_OneMore(r) ==
    /\ req[r].pc \in {"forward", "sent"}
    /\ req' = IF req[r].attempt <= 2
              THEN [req EXCEPT ![r] = [@ EXCEPT !.pc = "forward", !.attempt = @ + 1]]
              ELSE Reply(r, "unavailable")
    /\ UNCHANGED up

\* Mutant of AttemptFails: an attempt that broke off is repeated until it works.
AttemptFails_Forever(r) ==
    /\ req[r].pc \in {"forward", "sent"}
    /\ req' = [req EXCEPT ![r] = [@ EXCEPT !.pc = "forward", !.attempt = 2]]
    /\ UNCHANGED up

\* An error of the inner RoundTrip, whatever it is: again after 100 ms, and after
\* the second one the ErrorHandler's 502.
AttemptFails(r) ==
    /\ req[r].pc \in {"forward", "sent"}
    /\ req' = IF req[r].attempt = 1
              THEN [req EXCEPT ![r] = [@ EXCEPT !.pc = "forward", !.attempt = 2]]
              ELSE Reply(r, "unavailable")
    /\ UNCHANGED up

\* The service's answer, of whatever status, goes to the client.
PassOn(r, a) ==
    /\ req[r].pc = "sent"
    /\ req' = Reply(r, a)
    /\ UNCHANGED up
=============================================================================
