--------------------------- MODULE WebhookDispatch ---------------------------
(***************************************************************************)
(* Outgoing webhooks: the endpoints (actions/webhooks.ts) and the dispatch *)
(* of an event to them with bounded retry (lib/webhooks.ts).               *)
(*                                                                         *)
(* An endpoint is read once, when its delivery begins; it may be switched  *)
(* off or deleted, by hand or with its owner's account, before the last    *)
(* attempt. A POST that the sender has given up may still arrive.          *)
(***************************************************************************)
EXTENDS Integers, FiniteSets, Sequences

CONSTANTS
  Endpoints,
  Events,      \* dispatches: dispatchEvent, dispatchSystemEvent, a test ping
  MaxAttempts, \* MAX_ATTEMPTS
  MaxOutages   \* bound on dead processes and failed inserts

ASSUME AttemptAssumption == MaxAttempts \in Nat \ {0}
ASSUME OutageAssumption == MaxOutages \in Nat

Deliveries == Events \X Endpoints

VARIABLES
  endpoint, \* of each id: not there yet, on, off, deleted
  open,     \* the events that were dispatched
  phase,    \* of each delivery: the next step of deliverToEndpoint
  post,     \* its last POST: under way, or how the receiver answered
  attempts, \* POSTs sent
  delayed,     \* POSTs given up that are still under way
  arrived,  \* POSTs that have reached the receiver
  rows,     \* its rows in webhook_deliveries
  outages,
  accepted, \* history: the deliveries whose sender has seen one accepted
  spoiled   \* history: the deliveries whose process died or whose row could not be written

webhookVars == <<endpoint, open, phase, post, attempts, delayed, arrived, rows, outages, accepted, spoiled>>
sending == <<phase, post, attempts, delayed, arrived>>
faultVars == <<outages, spoiled, accepted>>

-----------------------------------------------------------------------------
EndpointStates == {"none", "on", "off", "deleted"}
Phases == {"none", "ready", "waiting", "success", "failed", "done"}
Posts == {"none", "sent", "accepted", "refused"}

WebhookTypeOK ==
  /\ endpoint \in [Endpoints -> EndpointStates]
  /\ open \subseteq Events
  /\ phase \in [Deliveries -> Phases]
  /\ post \in [Deliveries -> Posts]
  /\ attempts \in [Deliveries -> 0..MaxAttempts]
  /\ delayed \in [Deliveries -> Nat]
  /\ arrived \in [Deliveries -> Nat]
  /\ rows \in [Deliveries -> Seq({"success", "failed"})]
  /\ outages \in 0..MaxOutages
  /\ accepted \subseteq Deliveries
  /\ spoiled \subseteq Deliveries

WebhookInit ==
  /\ endpoint = [e \in Endpoints |-> "none"]
  /\ open = {}
  /\ phase = [x \in Deliveries |-> "none"]
  /\ post = [x \in Deliveries |-> "none"]
  /\ attempts = [x \in Deliveries |-> 0]
  /\ delayed = [x \in Deliveries |-> 0]
  /\ arrived = [x \in Deliveries |-> 0]
  /\ rows = [x \in Deliveries |-> <<>>]
  /\ outages = 0
  /\ accepted = {}
  /\ spoiled = {}

EndpointExists(e) == endpoint[e] \in {"on", "off"}

-----------------------------------------------------------------------------
(* The endpoints: createWebhook, createSystemWebhook, setWebhookActive, ... *)

CreateEndpoint(e) ==
  /\ endpoint[e] = "none"
  /\ endpoint' = [endpoint EXCEPT ![e] = "on"]
  /\ UNCHANGED <<open, sending, rows, faultVars>>

SetActive(e, active) ==
  /\ EndpointExists(e)
  /\ endpoint' = [endpoint EXCEPT ![e] = IF active THEN "on" ELSE "off"]
  /\ UNCHANGED <<open, sending, rows, faultVars>>

\* deleteWebhook, deleteSystemWebhook, or deleteUser of the one who created it.
\* The rows of its deliveries go with it.
DeleteEndpoint(e) ==
  /\ EndpointExists(e)
  /\ endpoint' = [endpoint EXCEPT ![e] = "deleted"]
  /\ rows' = [x \in Deliveries |-> IF x[2] = e THEN <<>> ELSE rows[x]]
  /\ UNCHANGED <<open, sending, faultVars>>

-----------------------------------------------------------------------------
(* Dispatch *)

Start(d, targets) ==
  /\ d \notin open
  /\ open' = open \cup {d}
  /\ phase' = [x \in Deliveries |-> IF x[1] = d /\ x[2] \in targets THEN "ready" ELSE phase[x]]
  /\ UNCHANGED <<endpoint, post, attempts, delayed, arrived, rows, faultVars>>

\* The event goes to the active endpoints that subscribed to it.
DispatchEvent(d) == Start(d, {e \in Endpoints : endpoint[e] = "on"})

\* A test event goes to one endpoint, active or not.
SendTestEvent(d, e) == EndpointExists(e) /\ Start(d, {e})

Post(x) ==
  /\ phase[x] = "ready"
  /\ phase' = [phase EXCEPT ![x] = "waiting"]
  /\ post' = [post EXCEPT ![x] = "sent"]
  /\ attempts' = [attempts EXCEPT ![x] = @ + 1]
  /\ UNCHANGED <<endpoint, open, delayed, arrived, rows, faultVars>>

\* The receiver gets the POST and answers.
Receive(x, answer) ==
  /\ post[x] = "sent"
  /\ post' = [post EXCEPT ![x] = answer]
  /\ arrived' = [arrived EXCEPT ![x] = @ + 1]
  /\ UNCHANGED <<endpoint, open, phase, attempts, delayed, rows, faultVars>>

ReceiveLate(x) ==
  /\ delayed[x] > 0
  /\ delayed' = [delayed EXCEPT ![x] = @ - 1]
  /\ arrived' = [arrived EXCEPT ![x] = @ + 1]
  /\ UNCHANGED <<endpoint, open, phase, post, attempts, rows, faultVars>>

\* A mistake: one attempt too many.
WrongRetry(x) == IF attempts[x] <= MaxAttempts THEN "ready" ELSE "failed"

\* The next attempt after the backoff, or the end.
Retry(x) == IF attempts[x] < MaxAttempts THEN "ready" ELSE "failed"

\* A mistake: whatever the answer, the loop goes on.
WrongAnswered(x) ==
  /\ phase[x] = "waiting"
  /\ post[x] \in {"accepted", "refused"}
  /\ phase' = [phase EXCEPT ![x] =
       IF attempts[x] < MaxAttempts THEN "ready"
       ELSE IF post[x] = "accepted" THEN "success" ELSE "failed"]
  /\ post' = [post EXCEPT ![x] = "none"]
  /\ accepted' = IF post[x] = "accepted" THEN accepted \cup {x} ELSE accepted
  /\ UNCHANGED <<endpoint, open, attempts, delayed, arrived, rows, outages, spoiled>>

\* The answer comes: res.ok ends the loop.
Answered(x) ==
  /\ phase[x] = "waiting"
  /\ post[x] \in {"accepted", "refused"}
  /\ phase' = [phase EXCEPT ![x] = IF post[x] = "accepted" THEN "success" ELSE Retry(x)]
  /\ post' = [post EXCEPT ![x] = "none"]
  /\ accepted' = IF post[x] = "accepted" THEN accepted \cup {x} ELSE accepted
  /\ UNCHANGED <<endpoint, open, attempts, delayed, arrived, rows, outages, spoiled>>

\* A mistake: without the AbortController only a failing network ends the wait.
WrongGiveUp(x) ==
  /\ phase[x] = "waiting"
  /\ post[x] \in {"accepted", "refused"}
  /\ phase' = [phase EXCEPT ![x] = Retry(x)]
  /\ post' = [post EXCEPT ![x] = "none"]
  /\ UNCHANGED <<endpoint, open, attempts, delayed, arrived, rows, faultVars>>

\* The timeout aborts the request, or the network fails: the answer is lost, or
\* the POST is, or it arrives later.
GiveUp(x) ==
  /\ phase[x] = "waiting"
  /\ phase' = [phase EXCEPT ![x] = Retry(x)]
  /\ post' = [post EXCEPT ![x] = "none"]
  /\ \/ post[x] = "sent" /\ delayed' = [delayed EXCEPT ![x] = @ + 1]
     \/ UNCHANGED delayed
  /\ UNCHANGED <<endpoint, open, attempts, arrived, rows, faultVars>>

\* recordDelivery: the insert finds the endpoint, or fails and is swallowed.
RecordDelivery(x) ==
  /\ phase[x] \in {"success", "failed"}
  /\ rows' = IF EndpointExists(x[2]) THEN [rows EXCEPT ![x] = Append(@, phase[x])] ELSE rows
  /\ phase' = [phase EXCEPT ![x] = "done"]
  /\ UNCHANGED <<endpoint, open, post, attempts, delayed, arrived, faultVars>>

-----------------------------------------------------------------------------
(* Faults *)

LoseRow(x) ==
  /\ outages < MaxOutages
  /\ phase[x] \in {"success", "failed"}
  /\ outages' = outages + 1
  /\ spoiled' = spoiled \cup {x}
  /\ phase' = [phase EXCEPT ![x] = "done"]
  /\ UNCHANGED <<endpoint, open, post, attempts, delayed, arrived, rows, accepted>>

\* The process of a dispatch dies; its POSTs may still arrive.
Die(d) ==
  LET dead == {x \in Deliveries : x[1] = d /\ phase[x] \notin {"none", "done"}} IN
  /\ outages < MaxOutages
  /\ dead # {}
  /\ outages' = outages + 1
  /\ spoiled' = spoiled \cup dead
  /\ phase' = [x \in Deliveries |-> IF x \in dead THEN "done" ELSE phase[x]]
  /\ post' = [x \in Deliveries |-> IF x \in dead THEN "none" ELSE post[x]]
  /\ delayed' = [x \in Deliveries |-> IF x \in dead /\ post[x] = "sent" THEN delayed[x] + 1 ELSE delayed[x]]
  /\ UNCHANGED <<endpoint, open, attempts, arrived, rows, accepted>>

Deliver(x) == Post(x) \/ Answered(x) \/ GiveUp(x) \/ RecordDelivery(x)

WebhookNext ==
  \/ \E e \in Endpoints : CreateEndpoint(e) \/ DeleteEndpoint(e)
  \/ \E e \in Endpoints, active \in BOOLEAN : SetActive(e, active)
  \/ \E d \in Events : DispatchEvent(d) \/ Die(d)
  \/ \E d \in Events, e \in Endpoints : SendTestEvent(d, e)
  \/ \E x \in Deliveries : Deliver(x) \/ ReceiveLate(x) \/ LoseRow(x)
  \/ \E x \in Deliveries, answer \in {"accepted", "refused"} : Receive(x, answer)

\* A process that lives goes on: each wait has a timeout. The receiver and the
\* network owe nothing.
WebhookFairness == \A x \in Deliveries : WF_webhookVars(Deliver(x))

WebhookSpec == WebhookInit /\ [][WebhookNext]_webhookVars
FairWebhookSpec == WebhookSpec /\ WebhookFairness

-----------------------------------------------------------------------------
(* Properties *)

\* Every delivery keeps the contract: no attempt after an accepted one, at most
\* MaxAttempts, one row with the true outcome, although the network is late and
\* endpoints vanish.
D == INSTANCE DeliveryContract
       WITH posts <- attempts,
            accepted <- [x \in Deliveries |-> x \in accepted],
            outcome <- rows

ImplementsContract == D!Contract

\* "Records a single delivery row reflecting the final outcome" for every
\* delivery that begins (lib/webhooks.ts:104), whatever the receiver does, unless
\* the endpoint is deleted, the process dies or the insert fails.
DeliveriesEnd ==
  \A x \in Deliveries :
    phase[x] = "ready" ~>
      rows[x] # <<>> \/ endpoint[x[2]] = "deleted" \/ x \in spoiled

-----------------------------------------------------------------------------
(* The inductive invariant *)

\* Every POST sent is under way, has arrived, or was lost.
PostInv ==
  \A x \in Deliveries :
    /\ arrived[x] + delayed[x] + (IF post[x] = "sent" THEN 1 ELSE 0) <= attempts[x]
    /\ post[x] \in {"accepted", "refused"} => arrived[x] > 0
    /\ post[x] # "none" => phase[x] = "waiting"

\* A delivery that has not ended has no row, and its verdict is the right one.
OutcomeInv ==
  \A x \in Deliveries :
    /\ phase[x] \in {"none", "ready"} => attempts[x] < MaxAttempts
    /\ phase[x] # "done" => rows[x] = <<>>
    /\ phase[x] \in {"none", "ready", "waiting", "failed"} => x \notin accepted
    /\ phase[x] = "success" => x \in accepted
    /\ phase[x] = "failed" => attempts[x] = MaxAttempts

\* What was not dispatched has not begun.
OpenInv == \A x \in Deliveries : x[1] \notin open => phase[x] = "none"

WebhookIInv == WebhookTypeOK /\ PostInv /\ OutcomeInv /\ OpenInv
=============================================================================
