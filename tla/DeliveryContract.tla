-------------------------- MODULE DeliveryContract --------------------------
(***************************************************************************)
(* What deliverToEndpoint promises of one event and one endpoint: a few    *)
(* attempts, none after the receiver has accepted one, and at most one row *)
(* in the log, with the outcome: "success" once it was accepted, "failed"  *)
(* when the attempts are used up. (The doc comment at lib/webhooks.ts:102.)*)
(***************************************************************************)
EXTENDS Integers, Sequences

CONSTANTS Deliveries, MaxAttempts

VARIABLES
  posts,    \* POSTs sent
  arrived,  \* those that have reached the receiver
  accepted, \* the sender has seen one accepted
  outcome   \* the rows of the log

contractVars == <<posts, arrived, accepted, outcome>>

Outcomes == {"success", "failed"}

ContractInit ==
  /\ posts = [x \in Deliveries |-> 0]
  /\ arrived = [x \in Deliveries |-> 0]
  /\ accepted = [x \in Deliveries |-> FALSE]
  /\ outcome = [x \in Deliveries |-> <<>>]

Attempt(x) ==
  /\ posts[x] < MaxAttempts
  /\ ~accepted[x]
  /\ outcome[x] = <<>>
  /\ posts' = [posts EXCEPT ![x] = @ + 1]
  /\ UNCHANGED <<arrived, accepted, outcome>>

\* The network is as late as it likes and does not duplicate.
Reach(x) ==
  /\ arrived[x] < posts[x]
  /\ arrived' = [arrived EXCEPT ![x] = @ + 1]
  /\ UNCHANGED <<posts, accepted, outcome>>

SeeAccepted(x) ==
  /\ arrived[x] > 0
  /\ outcome[x] = <<>>
  /\ accepted' = [accepted EXCEPT ![x] = TRUE]
  /\ UNCHANGED <<posts, arrived, outcome>>

Log(x, result) ==
  /\ outcome[x] = <<>>
  /\ result = "success" => accepted[x]
  /\ result = "failed" => ~accepted[x] /\ posts[x] = MaxAttempts
  /\ outcome' = [outcome EXCEPT ![x] = <<result>>]
  /\ UNCHANGED <<posts, arrived, accepted>>

\* Deleting an endpoint deletes its log.
Forget(erased) ==
  /\ outcome' = [x \in Deliveries |-> IF x \in erased THEN <<>> ELSE outcome[x]]
  /\ UNCHANGED <<posts, arrived, accepted>>

ContractNext ==
  \/ \E x \in Deliveries : Attempt(x) \/ Reach(x) \/ SeeAccepted(x)
  \/ \E x \in Deliveries, result \in Outcomes : Log(x, result)
  \/ \E erased \in SUBSET Deliveries : Forget(erased)

Contract == ContractInit /\ [][ContractNext]_contractVars
=============================================================================
