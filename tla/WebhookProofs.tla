---------------------------- MODULE WebhookProofs ----------------------------
(***************************************************************************)
(* Proofs about WebhookDispatch, for every set of endpoints and events and *)
(* every bound: what a delivery has done agrees with what it reports, and  *)
(* the dispatch implements DeliveryContract.                               *)
(***************************************************************************)
EXTENDS WebhookDispatch, TLAPS

LEMMA InitEstablishes == WebhookInit => WebhookIInv
  BY AttemptAssumption, OutageAssumption
  DEF WebhookInit, WebhookIInv, WebhookTypeOK, PostInv, OutcomeInv, OpenInv,
      EndpointStates, Phases, Posts

\* The endpoints change no delivery; its rows can only vanish.
LEMMA EndpointStep ==
  ASSUME WebhookIInv, NEW e \in Endpoints,
         CreateEndpoint(e) \/ DeleteEndpoint(e) \/ \E active \in BOOLEAN : SetActive(e, active)
  PROVE  WebhookIInv'
<1>1. /\ endpoint' \in [Endpoints -> EndpointStates]
      /\ UNCHANGED <<open, phase, post, attempts, delayed, arrived, outages, accepted, spoiled>>
  BY DEF CreateEndpoint, DeleteEndpoint, SetActive, sending, faultVars, WebhookIInv,
         WebhookTypeOK, EndpointStates
<1>2. /\ rows' \in [Deliveries -> Seq({"success", "failed"})]
      /\ \A x \in Deliveries : rows'[x] = rows[x] \/ rows'[x] = <<>>
  <2>1. CASE UNCHANGED rows
    BY <2>1 DEF WebhookIInv, WebhookTypeOK
  <2>2. CASE DeleteEndpoint(e)
    <3>1. rows' = [x \in Deliveries |-> IF x[2] = e THEN <<>> ELSE rows[x]]
      BY <2>2 DEF DeleteEndpoint
    <3>2. <<>> \in Seq({"success", "failed"})
      OBVIOUS
    <3> QED
      BY <3>1, <3>2 DEF WebhookIInv, WebhookTypeOK
  <2> QED
    BY <2>1, <2>2 DEF CreateEndpoint, SetActive
<1> QED
  BY <1>1, <1>2 DEF WebhookIInv, WebhookTypeOK, PostInv, OutcomeInv, OpenInv

LEMMA StartStep ==
  ASSUME WebhookIInv, NEW d \in Events, NEW targets, Start(d, targets)
  PROVE  WebhookIInv'
  BY AttemptAssumption
  DEF Start, faultVars, WebhookIInv, WebhookTypeOK, PostInv, OutcomeInv, OpenInv,
      Phases, Deliveries

LEMMA PostStep ==
  ASSUME WebhookIInv, NEW x \in Deliveries, Post(x)
  PROVE  WebhookIInv'
  BY AttemptAssumption
  DEF Post, faultVars, WebhookIInv, WebhookTypeOK, PostInv, OutcomeInv, OpenInv,
      Phases, Posts

LEMMA ReceiveStep ==
  ASSUME WebhookIInv, NEW x \in Deliveries, NEW answer \in {"accepted", "refused"},
         Receive(x, answer)
  PROVE  WebhookIInv'
  BY AttemptAssumption
  DEF Receive, faultVars, WebhookIInv, WebhookTypeOK, PostInv, OutcomeInv, OpenInv, Posts

LEMMA ReceiveLateStep ==
  ASSUME WebhookIInv, NEW x \in Deliveries, ReceiveLate(x)
  PROVE  WebhookIInv'
  BY AttemptAssumption
  DEF ReceiveLate, faultVars, WebhookIInv, WebhookTypeOK, PostInv, OutcomeInv, OpenInv

LEMMA AnsweredStep ==
  ASSUME WebhookIInv, NEW x \in Deliveries, Answered(x)
  PROVE  WebhookIInv'
  BY AttemptAssumption
  DEF Answered, Retry, faultVars, WebhookIInv, WebhookTypeOK, PostInv, OutcomeInv,
      OpenInv, Phases, Posts

LEMMA GiveUpStep ==
  ASSUME WebhookIInv, NEW x \in Deliveries, GiveUp(x)
  PROVE  WebhookIInv'
  BY AttemptAssumption
  DEF GiveUp, Retry, faultVars, WebhookIInv, WebhookTypeOK, PostInv, OutcomeInv,
      OpenInv, Phases, Posts

LEMMA RecordStep ==
  ASSUME WebhookIInv, NEW x \in Deliveries, RecordDelivery(x) \/ LoseRow(x)
  PROVE  WebhookIInv'
<1>1. /\ UNCHANGED <<endpoint, open, post, attempts, delayed, arrived, accepted>>
      /\ phase[x] \in {"success", "failed"}
      /\ phase' = [phase EXCEPT ![x] = "done"]
      /\ outages' \in 0..MaxOutages
      /\ spoiled' \subseteq Deliveries
  BY OutageAssumption
  DEF RecordDelivery, LoseRow, faultVars, WebhookIInv, WebhookTypeOK
<1>2. /\ rows' \in [Deliveries -> Seq({"success", "failed"})]
      /\ \A y \in Deliveries \ {x} : rows'[y] = rows[y]
  <2>1. Append(rows[x], phase[x]) \in Seq({"success", "failed"})
    <3>1. rows[x] \in Seq({"success", "failed"})
      BY DEF WebhookIInv, WebhookTypeOK
    <3> QED
      BY <1>1, <3>1
  <2>2. rows' = [rows EXCEPT ![x] = Append(@, phase[x])] \/ rows' = rows
    BY DEF RecordDelivery, LoseRow
  <2>3. rows \in [Deliveries -> Seq({"success", "failed"})]
    BY DEF WebhookIInv, WebhookTypeOK
  <2> HIDE DEF WebhookIInv
  <2> QED
    BY <2>1, <2>2, <2>3
<1>3. phase \in [Deliveries -> Phases]
  BY DEF WebhookIInv, WebhookTypeOK
<1>4. WebhookTypeOK'
  BY <1>1, <1>2, <1>3 DEF WebhookIInv, WebhookTypeOK, Phases
<1>5. PostInv' /\ OpenInv'
  BY <1>1, <1>3 DEF WebhookIInv, PostInv, OpenInv, Phases
<1>6. OutcomeInv'
  BY <1>1, <1>2, <1>3 DEF WebhookIInv, OutcomeInv, Phases
<1> QED
  BY <1>4, <1>5, <1>6 DEF WebhookIInv

LEMMA DieStep ==
  ASSUME WebhookIInv, NEW d \in Events, Die(d)
  PROVE  WebhookIInv'
<1> DEFINE Died(x) == x[1] = d /\ phase[x] \notin {"none", "done"}
           dead == {x \in Deliveries : Died(x)}
<1>1. /\ UNCHANGED <<endpoint, open, attempts, arrived, rows, accepted>>
      /\ outages' \in 0..MaxOutages
      /\ spoiled' \subseteq Deliveries
  BY OutageAssumption DEF Die, WebhookIInv, WebhookTypeOK
<1>2. /\ phase' \in [Deliveries -> Phases]
      /\ post' \in [Deliveries -> Posts]
      /\ delayed' \in [Deliveries -> Nat]
  BY DEF Die, WebhookIInv, WebhookTypeOK, Phases, Posts
<1>3. \A x \in Deliveries :
        \/ /\ phase'[x] = phase[x] /\ post'[x] = post[x] /\ delayed'[x] = delayed[x]
        \/ /\ phase[x] # "none" /\ phase'[x] = "done" /\ post'[x] = "none"
           /\ delayed'[x] = IF post[x] = "sent" THEN delayed[x] + 1 ELSE delayed[x]
  BY DEF Die, WebhookIInv, WebhookTypeOK
<1>4. WebhookTypeOK'
  BY <1>1, <1>2 DEF WebhookIInv, WebhookTypeOK
<1>5. PostInv'
  <2> SUFFICES ASSUME NEW x \in Deliveries
               PROVE  /\ arrived'[x] + delayed'[x] + (IF post'[x] = "sent" THEN 1 ELSE 0)
                           <= attempts'[x]
                      /\ post'[x] \in {"accepted", "refused"} => arrived'[x] > 0
                      /\ post'[x] # "none" => phase'[x] = "waiting"
    BY DEF PostInv
  <2>1. arrived[x] \in Nat /\ delayed[x] \in Nat /\ attempts[x] \in 0..MaxAttempts
    BY DEF WebhookIInv, WebhookTypeOK
  <2> QED
    BY <1>1, <1>3, <2>1, AttemptAssumption DEF WebhookIInv, PostInv
<1>6. OutcomeInv' /\ OpenInv'
  BY <1>1, <1>3 DEF WebhookIInv, OutcomeInv, OpenInv
<1> QED
  BY <1>4, <1>5, <1>6 DEF WebhookIInv

\* What the counters, the last POST and the phase of a delivery say agrees with
\* its row, in every reachable state.
THEOREM WebhookInductive == WebhookSpec => []WebhookIInv
<1>1. WebhookIInv /\ [WebhookNext]_webhookVars => WebhookIInv'
  <2> SUFFICES ASSUME WebhookIInv, [WebhookNext]_webhookVars
               PROVE  WebhookIInv'
    OBVIOUS
  <2>1. CASE \E e \in Endpoints : CreateEndpoint(e) \/ DeleteEndpoint(e)
    BY <2>1, EndpointStep
  <2>2. CASE \E e \in Endpoints, active \in BOOLEAN : SetActive(e, active)
    BY <2>2, EndpointStep
  <2>3. CASE \E d \in Events : DispatchEvent(d)
    BY <2>3, StartStep DEF DispatchEvent
  <2>4. CASE \E d \in Events : Die(d)
    BY <2>4, DieStep
  <2>5. CASE \E d \in Events, e \in Endpoints : SendTestEvent(d, e)
    BY <2>5, StartStep DEF SendTestEvent
  <2>6. CASE \E x \in Deliveries : Deliver(x) \/ ReceiveLate(x) \/ LoseRow(x)
    BY <2>6, PostStep, AnsweredStep, GiveUpStep, RecordStep, ReceiveLateStep DEF Deliver
  <2>7. CASE \E x \in Deliveries, answer \in {"accepted", "refused"} : Receive(x, answer)
    BY <2>7, ReceiveStep
  <2>8. CASE UNCHANGED webhookVars
    BY <2>8 DEF webhookVars, WebhookIInv, WebhookTypeOK, PostInv, OutcomeInv, OpenInv
  <2> QED
    BY <2>1, <2>2, <2>3, <2>4, <2>5, <2>6, <2>7, <2>8 DEF WebhookNext
<1> QED
  BY InitEstablishes, <1>1, PTL DEF WebhookSpec

-----------------------------------------------------------------------------
(* The refinement *)

LEMMA InitMaps == WebhookInit => D!ContractInit
<1> SUFFICES ASSUME WebhookInit PROVE D!ContractInit
  OBVIOUS
<1>1. [x \in Deliveries |-> x \in accepted] = [x \in Deliveries |-> FALSE]
  <2>1. \A x \in Deliveries : (x \in accepted) = FALSE
    BY DEF WebhookInit
  <2> QED
    BY <2>1, Zenon
<1> QED
  BY <1>1 DEF WebhookInit, D!ContractInit

\* Receiving, answering, giving up and the endpoints but for their deletion
\* change what the contract sees in one delivery at most.
LEMMA StepMaps ==
  ASSUME WebhookIInv, WebhookNext
  PROVE  D!ContractNext \/ UNCHANGED D!contractVars
<1> USE DEF D!contractVars
<1> DEFINE seen == [x \in Deliveries |-> x \in accepted]
<1>1. CASE \E e \in Endpoints : CreateEndpoint(e)
  BY <1>1 DEF CreateEndpoint, sending, faultVars
<1>2. CASE \E e \in Endpoints, active \in BOOLEAN : SetActive(e, active)
  BY <1>2 DEF SetActive, sending, faultVars
<1>3. CASE \E e \in Endpoints : DeleteEndpoint(e)
  <2>1. PICK e \in Endpoints : DeleteEndpoint(e)
    BY <1>3
  <2>2. D!Forget({x \in Deliveries : x[2] = e})
    BY <2>1 DEF DeleteEndpoint, D!Forget, sending, faultVars
  <2> QED
    BY <2>2 DEF D!ContractNext
<1>4. CASE \E d \in Events : \E targets : Start(d, targets)
  BY <1>4 DEF Start, faultVars
<1>5. CASE \E d \in Events : Die(d)
  BY <1>5 DEF Die
<1>6. CASE \E x \in Deliveries : Post(x)
  <2>1. PICK x \in Deliveries : Post(x)
    BY <1>6
  <2>2. D!Attempt(x)
    BY <2>1 DEF Post, D!Attempt, faultVars, WebhookIInv, WebhookTypeOK, OutcomeInv
  <2> QED
    BY <2>2 DEF D!ContractNext
<1>7. CASE \E x \in Deliveries, answer \in {"accepted", "refused"} : Receive(x, answer)
  <2>1. PICK x \in Deliveries, answer \in {"accepted", "refused"} : Receive(x, answer)
    BY <1>7
  <2>2. arrived[x] < attempts[x]
    BY <2>1, AttemptAssumption DEF Receive, WebhookIInv, WebhookTypeOK, PostInv
  <2>3. D!Reach(x)
    BY <2>1, <2>2 DEF Receive, D!Reach, faultVars
  <2> QED
    BY <2>3 DEF D!ContractNext
<1>8. CASE \E x \in Deliveries : ReceiveLate(x)
  <2>1. PICK x \in Deliveries : ReceiveLate(x)
    BY <1>8
  <2>2. arrived[x] < attempts[x]
    <3>1. arrived[x] \in Nat /\ delayed[x] \in Nat /\ attempts[x] \in 0..MaxAttempts
      BY DEF WebhookIInv, WebhookTypeOK
    <3>2. delayed[x] > 0
      BY <2>1 DEF ReceiveLate
    <3>3. arrived[x] + delayed[x] + (IF post[x] = "sent" THEN 1 ELSE 0) <= attempts[x]
      BY DEF WebhookIInv, PostInv
    <3> QED
      BY <3>1, <3>2, <3>3, AttemptAssumption
  <2>3. D!Reach(x)
    BY <2>1, <2>2 DEF ReceiveLate, D!Reach, faultVars
  <2> QED
    BY <2>3 DEF D!ContractNext
<1>9. CASE \E x \in Deliveries : Answered(x)
  <2>1. PICK x \in Deliveries : Answered(x)
    BY <1>9
  <2>2. UNCHANGED <<attempts, arrived, rows>>
    BY <2>1 DEF Answered
  <2>3. CASE post[x] = "accepted"
    <3>1. arrived[x] > 0 /\ rows[x] = <<>>
      BY <2>1, <2>3 DEF Answered, WebhookIInv, PostInv, OutcomeInv
    <3>2. seen' = [seen EXCEPT ![x] = TRUE]
      <4>1. accepted' = accepted \cup {x}
        BY <2>1, <2>3 DEF Answered
      <4>2. \A y \in Deliveries : (y \in accepted') = (IF y = x THEN TRUE ELSE y \in accepted)
        <5> TAKE y \in Deliveries
        <5>1. CASE y = x
          BY <4>1, <5>1
        <5>2. CASE y # x
          <6>1. CASE y \in accepted
            BY <4>1, <5>2, <6>1
          <6>2. CASE y \notin accepted
            BY <4>1, <5>2, <6>2
          <6> QED
            BY <6>1, <6>2
        <5> QED
          BY <5>1, <5>2
      <4>3. seen' = [y \in Deliveries |-> IF y = x THEN TRUE ELSE y \in accepted]
        BY <4>2, Zenon
      <4>4. [seen EXCEPT ![x] = TRUE] = [y \in Deliveries |-> IF y = x THEN TRUE ELSE y \in accepted]
        BY Zenon
      <4> QED
        BY <4>3, <4>4
    <3>3. D!SeeAccepted(x)
      BY <2>2, <3>1, <3>2 DEF D!SeeAccepted
    <3> QED
      BY <3>3 DEF D!ContractNext
  <2>4. CASE post[x] # "accepted"
    BY <2>1, <2>2, <2>4 DEF Answered
  <2> QED
    BY <2>3, <2>4
<1>10. CASE \E x \in Deliveries : GiveUp(x)
  BY <1>10 DEF GiveUp, faultVars
<1>11. CASE \E x \in Deliveries : LoseRow(x)
  BY <1>11 DEF LoseRow
<1>12. CASE \E x \in Deliveries : RecordDelivery(x)
  <2>1. PICK x \in Deliveries : RecordDelivery(x)
    BY <1>12
  <2>2. UNCHANGED <<attempts, arrived, accepted>> /\ phase[x] \in {"success", "failed"}
    BY <2>1 DEF RecordDelivery, faultVars
  <2>3. /\ rows[x] = <<>>
        /\ phase[x] = "success" => x \in accepted
        /\ phase[x] = "failed" => x \notin accepted /\ attempts[x] = MaxAttempts
    BY <2>2 DEF WebhookIInv, OutcomeInv
  <2>4. CASE UNCHANGED rows
    BY <2>2, <2>4
  <2>5. CASE rows' = [rows EXCEPT ![x] = Append(@, phase[x])]
    <3>1. rows' = [rows EXCEPT ![x] = <<phase[x]>>]
      <4>1. Append(<<>>, phase[x]) = <<phase[x]>>
        OBVIOUS
      <4>2. rows \in [Deliveries -> Seq({"success", "failed"})]
        BY DEF WebhookIInv, WebhookTypeOK
      <4> QED
        BY <2>3, <2>5, <4>1, <4>2
    <3>2. D!Log(x, phase[x])
      BY <2>2, <2>3, <3>1 DEF D!Log
    <3> QED
      BY <2>2, <3>2 DEF D!ContractNext, D!Outcomes
  <2> QED
    BY <2>1, <2>4, <2>5 DEF RecordDelivery
<1> QED
  BY <1>1, <1>2, <1>3, <1>4, <1>5, <1>6, <1>7, <1>8, <1>9, <1>10, <1>11, <1>12
  DEF WebhookNext, Deliver, DispatchEvent, SendTestEvent

\* Every delivery keeps the contract, for any number of endpoints, events,
\* attempts and outages (deliverToEndpoint, lib/webhooks.ts:107).
THEOREM DispatchImplementsContract == WebhookSpec => ImplementsContract
<1>1. WebhookIInv /\ [WebhookNext]_webhookVars => [D!ContractNext]_(D!contractVars)
  <2>1. CASE UNCHANGED webhookVars
    BY <2>1 DEF webhookVars, D!contractVars
  <2> QED
    BY <2>1, StepMaps
<1> QED
  BY InitMaps, <1>1, WebhookInductive, PTL DEF WebhookSpec, ImplementsContract, D!Contract
=============================================================================
