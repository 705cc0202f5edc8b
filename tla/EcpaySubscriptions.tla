------------------------- MODULE EcpaySubscriptions -------------------------
(***************************************************************************)
(* ECPay's periodic orders (ExecTimes charges, no renewal) and the row that*)
(* follows them: the notification of the first payment, the notification   *)
(* of each later charge, the renewal sweep that polls ECPay, and the       *)
(* owner's cancellation.                                                   *)
(*                                                                         *)
(* Nothing orders the four against each other.  The notifications carry    *)
(* counts, the sweep reads them, and whoever writes last wins.             *)
(***************************************************************************)
EXTENDS Integers, FiniteSets

CONSTANTS
  Trades,            \* MerchantTradeNo, subscriptions.provider_sub_id
  Handlers,          \* notifications being handled
  Sweeps,            \* runs of the renewal sweep in flight
  Cancels,           \* cancelSubscription requests in flight
  ExecTimes,         \* the charges ECPay makes for one order (999 or 99)
  DefaultThreshold,  \* DEFAULT_RENEWAL_THRESHOLD: what the period route uses
  RenewalThreshold,  \* ECPAY_RENEWAL_THRESHOLD: what the sweep uses
  MaxDeclines,       \* bound on the failed payments of one order
  MaxFaults,         \* bound on crashed or failed steps
  None

ASSUME TimesAssumption == ExecTimes \in Nat /\ ExecTimes > 1
ASSUME BoundsAssumption ==
  /\ DefaultThreshold \in Nat
  /\ RenewalThreshold \in Nat
  /\ MaxDeclines \in Nat
  /\ MaxFaults \in Nat

VARIABLES
  (* ECPay *)
  gate,      \* gate[m]: the periodic order at ECPay
  gwsr,      \* gwsr[m]: its authorizations after the first payment
  sent,      \* the notifications ECPay sends
  acked,     \* those answered "1|OK"
  refused,   \* orders of which ECPay refused a cancellation (history)
  (* the database *)
  row,       \* row[m]: the row of m
  events,    \* payment_events.provider_event_id
  (* notifications being handled *)
  pc,        \* the next statement of the handler
  job,       \* the notification it handles
  (* runs of the renewal sweep *)
  phase,     \* its next statement
  todo,      \* the orders left to ask for
  cur,       \* the order asked for
  info,      \* what ECPay answered
  (* cancelSubscription requests *)
  step,      \* its next statement
  sub,       \* the order to cancel
  faults     \* crashes and failed steps so far

ecpayVars == <<gate, gwsr, sent, acked, refused>>
dbVars == <<row, events>>
handlerVars == <<pc, job>>
sweepVars == <<phase, todo, cur, info>>
cancelVars == <<step, sub>>
vars == <<ecpayVars, dbVars, handlerVars, sweepVars, cancelVars, faults>>

-----------------------------------------------------------------------------
\* ExecStatus, TotalSuccessTimes, and whether the last charge failed
Order == [exec: {"none", "running", "terminated", "completed"},
          paid: 0..ExecTimes, failing: BOOLEAN]

\* status, and of provider_meta: total_success_times and needs_renewal
Row == [status: {"none", "active", "incomplete", "past_due", "canceled"},
        total: 0..ExecTimes, flagged: BOOLEAN]
NoRow == [status |-> "none", total |-> 0, flagged |-> FALSE]

\* Authorization 0 is the first payment (ReturnURL), the later ones are the
\* periods' (PeriodReturnURL).
Notice == [trade: Trades, gwsr: Nat, ok: BOOLEAN, total: 0..ExecTimes]
IsFirst(n) == n.gwsr = 0

(* Definitions named Wrong... are mistakes the runs must notice; nothing uses *)
(* them.                                                                    *)

\* The key tells a failed from a successful notification.
WrongKey(n) == <<n.trade, n.gwsr, n.ok>>

\* "return:{MerchantTradeNo}" and "period:{MerchantTradeNo}:{Gwsr}": a failed and
\* a successful first payment have one key.
Key(n) == <<n.trade, n.gwsr>>

Total(total, flagged) == [total |-> total, flagged |-> flagged]

TypeOK ==
  /\ gate \in [Trades -> Order]
  /\ gwsr \in [Trades -> Nat]
  /\ sent \subseteq Notice
  /\ acked \subseteq Notice
  /\ refused \subseteq Trades
  /\ row \in [Trades -> Row]
  /\ events \subseteq (Trades \X Nat)
  /\ pc \in [Handlers -> {"idle", "record", "read", "write", "reply"}]
  /\ job \in [Handlers -> Notice \cup {None}]
  /\ phase \in [Sweeps -> {"idle", "query", "write"}]
  /\ todo \in [Sweeps -> SUBSET Trades]
  /\ cur \in [Sweeps -> Trades \cup {None}]
  /\ info \in [Sweeps -> [total: 0..ExecTimes, flagged: BOOLEAN]]
  /\ step \in [Cancels -> {"idle", "call", "write"}]
  /\ sub \in [Cancels -> Trades \cup {None}]
  /\ faults \in 0..MaxFaults

Init ==
  /\ gate = [m \in Trades |-> [exec |-> "none", paid |-> 0, failing |-> FALSE]]
  /\ gwsr = [m \in Trades |-> 0]
  /\ sent = {}
  /\ acked = {}
  /\ refused = {}
  /\ row = [m \in Trades |-> NoRow]
  /\ events = {}
  /\ pc = [h \in Handlers |-> "idle"]
  /\ job = [h \in Handlers |-> None]
  /\ phase = [w \in Sweeps |-> "idle"]
  /\ todo = [w \in Sweeps |-> {}]
  /\ cur = [w \in Sweeps |-> None]
  /\ info = [w \in Sweeps |-> Total(0, FALSE)]
  /\ step = [c \in Cancels |-> "idle"]
  /\ sub = [c \in Cancels |-> None]
  /\ faults = 0

-----------------------------------------------------------------------------
(* ECPay *)

Send(m, number, ok, total) ==
  /\ sent' = sent \cup {[trade |-> m, gwsr |-> number, ok |-> ok, total |-> total]}
  /\ gwsr' = [gwsr EXCEPT ![m] = number]
  /\ UNCHANGED <<acked, refused, dbVars, handlerVars, sweepVars, cancelVars, faults>>

Declines(m) == Cardinality({n \in sent : n.trade = m /\ ~n.ok})

\* The buyer's card is declined; he may try again.
DeclineFirst(m) ==
  /\ gate[m].exec = "none"
  /\ Declines(m) < MaxDeclines
  /\ Send(m, 0, FALSE, 0)
  /\ UNCHANGED gate

\* The first payment goes through and the order runs.
FirstPayment(m) ==
  /\ gate[m].exec = "none"
  /\ gate' = [gate EXCEPT ![m].exec = "running", ![m].paid = 1]
  /\ Send(m, 0, TRUE, 1)

\* A period is charged; the order is completed by its last charge.
ChargePeriod(m) ==
  /\ gate[m].exec = "running"
  /\ gate[m].paid < ExecTimes
  /\ LET paid == gate[m].paid + 1 IN
       /\ gate' = [gate EXCEPT ![m] =
                     [exec |-> IF paid = ExecTimes THEN "completed" ELSE "running",
                      paid |-> paid, failing |-> FALSE]]
       /\ Send(m, gwsr[m] + 1, TRUE, paid)

\* The charge of a period fails.
DeclinePeriod(m) ==
  /\ gate[m].exec = "running"
  /\ Declines(m) < MaxDeclines
  /\ gate' = [gate EXCEPT ![m].failing = TRUE]
  /\ Send(m, gwsr[m] + 1, FALSE, gate[m].paid)

-----------------------------------------------------------------------------
(* The two notification routes *)

Goto(h, next) == pc' = [pc EXCEPT ![h] = next]

\* ECPay delivers a notification, in any order and as often as it likes.
Receive(h, n) ==
  /\ pc[h] = "idle"
  /\ n \in sent
  /\ Goto(h, "record")
  /\ job' = [job EXCEPT ![h] = n]
  /\ UNCHANGED <<ecpayVars, dbVars, sweepVars, cancelVars, faults>>

\* INSERT INTO payment_events ... ON CONFLICT DO NOTHING; a duplicate is skipped.
RecordEvent(h) ==
  /\ pc[h] = "record"
  /\ events' = events \cup {Key(job[h])}
  /\ Goto(h, IF Key(job[h]) \in events THEN "reply"
             ELSE IF IsFirst(job[h]) THEN "write" ELSE "read")
  /\ UNCHANGED <<ecpayVars, row, job, sweepVars, cancelVars, faults>>

\* The period route writes without looking.
WrongFindRow(h) ==
  /\ pc[h] = "read"
  /\ Goto(h, "write")
  /\ UNCHANGED <<ecpayVars, dbVars, job, sweepVars, cancelVars, faults>>

\* The period route looks for the row; without one there is nothing to update.
FindRow(h) ==
  /\ pc[h] = "read"
  /\ Goto(h, IF row[job[h].trade].status = "none" THEN "reply" ELSE "write")
  /\ UNCHANGED <<ecpayVars, dbVars, job, sweepVars, cancelVars, faults>>

\* The return route updates only.
WrongWriteFirst(h) ==
  /\ pc[h] = "write" /\ IsFirst(job[h])
  /\ LET m == job[h].trade IN
       row' = IF row[m].status # "none"
                THEN [row EXCEPT ![m].status = IF job[h].ok THEN "active" ELSE "incomplete"]
              ELSE row
  /\ Goto(h, "reply")
  /\ UNCHANGED <<ecpayVars, events, job, sweepVars, cancelVars, faults>>

\* The return route: a success upserts the row (CustomField1 and 3 name a user and
\* a plan), a failure marks the row incomplete, if there is one.
WriteFirst(h) ==
  /\ pc[h] = "write" /\ IsFirst(job[h])
  /\ LET m == job[h].trade IN
       row' = IF job[h].ok
                THEN [row EXCEPT ![m] = [status |-> "active", total |-> 1, flagged |-> FALSE]]
              ELSE IF row[m].status # "none"
                THEN [row EXCEPT ![m].status = "incomplete"]
              ELSE row
  /\ Goto(h, "reply")
  /\ UNCHANGED <<ecpayVars, events, job, sweepVars, cancelVars, faults>>

\* Every notification counts one more charge.
WrongWritePeriod(h) ==
  /\ pc[h] = "write" /\ ~IsFirst(job[h])
  /\ LET n == job[h] IN
       row' = [row EXCEPT ![n.trade].status = IF n.ok THEN "active" ELSE "past_due",
                          ![n.trade].total = @ + 1]
  /\ Goto(h, "reply")
  /\ UNCHANGED <<ecpayVars, events, job, sweepVars, cancelVars, faults>>

\* The period route: status, total and flag of the notification, whatever the row
\* says.
WritePeriod(h) ==
  /\ pc[h] = "write" /\ ~IsFirst(job[h])
  /\ LET n == job[h] IN
       row' = [row EXCEPT ![n.trade] =
                 [status |-> IF n.ok THEN "active" ELSE "past_due",
                  total |-> n.total,
                  flagged |-> ExecTimes - n.total < DefaultThreshold]]
  /\ Goto(h, "reply")
  /\ UNCHANGED <<ecpayVars, events, job, sweepVars, cancelVars, faults>>

Forget(h) ==
  /\ Goto(h, "idle")
  /\ job' = [job EXCEPT ![h] = None]

\* processed_at is set, which nothing reads, and "1|OK" answered: ECPay stops
\* retrying.
Reply(h) ==
  /\ pc[h] = "reply"
  /\ acked' = acked \cup {job[h]}
  /\ Forget(h)
  /\ UNCHANGED <<gate, gwsr, sent, refused, dbVars, sweepVars, cancelVars, faults>>

Fault == faults < MaxFaults /\ faults' = faults + 1

\* A statement throws ("0|Error"), or the process dies.
Abort(h) ==
  /\ pc[h] # "idle"
  /\ Fault
  /\ Forget(h)
  /\ UNCHANGED <<ecpayVars, dbVars, sweepVars, cancelVars>>

-----------------------------------------------------------------------------
(* The renewal sweep *)

ActiveRows == {m \in Trades : row[m].status = "active"}

\* runRenewalSweep loads the active rows; without one it returns.
Load(w) ==
  /\ phase[w] = "idle"
  /\ ActiveRows # {}
  /\ phase' = [phase EXCEPT ![w] = "query"]
  /\ todo' = [todo EXCEPT ![w] = ActiveRows]
  /\ UNCHANGED <<ecpayVars, dbVars, handlerVars, cur, info, cancelVars, faults>>

\* The threshold of the period route, and ExecStatus forgotten.
WrongRenewal(order) == Total(order.paid, ExecTimes - order.paid < DefaultThreshold)

\* queryAndCheckRenewal: the count, and whether to renew.
Renewal(order) ==
  Total(order.paid, order.exec = "completed" \/ ExecTimes - order.paid < RenewalThreshold)

\* An answer without fields, ECPay's error, reads as nothing paid out of nothing.
Blank == Total(0, 0 < RenewalThreshold)

\* ECPay is asked for one order; when it cannot be reached the order is left out.
Query(w, m) ==
  /\ phase[w] = "query"
  /\ m \in todo[w]
  /\ todo' = [todo EXCEPT ![w] = @ \ {m}]
  /\ \/ /\ \/ info' = [info EXCEPT ![w] = Renewal(gate[m])] /\ UNCHANGED faults
           \/ info' = [info EXCEPT ![w] = Blank] /\ Fault
        /\ cur' = [cur EXCEPT ![w] = m]
        /\ phase' = [phase EXCEPT ![w] = "write"]
     \/ Fault /\ UNCHANGED <<info, cur, phase>>
  /\ UNCHANGED <<ecpayVars, dbVars, handlerVars, cancelVars>>

\* The totals are not advanced.
WrongPersist(w) ==
  /\ phase[w] = "write"
  /\ row' = [row EXCEPT ![cur[w]].flagged = info[w].flagged]
  /\ cur' = [cur EXCEPT ![w] = None]
  /\ info' = [info EXCEPT ![w] = Total(0, FALSE)]
  /\ phase' = [phase EXCEPT ![w] = "query"]
  /\ UNCHANGED <<ecpayVars, events, handlerVars, todo, cancelVars, faults>>

\* UPDATE subscriptions SET provider_meta: whatever the row has become meanwhile.
Persist(w) ==
  /\ phase[w] = "write"
  /\ row' = [row EXCEPT ![cur[w]].total = info[w].total,
                        ![cur[w]].flagged = info[w].flagged]
  /\ cur' = [cur EXCEPT ![w] = None]
  /\ info' = [info EXCEPT ![w] = Total(0, FALSE)]
  /\ phase' = [phase EXCEPT ![w] = "query"]
  /\ UNCHANGED <<ecpayVars, events, handlerVars, todo, cancelVars, faults>>

Stop(w) ==
  /\ phase' = [phase EXCEPT ![w] = "idle"]
  /\ todo' = [todo EXCEPT ![w] = {}]
  /\ cur' = [cur EXCEPT ![w] = None]
  /\ info' = [info EXCEPT ![w] = Total(0, FALSE)]
  /\ UNCHANGED <<ecpayVars, dbVars, handlerVars, cancelVars>>

Finish(w) ==
  /\ phase[w] = "query"
  /\ todo[w] = {}
  /\ Stop(w)
  /\ UNCHANGED faults

\* The sweep throws or dies; it starts from the beginning next time.
AbortSweep(w) ==
  /\ phase[w] # "idle"
  /\ Fault
  /\ Stop(w)

-----------------------------------------------------------------------------
(* cancelSubscription *)

\* The owner's row is read; a canceled one is refused.
ReadRow(c, m) ==
  /\ step[c] = "idle"
  /\ row[m].status \notin {"none", "canceled"}
  /\ step' = [step EXCEPT ![c] = "call"]
  /\ sub' = [sub EXCEPT ![c] = m]
  /\ UNCHANGED <<ecpayVars, dbVars, handlerVars, sweepVars, faults>>

\* A cancellation at period end is left for later.
WrongCallEcpay(c) ==
  /\ step[c] = "call"
  /\ step' = [step EXCEPT ![c] = "write"]
  /\ UNCHANGED <<ecpayVars, dbVars, handlerVars, sweepVars, sub, faults>>

\* CreditCardPeriodAction: ECPay ends a running order, or refuses; the answer is
\* not looked at.
CallEcpay(c) ==
  /\ step[c] = "call"
  /\ LET m == sub[c] IN
       \/ /\ gate' = [gate EXCEPT ![m].exec = IF @ = "running" THEN "terminated" ELSE @]
          /\ UNCHANGED <<refused, faults>>
       \/ /\ Fault
          /\ refused' = refused \cup {m}
          /\ UNCHANGED gate
  /\ step' = [step EXCEPT ![c] = "write"]
  /\ UNCHANGED <<gwsr, sent, acked, dbVars, handlerVars, sweepVars, sub>>

Return(c) ==
  /\ step' = [step EXCEPT ![c] = "idle"]
  /\ sub' = [sub EXCEPT ![c] = None]

\* The row is canceled, at period end or not.
WriteCancel(c) ==
  /\ step[c] = "write"
  /\ row' = [row EXCEPT ![sub[c]].status = "canceled"]
  /\ Return(c)
  /\ UNCHANGED <<ecpayVars, events, handlerVars, sweepVars, faults>>

\* ECPay cannot be reached, the update throws, or the process dies.
AbortCancel(c) ==
  /\ step[c] # "idle"
  /\ Fault
  /\ Return(c)
  /\ UNCHANGED <<ecpayVars, dbVars, handlerVars, sweepVars>>

-----------------------------------------------------------------------------
EcpayStep(m) == DeclineFirst(m) \/ FirstPayment(m) \/ ChargePeriod(m) \/ DeclinePeriod(m)

HandlerStep(h) ==
  \/ RecordEvent(h)
  \/ FindRow(h)
  \/ WriteFirst(h)
  \/ WritePeriod(h)
  \/ Reply(h)

SweepStep(w) == Load(w) \/ Persist(w) \/ Finish(w) \/ \E m \in Trades : Query(w, m)

CancelStep(c) == CallEcpay(c) \/ WriteCancel(c)

Next ==
  \/ \E m \in Trades : EcpayStep(m)
  \/ \E h \in Handlers, n \in sent : Receive(h, n)
  \/ \E h \in Handlers : HandlerStep(h) \/ Abort(h)
  \/ \E w \in Sweeps : SweepStep(w) \/ AbortSweep(w)
  \/ \E c \in Cancels, m \in Trades : ReadRow(c, m)
  \/ \E c \in Cancels : CancelStep(c) \/ AbortCancel(c)

Spec == Init /\ [][Next]_vars

\* A request that is not killed finishes, ECPay keeps sending what was not answered,
\* and the sweep is scheduled again and again.
Fairness ==
  /\ \A h \in Handlers : WF_vars(HandlerStep(h))
  /\ SF_vars(\E h \in Handlers, n \in sent \ acked : Receive(h, n))
  /\ \A w \in Sweeps : WF_vars(SweepStep(w))
  /\ \A c \in Cancels : WF_vars(CancelStep(c))

FairSpec == Spec /\ Fairness

-----------------------------------------------------------------------------
(* Properties *)

\* A subscription that was paid for never becomes incomplete, in whatever order the
\* declined and the successful first payment arrive (the failure branch of the
\* return route, and the key the two share).
FirstPaymentStands == \A m \in Trades : row[m].status # "incomplete"

\* The row never counts more charges than ECPay made, though old and new counts
\* are written in any order (total_success_times): the remaining periods are never
\* understated except by an empty answer.
CountNeverAhead == \A m \in Trades : row[m].total <= gate[m].paid

\* A row says "canceled" only when ECPay charges no more, or refused to stop
\* (cancelSubscription does not look at the answer).
CanceledIsStopped ==
  \A m \in Trades \ refused : row[m].status = "canceled" => gate[m].exec # "running"

\* A declined attempt uses up the key of the event.
Declined(m) == \E n \in sent : n.trade = m /\ IsFirst(n) /\ ~n.ok

\* Who pays gets a row, unless a step failed or an earlier attempt was declined.
PayerGetsRow ==
  \A m \in Trades :
    gate[m].exec # "none" ~> row[m].status # "none" \/ faults > 0 \/ Declined(m)

\* For the same reason a first payment answered "1|OK", and so not sent again, has
\* its row, or a handler is about to write it.
Writing(h, m) == pc[h] = "write" /\ IsFirst(job[h]) /\ job[h].trade = m

AnsweredPaymentHasRow ==
  faults = 0 => \A n \in acked : n.ok /\ IsFirst(n) /\ ~Declined(n.trade) =>
    row[n.trade].status # "none" \/ \E h \in Handlers : Writing(h, n.trade)

\* The sweep makes good for missed and late notifications of an active order: the
\* count becomes ECPay's, and a short runway is flagged, whatever the period route
\* wrote by its own threshold.
CountCaughtUp == \A m \in Trades : <>[](row[m].status = "active" => row[m].total = gate[m].paid)

RunwayFlagged ==
  \A m \in Trades :
    <>[](row[m].status = "active" /\ ExecTimes - gate[m].paid < RenewalThreshold
           => row[m].flagged)

\* What the interface's comment promises of the scheduled job: the status ends up
\* ECPay's, past due only if the last charge failed.
MissedNotificationsRecovered ==
  \A m \in Trades : <>[](row[m].status = "past_due" => gate[m].failing)

-----------------------------------------------------------------------------
(* The inductive invariant *)

\* Nothing is paid before the order starts; a notification tells of an order that
\* runs, or of a declined first payment, and counts no charge too many.
NoticeInv ==
  /\ \A m \in Trades : gate[m].exec = "none" => gate[m].paid = 0
  /\ \A n \in sent :
       /\ n.ok \/ ~IsFirst(n) => gate[n.trade].exec # "none"
       /\ n.total <= gate[n.trade].paid
       /\ n.ok /\ IsFirst(n) => 1 <= gate[n.trade].paid
  /\ \A h \in Handlers : pc[h] # "idle" => job[h] \in sent

\* One handler at most handles a first payment, and before it there is no row.
FirstInv ==
  /\ \A m \in Trades : row[m].status # "none" => <<m, 0>> \in events
  /\ \A h \in Handlers : pc[h] = "read" => ~IsFirst(job[h])
  /\ \A h \in Handlers : pc[h] = "write" /\ IsFirst(job[h]) =>
       <<job[h].trade, 0>> \in events /\ row[job[h].trade].status = "none"
  /\ \A h, g \in Handlers :
       /\ pc[h] = "write" /\ IsFirst(job[h])
       /\ pc[g] = "write" /\ IsFirst(job[g])
       /\ job[h].trade = job[g].trade
       => h = g

\* What the sweep goes through are rows, and what it is about to write is no more
\* than was charged.
SweepInv ==
  /\ \A w \in Sweeps : \A m \in todo[w] : row[m].status # "none"
  /\ \A w \in Sweeps : phase[w] = "write" =>
       /\ cur[w] \in Trades
       /\ row[cur[w]].status # "none"
       /\ info[w].total <= gate[cur[w]].paid

\* A cancellation is about a row, and writes it after ECPay ended the order or
\* refused to.
CancelInv ==
  /\ \A c \in Cancels : step[c] # "idle" => sub[c] \in Trades /\ row[sub[c]].status # "none"
  /\ \A c \in Cancels : step[c] = "write" =>
       sub[c] \in refused \/ gate[sub[c]].exec # "running"

\* A row, and whoever is about to write one, belongs to an order that started.
OrderInv ==
  /\ \A m \in Trades : row[m].status # "none" => gate[m].exec # "none"
  /\ \A h \in Handlers : pc[h] = "write" /\ ~IsFirst(job[h]) => row[job[h].trade].status # "none"
  /\ SweepInv
  /\ CancelInv

\* What is answered was recorded.
RecordedInv ==
  /\ \A n \in acked : Key(n) \in events
  /\ \A h \in Handlers : pc[h] \notin {"idle", "record"} => Key(job[h]) \in events

\* Unless a step fails or a decline took the key, a recorded first payment has its
\* row, or the handler that recorded it is about to write it.
HeldInv ==
  faults = 0 => \A m \in Trades : <<m, 0>> \in events /\ ~Declined(m) =>
    row[m].status # "none" \/ \E h \in Handlers : Writing(h, m)

IInv ==
  /\ TypeOK
  /\ NoticeInv
  /\ FirstInv
  /\ OrderInv
  /\ RecordedInv
  /\ HeldInv
  /\ FirstPaymentStands
  /\ CountNeverAhead
  /\ CanceledIsStopped
=============================================================================
