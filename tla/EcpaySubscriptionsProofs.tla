---------------------- MODULE EcpaySubscriptionsProofs ----------------------
(***************************************************************************)
(* The safety properties of EcpaySubscriptions, for any numbers of orders, *)
(* handlers, sweeps, cancellations, charges, declines and faults, and for  *)
(* any two thresholds.                                                     *)
(*                                                                         *)
(* IInv is inductive because three things only grow: an order never goes   *)
(* back to not started nor from ended to running, a count at ECPay never   *)
(* falls, and a row never disappears.  Whoever holds an old count or has   *)
(* seen a row therefore writes nothing too large.                          *)
(***************************************************************************)
EXTENDS EcpaySubscriptions, TLAPS

\* How an order develops, and what a notification says of it.
Grows(old, new) ==
  /\ old.paid <= new.paid
  /\ old.exec # "none" => new.exec # "none"
  /\ new.exec = "running" => old.exec \in {"none", "running"}
  /\ new.exec = "none" => new.paid = 0

Tells(number, ok, total, order) ==
  /\ ok \/ number # 0 => order.exec # "none"
  /\ total <= order.paid
  /\ ok /\ number = 0 => 1 <= order.paid

\* What ECPay does to an order, and the notification it sends of it.
LEMMA EcpayChange ==
  ASSUME TypeOK, NoticeInv, NEW m \in Trades, EcpayStep(m)
  PROVE  \E new \in Order, number \in Nat, ok \in BOOLEAN, total \in 0..ExecTimes :
           /\ gate' = [gate EXCEPT ![m] = new]
           /\ Send(m, number, ok, total)
           /\ Grows(gate[m], new)
           /\ Tells(number, ok, total, new)
<1> USE TimesAssumption
<1>1. /\ gate[m] \in Order
      /\ gwsr[m] + 1 \in Nat /\ gwsr[m] + 1 # 0
      /\ gate[m].exec = "none" => gate[m].paid = 0
  BY DEF TypeOK, NoticeInv
<1>2. /\ gate[m].exec \in {"none", "running", "terminated", "completed"}
      /\ gate[m].paid \in 0..ExecTimes /\ gate[m].failing \in BOOLEAN
  BY <1>1 DEF Order
<1>3. 0 \in Nat /\ 0 \in 0..ExecTimes /\ 1 \in 0..ExecTimes
  OBVIOUS
<1>4. CASE DeclineFirst(m)
  <2>1. gate' = [gate EXCEPT ![m] = gate[m]] /\ Send(m, 0, FALSE, 0)
    BY <1>4 DEF DeclineFirst, TypeOK
  <2>2. Grows(gate[m], gate[m]) /\ Tells(0, FALSE, 0, gate[m])
    BY <1>1, <1>2 DEF Grows, Tells
  <2> QED
    BY <1>1, <1>3, <2>1, <2>2
<1>5. CASE FirstPayment(m)
  <2> DEFINE new == [gate[m] EXCEPT !.exec = "running", !.paid = 1]
  <2>1. new \in Order /\ new.exec = "running" /\ new.paid = 1
    BY <1>1, <1>2, <1>3 DEF Order
  <2>2. gate' = [gate EXCEPT ![m] = new] /\ Send(m, 0, TRUE, 1)
    BY <1>5 DEF FirstPayment
  <2>3. gate[m].exec = "none"
    BY <1>5 DEF FirstPayment
  <2> HIDE DEF new
  <2>4. Grows(gate[m], new) /\ Tells(0, TRUE, 1, new)
    BY <1>1, <2>1, <2>3 DEF Grows, Tells
  <2> QED
    BY <1>3, <2>1, <2>2, <2>4
<1>6. CASE ChargePeriod(m)
  <2> DEFINE paid == gate[m].paid + 1
             new == [exec |-> IF paid = ExecTimes THEN "completed" ELSE "running",
                     paid |-> paid, failing |-> FALSE]
  <2>1. gate[m].exec = "running" /\ paid \in 0..ExecTimes /\ gate[m].paid <= paid
    BY <1>2, <1>6 DEF ChargePeriod
  <2>2. new \in Order /\ new.paid = paid /\ new.exec # "none"
    BY <2>1 DEF Order
  <2>3. gate' = [gate EXCEPT ![m] = new] /\ Send(m, gwsr[m] + 1, TRUE, paid)
    BY <1>6 DEF ChargePeriod
  <2> HIDE DEF new, paid
  <2>4. Grows(gate[m], new) /\ Tells(gwsr[m] + 1, TRUE, paid, new)
    BY <1>1, <2>1, <2>2 DEF Grows, Tells
  <2> QED
    BY <1>1, <2>1, <2>2, <2>3, <2>4
<1>7. CASE DeclinePeriod(m)
  <2> DEFINE new == [gate[m] EXCEPT !.failing = TRUE]
  <2>1. new \in Order /\ new.exec = gate[m].exec /\ new.paid = gate[m].paid
    BY <1>1 DEF Order
  <2>2. gate' = [gate EXCEPT ![m] = new] /\ Send(m, gwsr[m] + 1, FALSE, gate[m].paid)
    BY <1>7 DEF DeclinePeriod
  <2>3. gate[m].exec = "running"
    BY <1>7 DEF DeclinePeriod
  <2> HIDE DEF new
  <2>4. Grows(gate[m], new) /\ Tells(gwsr[m] + 1, FALSE, gate[m].paid, new)
    BY <1>1, <1>2, <2>1, <2>3 DEF Grows, Tells
  <2> QED
    BY <1>1, <1>2, <2>1, <2>2, <2>4
<1> QED
  BY <1>4, <1>5, <1>6, <1>7 DEF EcpayStep

\* A cancellation at most ends an order.
LEMMA CallChange ==
  ASSUME TypeOK, NoticeInv, OrderInv, NEW c \in Cancels, CallEcpay(c)
  PROVE  /\ sub[c] \in Trades
         /\ \E new \in Order :
              /\ gate' = [gate EXCEPT ![sub[c]] = new]
              /\ Grows(gate[sub[c]], new)
              /\ sub[c] \in refused' \/ new.exec # "running"
         /\ refused \subseteq refused' /\ refused' \subseteq Trades
         /\ faults' \in 0..MaxFaults
         /\ step' = [step EXCEPT ![c] = "write"]
         /\ UNCHANGED <<gwsr, sent, acked, dbVars, handlerVars, sweepVars, sub>>
<1> DEFINE m == sub[c]
           new == [gate[m] EXCEPT !.exec = IF @ = "running" THEN "terminated" ELSE @]
<1>1. m \in Trades /\ gate[m] \in Order /\ (gate[m].exec = "none" => gate[m].paid = 0)
  BY DEF TypeOK, NoticeInv, OrderInv, SweepInv, CancelInv, CallEcpay
<1>2. /\ gate[m].paid \in 0..ExecTimes
      /\ gate[m].exec \in {"none", "running", "terminated", "completed"}
  BY <1>1 DEF Order
<1>3. CASE gate' = [gate EXCEPT ![m].exec = IF @ = "running" THEN "terminated" ELSE @]
           /\ UNCHANGED <<refused, faults>>
  <2>1. /\ new \in Order /\ new.paid = gate[m].paid
        /\ new.exec = (IF gate[m].exec = "running" THEN "terminated" ELSE gate[m].exec)
    BY <1>1, <1>2 DEF Order
  <2>2. gate' = [gate EXCEPT ![m] = new]
    BY <1>3
  <2> HIDE DEF new
  <2>3. Grows(gate[m], new) /\ new.exec # "running"
    BY <1>1, <1>2, <2>1, TimesAssumption DEF Grows
  <2> QED
    BY <1>1, <1>3, <2>1, <2>2, <2>3 DEF CallEcpay, TypeOK
<1>4. CASE Fault /\ refused' = refused \cup {m} /\ UNCHANGED gate
  <2>1. gate' = [gate EXCEPT ![m] = gate[m]]
    BY <1>4 DEF TypeOK
  <2>2. Grows(gate[m], gate[m])
    BY <1>1, <1>2, TimesAssumption DEF Grows
  <2>3. faults' \in 0..MaxFaults
    BY <1>4, BoundsAssumption DEF Fault, TypeOK
  <2> QED
    BY <1>1, <1>4, <2>1, <2>2, <2>3 DEF CallEcpay, TypeOK
<1> QED
  BY <1>3, <1>4 DEF CallEcpay

\* An order only grows, whatever the step.
LEMMA OrdersGrow ==
  ASSUME TypeOK, NoticeInv, OrderInv, [Next]_vars
  PROVE  /\ gate' \in [Trades -> Order]
         /\ \A m \in Trades : Grows(gate[m], gate'[m])
         /\ refused \subseteq refused'
<1>1. ASSUME NEW m \in Trades PROVE Grows(gate[m], gate[m])
  <2>1. gate[m].paid \in 0..ExecTimes
    BY DEF TypeOK, Order
  <2> QED
    BY <2>1, TimesAssumption DEF Grows, NoticeInv
<1>2. ASSUME NEW m \in Trades, EcpayStep(m)
      PROVE  gate' \in [Trades -> Order] /\ refused' = refused
             /\ \A r \in Trades : Grows(gate[r], gate'[r])
  <2>1. PICK new \in Order, number \in Nat, ok \in BOOLEAN, total \in 0..ExecTimes :
          gate' = [gate EXCEPT ![m] = new] /\ Send(m, number, ok, total) /\ Grows(gate[m], new)
    BY <1>2, EcpayChange
  <2> QED
    BY <1>1, <2>1 DEF TypeOK, Send
<1>3. ASSUME NEW c \in Cancels, CallEcpay(c)
      PROVE  gate' \in [Trades -> Order] /\ refused \subseteq refused'
             /\ \A r \in Trades : Grows(gate[r], gate'[r])
  <2>1. PICK new \in Order : gate' = [gate EXCEPT ![sub[c]] = new] /\ Grows(gate[sub[c]], new)
    BY <1>3, CallChange
  <2>2. sub[c] \in Trades /\ refused \subseteq refused'
    BY <1>3, CallChange
  <2> QED
    BY <1>1, <2>1, <2>2 DEF TypeOK
<1>4. ASSUME UNCHANGED <<gate, refused>>
      PROVE  gate' \in [Trades -> Order] /\ refused' = refused
             /\ \A r \in Trades : Grows(gate[r], gate'[r])
  BY <1>1, <1>4 DEF TypeOK
<1>5. (\E m \in Trades : EcpayStep(m)) \/ (\E c \in Cancels : CallEcpay(c)) \/ UNCHANGED <<gate, refused>>
  BY DEF Next, vars, ecpayVars, Receive, HandlerStep, RecordEvent, FindRow, WriteFirst,
         WritePeriod, Reply, Abort, SweepStep, Load, Persist, Finish, Query, AbortSweep,
         Stop, ReadRow, CancelStep, WriteCancel, AbortCancel
<1> QED
  BY <1>2, <1>3, <1>4, <1>5

-----------------------------------------------------------------------------
(* The four ways to write a row *)

\* The first payment makes the row; a declined one finds none.
LEMMA FirstRow ==
  ASSUME TypeOK, NoticeInv, FirstInv, NEW h \in Handlers, WriteFirst(h)
  PROVE  /\ job[h] \in sent /\ job[h].trade \in Trades
         /\ row' \in [Trades -> Row]
         /\ \A m \in Trades \ {job[h].trade} : row'[m] = row[m]
         /\ LET m == job[h].trade IN
              \/ row'[m] = row[m]
              \/ job[h].ok /\ row'[m].status = "active" /\ row'[m].total = 1
<1> DEFINE m == job[h].trade
           new == [status |-> "active", total |-> 1, flagged |-> FALSE]
<1>1. job[h] \in sent /\ m \in Trades /\ row[m].status = "none"
  BY DEF TypeOK, NoticeInv, FirstInv, WriteFirst, Notice
<1>2. new \in Row /\ new.status = "active" /\ new.total = 1
  BY TimesAssumption DEF Row
<1> HIDE DEF new
<1>3. (row' = [row EXCEPT ![m] = new] /\ job[h].ok) \/ row' = row
  BY <1>1 DEF WriteFirst, new
<1> QED
  BY <1>1, <1>2, <1>3 DEF TypeOK

\* A period's notification writes its own count.
LEMMA PeriodRow ==
  ASSUME TypeOK, NoticeInv, NEW h \in Handlers, WritePeriod(h)
  PROVE  /\ job[h] \in sent /\ job[h].trade \in Trades
         /\ row' \in [Trades -> Row]
         /\ \A m \in Trades \ {job[h].trade} : row'[m] = row[m]
         /\ row'[job[h].trade].status \in {"active", "past_due"}
         /\ row'[job[h].trade].total = job[h].total
<1> DEFINE n == job[h]
           new == [status |-> IF n.ok THEN "active" ELSE "past_due", total |-> n.total,
                   flagged |-> ExecTimes - n.total < DefaultThreshold]
<1>1. n \in sent /\ n \in Notice /\ n.trade \in Trades /\ n.total \in 0..ExecTimes
  BY DEF TypeOK, NoticeInv, WritePeriod, Notice
<1>2. (ExecTimes - n.total < DefaultThreshold) \in BOOLEAN
  OBVIOUS
<1>3. new \in Row /\ new.status \in {"active", "past_due"} /\ new.total = n.total
  BY <1>1, <1>2 DEF Row
<1>4. row' = [row EXCEPT ![n.trade] = new]
  BY DEF WritePeriod
<1> HIDE DEF new
<1> QED
  BY <1>1, <1>3, <1>4 DEF TypeOK

\* The sweep writes the count ECPay answered and leaves the status.
LEMMA SweepRow ==
  ASSUME TypeOK, OrderInv, NEW w \in Sweeps, Persist(w)
  PROVE  /\ cur[w] \in Trades
         /\ row' \in [Trades -> Row]
         /\ \A m \in Trades \ {cur[w]} : row'[m] = row[m]
         /\ row'[cur[w]].status = row[cur[w]].status
         /\ row'[cur[w]].total = info[w].total
<1> DEFINE m == cur[w]
           new == [row[m] EXCEPT !.total = info[w].total, !.flagged = info[w].flagged]
<1>1. m \in Trades /\ row[m] \in Row /\ info[w].total \in 0..ExecTimes /\ info[w].flagged \in BOOLEAN
  BY DEF TypeOK, OrderInv, SweepInv, CancelInv, Persist
<1>2. new \in Row /\ new.status = row[m].status /\ new.total = info[w].total
  BY <1>1 DEF Row
<1>3. row' = [row EXCEPT ![m] = new]
  BY DEF Persist
<1> HIDE DEF new
<1> QED
  BY <1>1, <1>2, <1>3 DEF TypeOK

\* A cancellation writes the status only.
LEMMA CancelRow ==
  ASSUME TypeOK, OrderInv, NEW c \in Cancels, WriteCancel(c)
  PROVE  /\ sub[c] \in Trades
         /\ row' \in [Trades -> Row]
         /\ \A m \in Trades \ {sub[c]} : row'[m] = row[m]
         /\ row'[sub[c]].status = "canceled"
         /\ row'[sub[c]].total = row[sub[c]].total
<1> DEFINE m == sub[c]
           new == [row[m] EXCEPT !.status = "canceled"]
<1>1. m \in Trades /\ row[m] \in Row
  BY DEF TypeOK, OrderInv, SweepInv, CancelInv, WriteCancel
<1>2. new \in Row /\ new.status = "canceled" /\ new.total = row[m].total
  BY <1>1 DEF Row
<1>3. row' = [row EXCEPT ![m] = new]
  BY DEF WriteCancel
<1> HIDE DEF new
<1> QED
  BY <1>1, <1>2, <1>3 DEF TypeOK

\* Nothing else writes one.
LEMMA RowWriters ==
  ASSUME [Next]_vars
  PROVE  \/ \E h \in Handlers : WriteFirst(h) \/ WritePeriod(h)
         \/ \E w \in Sweeps : Persist(w)
         \/ \E c \in Cancels : WriteCancel(c)
         \/ row' = row
  BY DEF Next, vars, dbVars, EcpayStep, DeclineFirst, FirstPayment, ChargePeriod,
         DeclinePeriod, Send, Receive, HandlerStep, RecordEvent, FindRow, Reply, Abort,
         SweepStep, Load, Finish, Query, AbortSweep, Stop, ReadRow, CancelStep,
         CallEcpay, AbortCancel

\* What a step may do to a row.
LEMMA RowChange ==
  ASSUME TypeOK, NoticeInv, FirstInv, OrderInv, [Next]_vars
  PROVE  /\ row' \in [Trades -> Row]
         /\ \A m \in Trades :
              \/ row'[m] = row[m]
              \/ \E h \in Handlers :
                   /\ WriteFirst(h) /\ job[h] \in sent /\ job[h].trade = m /\ job[h].ok
                   /\ row'[m].status = "active" /\ row'[m].total = 1
              \/ \E h \in Handlers :
                   /\ WritePeriod(h) /\ job[h] \in sent /\ job[h].trade = m
                   /\ row'[m].status \in {"active", "past_due"}
                   /\ row'[m].total = job[h].total
              \/ \E w \in Sweeps :
                   /\ Persist(w) /\ cur[w] = m
                   /\ row'[m].status = row[m].status
                   /\ row'[m].total = info[w].total
              \/ \E c \in Cancels :
                   /\ WriteCancel(c) /\ sub[c] = m
                   /\ row'[m].status = "canceled"
                   /\ row'[m].total = row[m].total
<1>1. CASE \E h \in Handlers : WriteFirst(h)
  BY <1>1, FirstRow
<1>2. CASE \E h \in Handlers : WritePeriod(h)
  BY <1>2, PeriodRow
<1>3. CASE \E w \in Sweeps : Persist(w)
  BY <1>3, SweepRow
<1>4. CASE \E c \in Cancels : WriteCancel(c)
  BY <1>4, CancelRow
<1>5. CASE row' = row
  BY <1>5 DEF TypeOK
<1> QED
  BY <1>1, <1>2, <1>3, <1>4, <1>5, RowWriters

\* A row never disappears, and only a successful first payment makes one.
LEMMA RowsStay ==
  ASSUME TypeOK, NoticeInv, FirstInv, OrderInv, [Next]_vars, NEW m \in Trades
  PROVE  /\ row[m].status # "none" => row'[m].status # "none"
         /\ row[m].status = "none" /\ row'[m].status # "none" =>
              \E h \in Handlers : WriteFirst(h) /\ job[h] \in sent /\ job[h].trade = m /\ job[h].ok
<1>1. \A h \in Handlers : WritePeriod(h) => row[job[h].trade].status # "none"
  BY DEF OrderInv, SweepInv, CancelInv, WritePeriod
<1>2. \A w \in Sweeps : Persist(w) => row[cur[w]].status # "none"
  BY DEF OrderInv, SweepInv, CancelInv, Persist
<1>3. \A c \in Cancels : WriteCancel(c) => row[sub[c]].status # "none"
  BY DEF OrderInv, SweepInv, CancelInv, WriteCancel
<1> QED
  BY <1>1, <1>2, <1>3, RowChange

-----------------------------------------------------------------------------
(* The parts of the invariant *)

\* Every step keeps the types.
LEMMA TypeStep ==
  ASSUME TypeOK, NoticeInv, FirstInv, OrderInv, [Next]_vars
  PROVE  TypeOK'
<1> USE DEF ecpayVars, dbVars, handlerVars, sweepVars, cancelVars
<1>1. gate' \in [Trades -> Order] /\ row' \in [Trades -> Row]
  BY OrdersGrow, RowChange
<1>2. ASSUME NEW m \in Trades, EcpayStep(m) PROVE TypeOK'
  <2>1. PICK number \in Nat, ok \in BOOLEAN, total \in 0..ExecTimes : Send(m, number, ok, total)
    BY <1>2, EcpayChange
  <2>2. [trade |-> m, gwsr |-> number, ok |-> ok, total |-> total] \in Notice
    BY DEF Notice
  <2> QED
    BY <1>1, <2>1, <2>2 DEF TypeOK, Send
<1>3. ASSUME NEW h \in Handlers, NEW n \in sent, Receive(h, n) PROVE TypeOK'
  BY <1>1, <1>3 DEF TypeOK, Receive, Goto
<1>4. ASSUME NEW h \in Handlers, RecordEvent(h) PROVE TypeOK'
  <2>1. Key(job[h]) \in Trades \X Nat
    BY <1>4 DEF TypeOK, NoticeInv, RecordEvent, Notice, Key
  <2> QED
    BY <1>1, <1>4, <2>1 DEF TypeOK, RecordEvent, Goto
<1>5. ASSUME NEW h \in Handlers, FindRow(h) \/ WriteFirst(h) \/ WritePeriod(h) PROVE TypeOK'
  BY <1>1, <1>5 DEF TypeOK, FindRow, WriteFirst, WritePeriod, Goto
<1>6. ASSUME NEW h \in Handlers, Reply(h) PROVE TypeOK'
  <2>1. job[h] \in Notice
    BY <1>6 DEF TypeOK, NoticeInv, Reply
  <2> QED
    BY <1>1, <1>6, <2>1 DEF TypeOK, Reply, Goto, Forget
<1>7. ASSUME NEW h \in Handlers, Abort(h) PROVE TypeOK'
  BY <1>1, <1>7, BoundsAssumption DEF TypeOK, Abort, Fault, Goto, Forget
<1>8. ASSUME NEW w \in Sweeps, Load(w) PROVE TypeOK'
  BY <1>1, <1>8 DEF TypeOK, Load, ActiveRows
<1>9. ASSUME NEW w \in Sweeps, NEW m \in Trades, Query(w, m) PROVE TypeOK'
  <2>1. gate[m].paid \in 0..ExecTimes /\ 0 \in 0..ExecTimes
    BY TimesAssumption DEF TypeOK, Order
  <2>2. /\ Renewal(gate[m]) \in [total: 0..ExecTimes, flagged: BOOLEAN]
        /\ Blank \in [total: 0..ExecTimes, flagged: BOOLEAN]
    BY <2>1 DEF Renewal, Blank, Total
  <2>3. faults' \in 0..MaxFaults
    BY <1>9, BoundsAssumption DEF TypeOK, Query, Fault
  <2>4. /\ todo' \in [Sweeps -> SUBSET Trades]
        /\ info' \in [Sweeps -> [total: 0..ExecTimes, flagged: BOOLEAN]]
    BY <1>9, <2>2 DEF TypeOK, Query
  <2>5. /\ cur' \in [Sweeps -> Trades \cup {None}]
        /\ phase' \in [Sweeps -> {"idle", "query", "write"}]
    BY <1>9 DEF TypeOK, Query
  <2> QED
    BY <1>1, <1>9, <2>3, <2>4, <2>5 DEF TypeOK, Query
<1>10. Total(0, FALSE) \in [total: 0..ExecTimes, flagged: BOOLEAN]
  BY TimesAssumption DEF Total
<1>11. ASSUME NEW w \in Sweeps, Persist(w) PROVE TypeOK'
  BY <1>1, <1>10, <1>11 DEF TypeOK, Persist
<1>12. ASSUME NEW w \in Sweeps, Finish(w) \/ AbortSweep(w) PROVE TypeOK'
  <2>1. Stop(w)
    BY <1>12 DEF Finish, AbortSweep
  <2>2. faults' \in 0..MaxFaults
    BY <1>12, BoundsAssumption DEF TypeOK, Finish, AbortSweep, Fault
  <2> QED
    BY <1>1, <1>10, <2>1, <2>2 DEF TypeOK, Stop
<1>13. ASSUME NEW c \in Cancels, NEW m \in Trades, ReadRow(c, m) PROVE TypeOK'
  BY <1>1, <1>13 DEF TypeOK, ReadRow
<1>14. ASSUME NEW c \in Cancels, CallEcpay(c) PROVE TypeOK'
  <2>1. refused' \subseteq Trades /\ faults' \in 0..MaxFaults
        /\ step' = [step EXCEPT ![c] = "write"]
        /\ UNCHANGED <<gwsr, sent, acked, dbVars, handlerVars, sweepVars, sub>>
    BY <1>14, CallChange
  <2> QED
    BY <1>1, <2>1 DEF TypeOK
<1>15. ASSUME NEW c \in Cancels, WriteCancel(c) \/ AbortCancel(c) PROVE TypeOK'
  BY <1>1, <1>15, BoundsAssumption DEF TypeOK, WriteCancel, AbortCancel, Return, Fault
<1>16. CASE UNCHANGED vars
  BY <1>16 DEF TypeOK, vars
<1> QED
  BY <1>2, <1>3, <1>4, <1>5, <1>6, <1>7, <1>8, <1>9, <1>11, <1>12, <1>13, <1>14, <1>15, <1>16
     DEF Next, HandlerStep, SweepStep, CancelStep

\* Every step keeps what is known of the notifications.
LEMMA NoticeStep ==
  ASSUME TypeOK, NoticeInv, FirstInv, OrderInv, [Next]_vars
  PROVE  NoticeInv'
<1> USE DEF ecpayVars, dbVars, handlerVars, sweepVars, cancelVars
<1>1. \A m \in Trades : gate'[m].exec = "none" => gate'[m].paid = 0
  BY OrdersGrow DEF Grows
<1>2. ASSUME NEW n \in sent
      PROVE  Tells(n.gwsr, n.ok, n.total, gate'[n.trade])
  <2>1. n.trade \in Trades /\ n.total \in 0..ExecTimes
    BY DEF TypeOK, Notice
  <2>2. gate[n.trade].paid \in 0..ExecTimes /\ gate'[n.trade].paid \in 0..ExecTimes
    BY <2>1, OrdersGrow DEF TypeOK, Order
  <2>3. Grows(gate[n.trade], gate'[n.trade])
    BY <2>1, OrdersGrow
  <2> QED
    BY <2>1, <2>2, <2>3, TimesAssumption DEF NoticeInv, Tells, Grows, IsFirst
<1>3. ASSUME NEW m \in Trades, EcpayStep(m) PROVE NoticeInv'
  <2>1. PICK new \in Order, number \in Nat, ok \in BOOLEAN, total \in 0..ExecTimes :
          /\ gate' = [gate EXCEPT ![m] = new]
          /\ Send(m, number, ok, total)
          /\ Tells(number, ok, total, new)
    BY <1>3, EcpayChange
  <2>2. gate'[m] = new
    BY <2>1 DEF TypeOK
  <2>3. \A n \in sent' : Tells(n.gwsr, n.ok, n.total, gate'[n.trade])
    BY <1>2, <2>1, <2>2 DEF Send
  <2>4. pc' = pc /\ job' = job /\ sent \subseteq sent'
    BY <2>1 DEF Send
  <2> QED
    BY <1>1, <2>3, <2>4 DEF NoticeInv, Tells, IsFirst
<1>4. ASSUME sent' = sent, \A h \in Handlers : pc'[h] # "idle" => job'[h] \in sent
      PROVE  NoticeInv'
  BY <1>1, <1>2, <1>4 DEF NoticeInv, Tells, IsFirst
<1>5. ASSUME NEW h \in Handlers, NEW n \in sent, Receive(h, n) PROVE NoticeInv'
  BY <1>4, <1>5 DEF TypeOK, NoticeInv, Receive, Goto
<1>6. ASSUME NEW h \in Handlers, HandlerStep(h) \/ Abort(h) PROVE NoticeInv'
  <2>1. sent' = sent
    BY <1>6 DEF HandlerStep, RecordEvent, FindRow, WriteFirst, WritePeriod, Reply, Abort
  <2>2. ASSUME NEW g \in Handlers, pc'[g] # "idle" PROVE pc[g] # "idle" /\ job'[g] = job[g]
    BY <1>6, <2>2 DEF TypeOK, HandlerStep, RecordEvent, FindRow, WriteFirst, WritePeriod,
                      Reply, Abort, Forget, Goto
  <2> QED
    BY <1>4, <2>1, <2>2 DEF NoticeInv
<1>7. ASSUME UNCHANGED <<sent, pc, job>> PROVE NoticeInv'
  BY <1>4, <1>7 DEF NoticeInv
<1>8. \/ \E m \in Trades : EcpayStep(m)
      \/ \E h \in Handlers, n \in sent : Receive(h, n)
      \/ \E h \in Handlers : HandlerStep(h) \/ Abort(h)
      \/ UNCHANGED <<sent, pc, job>>
  BY DEF Next, vars, SweepStep, Load, Persist, Finish, Query, AbortSweep, Stop, ReadRow,
         CancelStep, CallEcpay, WriteCancel, AbortCancel
<1> QED
  BY <1>3, <1>5, <1>6, <1>7, <1>8

\* Where the handlers of a notification are.
LEMMA EventsGrow ==
  ASSUME TypeOK, [Next]_vars
  PROVE  /\ events \subseteq events'
         /\ \A h \in Handlers : pc'[h] = "write" =>
              \/ pc[h] = "write" /\ job'[h] = job[h]
              \/ RecordEvent(h) /\ IsFirst(job[h])
              \/ FindRow(h) /\ row[job[h].trade].status # "none"
<1> USE DEF TypeOK, ecpayVars, dbVars, handlerVars, sweepVars, cancelVars
<1>1. ASSUME NEW h \in Handlers, RecordEvent(h)
      PROVE  /\ events \subseteq events'
             /\ pc'[h] = "write" => IsFirst(job[h])
             /\ \A g \in Handlers \ {h} : pc'[g] = pc[g] /\ job'[g] = job[g]
  BY <1>1 DEF RecordEvent, Goto
<1>2. ASSUME NEW h \in Handlers, FindRow(h)
      PROVE  /\ events \subseteq events'
             /\ pc'[h] = "write" => row[job[h].trade].status # "none"
             /\ \A g \in Handlers \ {h} : pc'[g] = pc[g] /\ job'[g] = job[g]
  BY <1>2 DEF FindRow, Goto
<1>3. ASSUME NEW h \in Handlers,
             \/ \E n \in sent : Receive(h, n)
             \/ WriteFirst(h) \/ WritePeriod(h)
      PROVE  /\ events' = events
             /\ pc'[h] # "write"
             /\ \A g \in Handlers \ {h} : pc'[g] = pc[g] /\ job'[g] = job[g]
  BY <1>3 DEF Receive, WriteFirst, WritePeriod, Goto
<1>4. ASSUME NEW h \in Handlers, Reply(h) \/ Abort(h)
      PROVE  /\ events' = events
             /\ pc'[h] # "write"
             /\ \A g \in Handlers \ {h} : pc'[g] = pc[g] /\ job'[g] = job[g]
  BY <1>4 DEF Reply, Abort, Forget, Goto
<1>5. ASSUME UNCHANGED <<events, pc, job>>
      PROVE  events' = events /\ \A g \in Handlers : pc'[g] = pc[g] /\ job'[g] = job[g]
  BY <1>5
<1>6. \/ \E h \in Handlers : RecordEvent(h)
      \/ \E h \in Handlers : FindRow(h)
      \/ \E h \in Handlers : \/ \E n \in sent : Receive(h, n)
                            \/ WriteFirst(h) \/ WritePeriod(h)
      \/ \E h \in Handlers : Reply(h) \/ Abort(h)
      \/ UNCHANGED <<events, pc, job>>
  BY DEF Next, vars, HandlerStep, EcpayStep, DeclineFirst, FirstPayment, ChargePeriod,
         DeclinePeriod, Send, SweepStep, Load, Persist, Finish, Query, AbortSweep, Stop,
         ReadRow, CancelStep, CallEcpay, WriteCancel, AbortCancel
<1>7. CASE \E h \in Handlers : RecordEvent(h)
  BY <1>1, <1>7
<1>8. CASE \E h \in Handlers : FindRow(h)
  BY <1>2, <1>8
<1> QED
  BY <1>3, <1>4, <1>5, <1>6, <1>7, <1>8

\* Every step keeps the first payments apart: who writes one recorded its event,
\* and a second writer would have met that record.
LEMMA FirstStep ==
  ASSUME TypeOK, NoticeInv, FirstInv, OrderInv, [Next]_vars
  PROVE  FirstInv'
<1>1. ASSUME NEW h \in Handlers, WriteFirst(h)
      PROVE  <<job[h].trade, 0>> \in events /\ pc'[h] # "write"
  BY <1>1 DEF TypeOK, FirstInv, WriteFirst, Goto
<1>2. ASSUME NEW m \in Trades, row'[m].status # "none" PROVE <<m, 0>> \in events'
  <2>1. CASE row[m].status # "none"
    BY <2>1, EventsGrow DEF FirstInv
  <2>2. CASE row[m].status = "none"
    BY <1>1, <1>2, <2>2, RowsStay, EventsGrow
  <2> QED
    BY <2>1, <2>2
<1>3. ASSUME NEW h \in Handlers, RecordEvent(h), pc'[h] = "write"
      PROVE  /\ job[h].trade \in Trades /\ Key(job[h]) = <<job[h].trade, 0>>
             /\ Key(job[h]) \notin events /\ Key(job[h]) \in events'
             /\ row' = row
             /\ \A g \in Handlers : job'[g] = job[g]
             /\ \A g \in Handlers \ {h} : pc'[g] = pc[g]
  <2>1. Key(job[h]) \notin events /\ IsFirst(job[h]) /\ job[h] \in sent
    BY <1>3 DEF TypeOK, NoticeInv, RecordEvent, Goto
  <2> QED
    BY <1>3, <2>1 DEF TypeOK, RecordEvent, Goto, Key, IsFirst, Notice
<1>4. ASSUME NEW h \in Handlers, pc[h] = "write", IsFirst(job[h]), pc'[h] = "write"
      PROVE  row'[job[h].trade].status = "none"
  <2>1. job[h].trade \in Trades /\ row[job[h].trade].status = "none"
    BY <1>4 DEF TypeOK, NoticeInv, FirstInv, Notice
  <2>2. ASSUME NEW g \in Handlers, WriteFirst(g), job[g].trade = job[h].trade PROVE FALSE
    <3>1. g = h
      BY <1>4, <2>2 DEF FirstInv, WriteFirst
    <3> QED
      BY <1>1, <1>4, <2>2, <3>1
  <2> QED
    BY <2>1, <2>2, RowsStay
<1>5. ASSUME NEW h \in Handlers, pc'[h] = "write", IsFirst(job'[h])
      PROVE  <<job'[h].trade, 0>> \in events' /\ row'[job'[h].trade].status = "none"
  <2>1. CASE pc[h] = "write" /\ job'[h] = job[h]
    BY <1>4, <1>5, <2>1, EventsGrow DEF FirstInv
  <2>2. CASE RecordEvent(h)
    BY <1>3, <1>5, <2>2 DEF FirstInv
  <2>3. CASE FindRow(h) /\ row[job[h].trade].status # "none"
    <3>1. job'[h] = job[h] /\ pc[h] = "read"
      BY <2>3 DEF FindRow
    <3> QED
      BY <1>5, <3>1 DEF FirstInv
  <2> QED
    BY <1>5, <2>1, <2>2, <2>3, EventsGrow
<1>6. ASSUME NEW h \in Handlers, NEW g \in Handlers, h # g, RecordEvent(h),
             pc'[h] = "write", pc'[g] = "write", IsFirst(job'[g]), job'[h].trade = job'[g].trade
      PROVE  FALSE
  <2>1. <<job[g].trade, 0>> \in events
    BY <1>3, <1>6 DEF FirstInv
  <2> QED
    BY <1>3, <1>6, <2>1
<1>7. ASSUME NEW h \in Handlers, NEW g \in Handlers, h # g,
             pc'[h] = "write", IsFirst(job'[h]), pc'[g] = "write", IsFirst(job'[g]),
             job'[h].trade = job'[g].trade
      PROVE  FALSE
  <2>1. \A k \in {h, g} : (pc[k] = "write" /\ job'[k] = job[k]) \/ RecordEvent(k)
    <3>1. ASSUME NEW k \in {h, g}, FindRow(k) PROVE FALSE
      BY <1>7, <3>1 DEF FirstInv, FindRow
    <3> QED
      BY <1>7, <3>1, EventsGrow
  <2>2. CASE RecordEvent(h)
    BY <1>6, <1>7, <2>2
  <2>3. CASE RecordEvent(g)
    BY <1>6, <1>7, <2>3
  <2> QED
    BY <1>7, <2>1, <2>2, <2>3 DEF FirstInv
<1>8. ASSUME NEW h \in Handlers, pc'[h] = "read" PROVE ~IsFirst(job'[h])
  <2>1. (pc[h] = "read" /\ job'[h] = job[h]) \/ (RecordEvent(h) /\ ~IsFirst(job[h]))
    BY <1>8 DEF TypeOK, Next, vars, handlerVars, HandlerStep, EcpayStep, DeclineFirst,
                FirstPayment, ChargePeriod, DeclinePeriod, Send, Receive, RecordEvent,
                FindRow, WriteFirst, WritePeriod, Reply, Abort, Forget, Goto, SweepStep,
                Load, Persist, Finish, Query, AbortSweep, Stop, ReadRow, CancelStep,
                CallEcpay, WriteCancel, AbortCancel
  <2> QED
    BY <2>1 DEF FirstInv, RecordEvent
<1> QED
  BY <1>2, <1>5, <1>7, <1>8 DEF FirstInv

\* Every step keeps rows with orders that started, and the readings with their rows.
LEMMA OrderStep ==
  ASSUME TypeOK, NoticeInv, FirstInv, OrderInv, [Next]_vars
  PROVE  OrderInv'
<1> USE DEF ecpayVars, dbVars, handlerVars, sweepVars, cancelVars
<1>1. ASSUME NEW m \in Trades
      PROVE  /\ gate[m].exec # "none" => gate'[m].exec # "none"
             /\ row[m].status # "none" => row'[m].status # "none"
             /\ \A k \in 0..ExecTimes : k <= gate[m].paid => k <= gate'[m].paid
             /\ gate[m].exec \in {"terminated", "completed"} => gate'[m].exec # "running"
  <2>1. Grows(gate[m], gate'[m])
    BY OrdersGrow
  <2>2. gate[m].paid \in 0..ExecTimes /\ gate'[m].paid \in 0..ExecTimes
    BY OrdersGrow DEF TypeOK, Order
  <2> QED
    BY <2>1, <2>2, RowsStay, TimesAssumption DEF Grows
<1>2. ASSUME NEW m \in Trades, row'[m].status # "none" PROVE gate'[m].exec # "none"
  <2>1. CASE row[m].status # "none"
    BY <1>1, <2>1 DEF OrderInv, SweepInv, CancelInv
  <2>2. CASE row[m].status = "none"
    <3>1. PICK h \in Handlers : job[h] \in sent /\ job[h].trade = m /\ job[h].ok
      BY <1>2, <2>2, RowsStay
    <3> QED
      BY <1>1, <3>1 DEF NoticeInv
  <2> QED
    BY <2>1, <2>2
<1>3. ASSUME NEW h \in Handlers, pc'[h] = "write", ~IsFirst(job'[h])
      PROVE  row'[job'[h].trade].status # "none"
  <2>1. CASE pc[h] = "write" /\ job'[h] = job[h]
    BY <1>1, <1>3, <2>1 DEF OrderInv, SweepInv, CancelInv, TypeOK, NoticeInv, Notice
  <2>2. CASE RecordEvent(h) /\ IsFirst(job[h])
    BY <1>3, <2>2 DEF RecordEvent
  <2>3. CASE FindRow(h) /\ row[job[h].trade].status # "none"
    BY <2>3 DEF FindRow
  <2> QED
    BY <1>3, <2>1, <2>2, <2>3, EventsGrow
<1>4. SweepInv'
  <2>1. ASSUME UNCHANGED <<phase, todo, cur, info>> PROVE SweepInv'
    BY <1>1, <2>1 DEF OrderInv, SweepInv, CancelInv, TypeOK
  <2>2. ASSUME NEW w \in Sweeps, Load(w) PROVE SweepInv'
    BY <1>1, <2>2 DEF OrderInv, SweepInv, CancelInv, TypeOK, Load, ActiveRows
  <2>3. ASSUME NEW w \in Sweeps, NEW m \in Trades, Query(w, m) PROVE SweepInv'
    <3>1. /\ gate[m].paid \in 0..ExecTimes /\ gate' = gate /\ row' = row
          /\ row[m].status # "none"
          /\ todo' = [todo EXCEPT ![w] = @ \ {m}]
      BY <2>3 DEF TypeOK, OrderInv, SweepInv, CancelInv, Query, Order
    <3>2. \/ UNCHANGED <<info, cur, phase>>
          \/ /\ cur' = [cur EXCEPT ![w] = m] /\ phase' = [phase EXCEPT ![w] = "write"]
             /\ \/ info' = [info EXCEPT ![w] = Renewal(gate[m])]
                \/ info' = [info EXCEPT ![w] = Blank]
      BY <2>3 DEF Query
    <3>3. Renewal(gate[m]).total <= gate[m].paid /\ Blank.total <= gate[m].paid
      BY <3>1, TimesAssumption DEF Renewal, Blank, Total
    <3>4. CASE UNCHANGED <<info, cur, phase>>
      BY <3>1, <3>4 DEF OrderInv, SweepInv, CancelInv, TypeOK
    <3>5. CASE /\ cur' = [cur EXCEPT ![w] = m] /\ phase' = [phase EXCEPT ![w] = "write"]
               /\ \/ info' = [info EXCEPT ![w] = Renewal(gate[m])]
                  \/ info' = [info EXCEPT ![w] = Blank]
      BY <3>1, <3>3, <3>5 DEF OrderInv, SweepInv, CancelInv, TypeOK
    <3> QED
      BY <3>2, <3>4, <3>5
  <2>4. ASSUME NEW w \in Sweeps, Persist(w) PROVE SweepInv'
    BY <1>1, <2>4 DEF OrderInv, SweepInv, CancelInv, TypeOK, Persist
  <2>5. ASSUME NEW w \in Sweeps, Finish(w) \/ AbortSweep(w) PROVE SweepInv'
    BY <1>1, <2>5 DEF OrderInv, SweepInv, CancelInv, TypeOK, Finish, AbortSweep, Stop
  <2>6. \/ UNCHANGED <<phase, todo, cur, info>>
        \/ \E w \in Sweeps : \/ Load(w) \/ Persist(w) \/ Finish(w) \/ AbortSweep(w)
                            \/ \E m \in Trades : Query(w, m)
    BY DEF Next, vars, HandlerStep, EcpayStep, DeclineFirst, FirstPayment, ChargePeriod,
           DeclinePeriod, Send, Receive, RecordEvent, FindRow, WriteFirst, WritePeriod,
           Reply, Abort, SweepStep, ReadRow, CancelStep, CallEcpay, WriteCancel, AbortCancel
  <2> QED
    BY <2>1, <2>2, <2>3, <2>4, <2>5, <2>6
<1>5. CancelInv'
  <2>1. \A c \in Cancels :
          /\ step[c] # "idle" => sub[c] \in Trades /\ row'[sub[c]].status # "none"
          /\ step[c] = "write" => sub[c] \in refused' \/ gate'[sub[c]].exec # "running"
    <3>1. ASSUME NEW c \in Cancels, step[c] # "idle"
          PROVE  /\ sub[c] \in Trades /\ row'[sub[c]].status # "none"
                 /\ gate[sub[c]].exec \in {"running", "terminated", "completed"}
      BY <1>1, <3>1 DEF OrderInv, SweepInv, CancelInv, TypeOK, Order
    <3> QED
      BY <1>1, <3>1, OrdersGrow DEF OrderInv, SweepInv, CancelInv
  <2>2. ASSUME UNCHANGED <<step, sub>> PROVE CancelInv'
    BY <2>1, <2>2 DEF CancelInv
  <2>3. ASSUME NEW c \in Cancels, NEW m \in Trades, ReadRow(c, m) PROVE CancelInv'
    BY <2>1, <2>3, RowsStay DEF TypeOK, CancelInv, ReadRow
  <2>4. ASSUME NEW c \in Cancels, CallEcpay(c) PROVE CancelInv'
    <3>1. PICK new \in Order : /\ gate' = [gate EXCEPT ![sub[c]] = new]
                               /\ sub[c] \in refused' \/ new.exec # "running"
      BY <2>4, CallChange
    <3>2. sub[c] \in Trades /\ step' = [step EXCEPT ![c] = "write"] /\ sub' = sub /\ step[c] # "idle"
      BY <2>4, CallChange DEF CallEcpay
    <3> QED
      BY <2>1, <3>1, <3>2 DEF TypeOK, CancelInv
  <2>5. ASSUME NEW c \in Cancels, WriteCancel(c) \/ AbortCancel(c) PROVE CancelInv'
    BY <2>1, <2>5 DEF TypeOK, CancelInv, WriteCancel, AbortCancel, Return
  <2>6. \/ UNCHANGED <<step, sub>>
        \/ \E c \in Cancels : \/ CallEcpay(c) \/ WriteCancel(c) \/ AbortCancel(c)
                             \/ \E m \in Trades : ReadRow(c, m)
    BY DEF Next, vars, HandlerStep, EcpayStep, DeclineFirst, FirstPayment, ChargePeriod,
           DeclinePeriod, Send, Receive, RecordEvent, FindRow, WriteFirst, WritePeriod,
           Reply, Abort, SweepStep, Load, Persist, Finish, Query, AbortSweep, Stop, CancelStep
  <2> QED
    BY <2>2, <2>3, <2>4, <2>5, <2>6
<1> QED
  BY <1>2, <1>3, <1>4, <1>5 DEF OrderInv

\* Every step keeps the events of what was answered.
LEMMA RecordedStep ==
  ASSUME TypeOK, NoticeInv, RecordedInv, [Next]_vars
  PROVE  RecordedInv'
<1> USE DEF TypeOK, RecordedInv, ecpayVars, dbVars, handlerVars, sweepVars, cancelVars
<1>1. ASSUME NEW h \in Handlers, NEW n \in sent, Receive(h, n) PROVE RecordedInv'
  BY <1>1 DEF Receive, Goto
<1>2. ASSUME NEW h \in Handlers, RecordEvent(h) PROVE RecordedInv'
  BY <1>2 DEF RecordEvent, Goto
<1>3. ASSUME NEW h \in Handlers, FindRow(h) \/ WriteFirst(h) \/ WritePeriod(h) PROVE RecordedInv'
  BY <1>3 DEF FindRow, WriteFirst, WritePeriod, Goto
<1>4. ASSUME NEW h \in Handlers, Reply(h) \/ Abort(h) PROVE RecordedInv'
  BY <1>4 DEF Reply, Abort, Forget, Goto
<1>5. ASSUME UNCHANGED <<acked, events, pc, job>> PROVE RecordedInv'
  BY <1>5
<1> QED
  BY <1>1, <1>2, <1>3, <1>4, <1>5
     DEF Next, vars, HandlerStep, EcpayStep, DeclineFirst, FirstPayment, ChargePeriod,
         DeclinePeriod, Send, SweepStep, Load, Persist, Finish, Query, AbortSweep, Stop,
         ReadRow, CancelStep, CallEcpay, WriteCancel, AbortCancel

\* The handler that recorded a first payment writes the row.
LEMMA HeldStep ==
  ASSUME TypeOK, NoticeInv, FirstInv, OrderInv, HeldInv, [Next]_vars
  PROVE  HeldInv'
<1> SUFFICES ASSUME faults' = 0, NEW m \in Trades, <<m, 0>> \in events', ~Declined(m)'
             PROVE  row'[m].status # "none" \/ \E h \in Handlers : Writing(h, m)'
  BY DEF HeldInv
<1> USE DEF TypeOK, ecpayVars, dbVars, handlerVars, sweepVars, cancelVars
<1>1. ~Fault
  BY DEF Fault
<1>2. faults = 0 /\ sent \subseteq sent'
  BY <1>1
     DEF Next, vars, HandlerStep, EcpayStep, DeclineFirst, FirstPayment, ChargePeriod,
         DeclinePeriod, Send, Receive, RecordEvent, FindRow, WriteFirst, WritePeriod, Reply,
         Abort, SweepStep, Load, Persist, Finish, Query, AbortSweep, Stop, ReadRow, CancelStep,
         CallEcpay, WriteCancel, AbortCancel
<1>3. ~Declined(m)
  BY <1>2 DEF Declined
<1>4. <<m, 0>> \in events => row'[m].status # "none" \/ \E h \in Handlers : Writing(h, m)
  BY <1>2, <1>3, RowsStay DEF HeldInv
<1>5. ASSUME events' = events, NEW h \in Handlers, ~Writing(h, m),
             \A g \in Handlers \ {h} : pc'[g] = pc[g] /\ job'[g] = job[g]
      PROVE  row'[m].status # "none" \/ \E g \in Handlers : Writing(g, m)'
  BY <1>4, <1>5 DEF Writing
<1>6. ASSUME NEW h \in Handlers, RecordEvent(h)
      PROVE  row'[m].status # "none" \/ \E g \in Handlers : Writing(g, m)'
  <2>1. /\ pc[h] = "record" /\ events' = events \cup {Key(job[h])} /\ job' = job /\ job[h] \in sent
        /\ pc'[h] = (IF Key(job[h]) \in events THEN "reply"
                     ELSE IF IsFirst(job[h]) THEN "write" ELSE "read")
        /\ \A g \in Handlers \ {h} : pc'[g] = pc[g]
    BY <1>6 DEF RecordEvent, Goto, NoticeInv
  <2>2. CASE <<m, 0>> \in events
    BY <1>4, <2>1, <2>2 DEF Writing
  <2>3. CASE <<m, 0>> \notin events
    <3>1. Key(job[h]) = <<m, 0>> /\ Key(job[h]) \notin events
      BY <2>1, <2>3
    <3>2. job[h].trade = m /\ IsFirst(job[h])
      BY <3>1 DEF Key, IsFirst
    <3> QED
      BY <2>1, <3>1, <3>2 DEF Writing
  <2> QED
    BY <2>2, <2>3
<1>7. ASSUME NEW h \in Handlers, WriteFirst(h)
      PROVE  row'[m].status # "none" \/ \E g \in Handlers : Writing(g, m)'
  <2>1. /\ events' = events /\ job[h] \in sent
        /\ \A g \in Handlers \ {h} : pc'[g] = pc[g] /\ job'[g] = job[g]
    BY <1>7 DEF WriteFirst, Goto, NoticeInv
  <2>2. CASE ~Writing(h, m)
    BY <1>5, <2>1, <2>2
  <2>3. CASE Writing(h, m)
    <3>1. job[h].ok
      BY <1>3, <2>1, <2>3 DEF Writing, Declined
    <3> QED
      BY <1>7, <2>3, <3>1 DEF WriteFirst, Writing
  <2> QED
    BY <2>2, <2>3
<1>8. ASSUME NEW h \in Handlers, (\E n \in sent : Receive(h, n)) \/ FindRow(h) \/ WritePeriod(h) \/ Reply(h)
      PROVE  row'[m].status # "none" \/ \E g \in Handlers : Writing(g, m)'
  <2>1. /\ events' = events /\ ~Writing(h, m)
        /\ \A g \in Handlers \ {h} : pc'[g] = pc[g] /\ job'[g] = job[g]
    BY <1>8 DEF Receive, FindRow, WritePeriod, Reply, Forget, Goto, Writing
  <2> QED
    BY <1>5, <2>1
<1>9. ASSUME UNCHANGED <<events, pc, job>>
      PROVE  row'[m].status # "none" \/ \E g \in Handlers : Writing(g, m)'
  BY <1>4, <1>9 DEF Writing
<1> QED
  BY <1>1, <1>6, <1>7, <1>8, <1>9
     DEF Next, vars, HandlerStep, EcpayStep, DeclineFirst, FirstPayment, ChargePeriod,
         DeclinePeriod, Send, Abort, SweepStep, Load, Persist, Finish, Query, AbortSweep, Stop,
         ReadRow, CancelStep, CallEcpay, WriteCancel, AbortCancel

-----------------------------------------------------------------------------
(* The safety properties *)

\* No write makes a row incomplete: a declined first payment that reaches its write
\* finds no row.
LEMMA PaymentStep ==
  ASSUME TypeOK, NoticeInv, FirstInv, OrderInv, FirstPaymentStands, [Next]_vars
  PROVE  FirstPaymentStands'
  BY RowChange DEF FirstPaymentStands

\* Whoever writes a count got it from ECPay, whose own count has only grown since.
LEMMA CountStep ==
  ASSUME TypeOK, NoticeInv, FirstInv, OrderInv, CountNeverAhead, [Next]_vars
  PROVE  CountNeverAhead'
<1> SUFFICES ASSUME NEW m \in Trades PROVE row'[m].total <= gate'[m].paid
  BY DEF CountNeverAhead
<1>1. gate[m].paid <= gate'[m].paid
  BY OrdersGrow DEF Grows
<1>2. gate[m].paid \in Int /\ gate'[m].paid \in Int
  BY OrdersGrow, TimesAssumption DEF TypeOK, Order
<1>3. row[m].total \in Int /\ row'[m].total \in Int
  BY RowChange, TimesAssumption DEF TypeOK, Row
<1>4. row'[m].total <= gate[m].paid
  <2>1. ASSUME NEW h \in Handlers, WriteFirst(h), job[h] \in sent, job[h].trade = m, job[h].ok
        PROVE  1 <= gate[m].paid
    BY <2>1 DEF NoticeInv, WriteFirst
  <2>2. ASSUME NEW h \in Handlers, job[h] \in sent, job[h].trade = m
        PROVE  job[h].total <= gate[m].paid
    BY <2>2 DEF NoticeInv
  <2>3. ASSUME NEW w \in Sweeps, Persist(w), cur[w] = m
        PROVE  info[w].total <= gate[m].paid
    BY <2>3 DEF OrderInv, SweepInv, Persist
  <2>4. row[m].total <= gate[m].paid
    BY DEF CountNeverAhead
  <2> QED
    BY <2>1, <2>2, <2>3, <2>4, RowChange
<1> QED
  BY <1>1, <1>2, <1>3, <1>4

\* Only a cancellation writes "canceled", after ECPay's answer, and no order runs
\* again.
LEMMA CanceledStep ==
  ASSUME TypeOK, NoticeInv, FirstInv, OrderInv, CanceledIsStopped, [Next]_vars
  PROVE  CanceledIsStopped'
<1> SUFFICES ASSUME NEW m \in Trades, m \notin refused', row'[m].status = "canceled"
             PROVE  gate'[m].exec # "running"
  BY DEF CanceledIsStopped
<1>1. m \notin refused /\ Grows(gate[m], gate'[m])
  BY OrdersGrow
<1>2. gate[m].exec \notin {"none", "running"}
  <2>1. CASE row[m].status = "canceled"
    BY <1>1, <2>1 DEF CanceledIsStopped, OrderInv
  <2>2. CASE \E c \in Cancels : WriteCancel(c) /\ sub[c] = m
    BY <1>1, <2>2 DEF OrderInv, CancelInv, WriteCancel
  <2> QED
    BY <2>1, <2>2, RowChange
<1> QED
  BY <1>1, <1>2 DEF Grows

LEMMA InitInv == Init => IInv
<1> SUFFICES ASSUME Init PROVE IInv
  OBVIOUS
<1>1. /\ [exec |-> "none", paid |-> 0, failing |-> FALSE] \in Order
      /\ NoRow \in Row /\ NoRow.status = "none" /\ NoRow.total = 0
      /\ Total(0, FALSE) \in [total: 0..ExecTimes, flagged: BOOLEAN]
  BY TimesAssumption DEF Order, Row, NoRow, Total
<1>2. TypeOK
  <2>1. /\ gate \in [Trades -> Order] /\ gwsr \in [Trades -> Nat] /\ row \in [Trades -> Row]
        /\ sent \subseteq Notice /\ acked \subseteq Notice /\ refused \subseteq Trades
        /\ events \subseteq (Trades \X Nat)
    BY <1>1 DEF Init
  <2>2. /\ pc \in [Handlers -> {"idle", "record", "read", "write", "reply"}]
        /\ job \in [Handlers -> Notice \cup {None}]
    BY DEF Init
  <2>3. /\ phase \in [Sweeps -> {"idle", "query", "write"}]
        /\ todo \in [Sweeps -> SUBSET Trades]
        /\ cur \in [Sweeps -> Trades \cup {None}]
        /\ info \in [Sweeps -> [total: 0..ExecTimes, flagged: BOOLEAN]]
    BY <1>1 DEF Init
  <2>4. /\ step \in [Cancels -> {"idle", "call", "write"}]
        /\ sub \in [Cancels -> Trades \cup {None}]
        /\ faults \in 0..MaxFaults
    BY BoundsAssumption DEF Init
  <2> QED
    BY <2>1, <2>2, <2>3, <2>4 DEF TypeOK
<1>3. NoticeInv /\ FirstInv
  BY <1>1 DEF Init, NoticeInv, FirstInv
<1>4. OrderInv
  BY <1>1 DEF Init, OrderInv, SweepInv, CancelInv
<1>5. FirstPaymentStands /\ CountNeverAhead /\ CanceledIsStopped
  BY <1>1 DEF Init, FirstPaymentStands, CountNeverAhead, CanceledIsStopped
<1>6. RecordedInv /\ HeldInv
  BY DEF Init, RecordedInv, HeldInv
<1> QED
  BY <1>2, <1>3, <1>4, <1>5, <1>6 DEF IInv

LEMMA NextInv == IInv /\ [Next]_vars => IInv'
  BY TypeStep, NoticeStep, FirstStep, OrderStep, RecordedStep, HeldStep, PaymentStep,
     CountStep, CanceledStep
     DEF IInv

-----------------------------------------------------------------------------
(* The theorems *)

\* The types and all the parts of the inductive invariant hold in every reachable
\* state, whatever the notifications, sweeps, cancellations and faults.
THEOREM InvariantHolds == Spec => []IInv
  BY InitInv, NextInv, PTL DEF Spec

\* A paid subscription never becomes incomplete, in whatever order the declined and
\* the successful first payment are handled (failure branch of the return route).
THEOREM FirstPaymentFinal == Spec => []FirstPaymentStands
<1>1. IInv => FirstPaymentStands
  BY DEF IInv
<1> QED
  BY <1>1, InvariantHolds, PTL

\* However old and new counts are written over each other, the row never counts a
\* charge ECPay did not make (total_success_times).
THEOREM CountsBehind == Spec => []CountNeverAhead
<1>1. IInv => CountNeverAhead
  BY DEF IInv
<1> QED
  BY <1>1, InvariantHolds, PTL

\* A row that says "canceled" belongs to an order ECPay charges no more, unless it
\* refused to stop (cancelSubscription).
THEOREM CanceledStopped == Spec => []CanceledIsStopped
<1>1. IInv => CanceledIsStopped
  BY DEF IInv
<1> QED
  BY <1>1, InvariantHolds, PTL

\* Unless a step fails, no first payment answered "1|OK" is lost, a declined attempt
\* before it apart: it has its row, or the handler that recorded it is about to
\* write it (the return route).
THEOREM PaymentNotForgotten == Spec => []AnsweredPaymentHasRow
<1>1. IInv => AnsweredPaymentHasRow
  <2> SUFFICES ASSUME IInv, faults = 0, NEW n \in acked, IsFirst(n), ~Declined(n.trade)
               PROVE  row[n.trade].status # "none" \/ \E h \in Handlers : Writing(h, n.trade)
    BY DEF AnsweredPaymentHasRow
  <2>1. n.trade \in Trades /\ <<n.trade, 0>> \in events
    BY DEF IInv, TypeOK, Notice, RecordedInv, Key, IsFirst
  <2> QED
    BY <2>1 DEF IInv, HeldInv
<1> QED
  BY <1>1, InvariantHolds, PTL
-----------------------------------------------------------------------------
(* When the notifications are handled in order *)

AtWork(h, m) == pc[h] # "idle" /\ job[h].trade = m

\* The notifications of an order are handled one at a time, and none before an older
\* one was recorded.
InOrder ==
  /\ \A g, h \in Handlers, m \in Trades : AtWork(g, m) /\ AtWork(h, m) => g = h
  /\ \A h \in Handlers, n \in sent :
       AtWork(h, n.trade) /\ n.gwsr < job[h].gwsr => Key(n) \in events

\* With every notification answered, a row is past due only if the last charge
\* failed.
PastDueIsFailing ==
  (faults = 0 /\ sent \subseteq acked /\ \A h \in Handlers : pc[h] = "idle")
    => \A m \in Trades : row[m].status = "past_due" => gate[m].failing

\* The last notification of a period tells whether the order is failing.
NumberInv ==
  /\ \A n \in sent : n.gwsr <= gwsr[n.trade]
  /\ \A m \in Trades : gwsr[m] > 0 =>
       gate[m].exec # "none" /\ \E n \in sent : n.trade = m /\ n.gwsr = gwsr[m]
  /\ \A n \in sent : n.gwsr > 0 /\ n.gwsr = gwsr[n.trade] /\ ~n.ok => gate[n.trade].failing

\* With a notification, the older ones were recorded too.
ClosedInv ==
  /\ \A m \in Trades, k \in Nat : <<m, k>> \in events => k <= gwsr[m]
  /\ \A n \in sent, k \in Nat : <<n.trade, k>> \in events /\ n.gwsr < k => Key(n) \in events

\* Who holds a period's notification holds the last one, or the last one is on its
\* way, and so it is with what was written.
LastRecorded(m) == <<m, gwsr[m]>> \in events
Holds(h, m) == AtWork(h, m) /\ pc[h] \in {"read", "write"} /\ ~IsFirst(job[h])

StatusInv ==
  faults = 0 => \A m \in Trades :
    /\ row[m].status = "past_due" =>
         gate[m].failing \/ ~LastRecorded(m) \/ \E h \in Handlers : Holds(h, m)
    /\ \A h \in Handlers : Holds(h, m) => job[h].gwsr = gwsr[m] \/ ~LastRecorded(m)

\* A notification of a period has a new number, and tells whether the order is
\* failing; one of a first payment changes neither.
LEMMA NewNotice ==
  ASSUME TypeOK, NumberInv, NEW m \in Trades, EcpayStep(m)
  PROVE  \E number \in Nat, ok \in BOOLEAN, total \in Nat :
           /\ Send(m, number, ok, total)
           /\ \A q \in Trades : /\ q # m => gate'[q] = gate[q]
                                /\ gate[q].exec # "none" => gate'[q].exec # "none"
           /\ \/ number = 0 /\ gwsr[m] = 0 /\ gate'[m].failing = gate[m].failing
              \/ /\ number = gwsr[m] + 1 /\ gate'[m].exec # "none"
                 /\ ~ok => gate'[m].failing
<1> USE DEF TypeOK, Order
<1>1. gate[m].exec = "none" => gwsr[m] = 0
  BY DEF NumberInv
<1>2. gwsr[m] + 1 \in Nat /\ gate[m].paid \in Nat
  BY TimesAssumption
<1>3. CASE DeclineFirst(m)
  BY <1>1, <1>3 DEF DeclineFirst
<1>4. CASE FirstPayment(m)
  <2>1. Send(m, 0, TRUE, 1) /\ gate[m].exec = "none"
        /\ gate' = [gate EXCEPT ![m].exec = "running", ![m].paid = 1]
    BY <1>4 DEF FirstPayment
  <2>2. gate'[m].failing = gate[m].failing /\ gate'[m].exec = "running"
    BY <2>1
  <2> QED
    BY <1>1, <2>1, <2>2
<1>5. CASE ChargePeriod(m)
  <2>1. Send(m, gwsr[m] + 1, TRUE, gate[m].paid + 1)
    BY <1>5 DEF ChargePeriod
  <2>2. gate'[m].exec # "none" /\ \A q \in Trades \ {m} : gate'[q] = gate[q]
    BY <1>5 DEF ChargePeriod
  <2>3. gate[m].paid + 1 \in Nat
    BY <1>2
  <2>4. \A q \in Trades : /\ q # m => gate'[q] = gate[q]
                          /\ gate[q].exec # "none" => gate'[q].exec # "none"
    BY <2>2
  <2> HIDE DEF TypeOK, Order
  <2> QED
    BY <1>2, <2>1, <2>2, <2>3, <2>4, Zenon
<1>6. CASE DeclinePeriod(m)
  <2>1. Send(m, gwsr[m] + 1, FALSE, gate[m].paid) /\ gate[m].exec = "running"
        /\ gate' = [gate EXCEPT ![m].failing = TRUE]
    BY <1>6 DEF DeclinePeriod
  <2>2. gate'[m].failing = TRUE /\ gate'[m].exec = "running"
    BY <2>1
  <2> QED
    BY <1>2, <2>1, <2>2
<1> QED
  BY <1>3, <1>4, <1>5, <1>6 DEF EcpayStep

\* Every other step leaves the notifications alone, and whether an order is failing.
LEMMA OldNotices ==
  ASSUME TypeOK, NoticeInv, OrderInv, [Next]_vars, \A m \in Trades : ~EcpayStep(m)
  PROVE  /\ UNCHANGED <<sent, gwsr>>
         /\ \A m \in Trades : /\ gate'[m].failing = gate[m].failing
                              /\ gate[m].exec # "none" => gate'[m].exec # "none"
<1>1. ASSUME NEW c \in Cancels, CallEcpay(c)
      PROVE  /\ UNCHANGED <<sent, gwsr>>
             /\ \A m \in Trades : gate'[m].failing = gate[m].failing
  <2>1. gate' = gate \/ gate' = [gate EXCEPT ![sub[c]].exec = IF @ = "running" THEN "terminated" ELSE @]
    BY <1>1 DEF CallEcpay
  <2> QED
    BY <1>1, <2>1 DEF CallEcpay, TypeOK, Order
<1>2. (\E c \in Cancels : CallEcpay(c)) \/ UNCHANGED <<sent, gwsr, gate>>
  BY DEF Next, vars, ecpayVars, Receive, HandlerStep, RecordEvent, FindRow, WriteFirst,
         WritePeriod, Reply, Abort, SweepStep, Load, Persist, Finish, Query, AbortSweep,
         Stop, ReadRow, CancelStep, WriteCancel, AbortCancel
<1>3. \A m \in Trades : gate[m].exec # "none" => gate'[m].exec # "none"
  BY OrdersGrow DEF Grows
<1> QED
  BY <1>1, <1>2, <1>3

LEMMA NumberStep ==
  ASSUME TypeOK, NoticeInv, OrderInv, NumberInv, [Next]_vars
  PROVE  NumberInv'
<1>1. ASSUME NEW m \in Trades, EcpayStep(m) PROVE NumberInv'
  <2>1. PICK number \in Nat, ok \in BOOLEAN, total \in Nat :
           /\ Send(m, number, ok, total)
           /\ \A q \in Trades : /\ q # m => gate'[q] = gate[q]
                                /\ gate[q].exec # "none" => gate'[q].exec # "none"
           /\ \/ number = 0 /\ gwsr[m] = 0 /\ gate'[m].failing = gate[m].failing
              \/ /\ number = gwsr[m] + 1 /\ gate'[m].exec # "none"
                 /\ ~ok => gate'[m].failing
    BY <1>1, NewNotice
  <2> DEFINE new == [trade |-> m, gwsr |-> number, ok |-> ok, total |-> total]
  <2>2. sent' = sent \cup {new} /\ gwsr' = [gwsr EXCEPT ![m] = number]
    BY <2>1 DEF Send
  <2>3. new.trade = m /\ new.gwsr = number /\ new.ok = ok
    OBVIOUS
  <2> HIDE DEF new
  <2>4. \A n \in sent : n.trade \in Trades /\ n.gwsr \in Nat
    BY DEF TypeOK, Notice
  <2>5. \A q \in Trades : gwsr[q] \in Nat /\ gwsr'[q] = (IF q = m THEN number ELSE gwsr[q])
    BY <2>2 DEF TypeOK
  <2>6. gwsr[m] <= number
    BY <2>1, <2>5
  <2>7. \A n \in sent' : n.gwsr <= gwsr'[n.trade]
    BY <2>2, <2>3, <2>4, <2>5, <2>6 DEF NumberInv
  <2>8. \A q \in Trades : gwsr'[q] > 0 =>
          gate'[q].exec # "none" /\ \E n \in sent' : n.trade = q /\ n.gwsr = gwsr'[q]
    BY <2>1, <2>2, <2>3, <2>5 DEF NumberInv
  <2>9. \A n \in sent' : n.gwsr > 0 /\ n.gwsr = gwsr'[n.trade] /\ ~n.ok => gate'[n.trade].failing
    <3>1. \A n \in sent : n.gwsr <= gwsr[n.trade]
      BY DEF NumberInv
    <3> QED
      BY <2>1, <2>2, <2>3, <2>4, <2>5, <3>1 DEF NumberInv
  <2> QED
    BY <2>7, <2>8, <2>9 DEF NumberInv
<1>2. CASE \A m \in Trades : ~EcpayStep(m)
  BY <1>2, OldNotices DEF NumberInv, TypeOK, Notice
<1> QED
  BY <1>1, <1>2

\* Who records a notification finds the older ones recorded.
LEMMA ClosedStep ==
  ASSUME TypeOK, NoticeInv, OrderInv, NumberInv, ClosedInv, InOrder, [Next]_vars
  PROVE  ClosedInv'
<1>1. ASSUME NEW m \in Trades, EcpayStep(m) PROVE ClosedInv'
  <2>1. PICK number \in Nat, ok \in BOOLEAN, total \in Nat :
           /\ Send(m, number, ok, total)
           /\ (number = 0 /\ gwsr[m] = 0) \/ number = gwsr[m] + 1
    BY <1>1, NewNotice
  <2> DEFINE new == [trade |-> m, gwsr |-> number, ok |-> ok, total |-> total]
  <2>2. sent' = sent \cup {new} /\ gwsr' = [gwsr EXCEPT ![m] = number] /\ events' = events
    BY <2>1 DEF Send, dbVars
  <2>3. new.trade = m /\ new.gwsr = number
    OBVIOUS
  <2> HIDE DEF new
  <2>4. \A q \in Trades : gwsr[q] \in Nat /\ gwsr[q] <= gwsr'[q]
    BY <2>1, <2>2 DEF TypeOK
  <2>5. \A k \in Nat : <<m, k>> \in events => ~(number < k)
    BY <2>1, <2>4 DEF ClosedInv
  <2>6. \A q \in Trades, k \in Nat : <<q, k>> \in events' => k <= gwsr'[q]
    <3>1. SUFFICES ASSUME NEW q \in Trades, NEW k \in Nat, <<q, k>> \in events' PROVE k <= gwsr'[q]
      OBVIOUS
    <3>2. k <= gwsr[q] /\ gwsr'[q] \in Nat
      BY <2>2, <3>1 DEF ClosedInv, TypeOK
    <3> QED
      BY <2>4, <3>2
  <2>7. \A n \in sent', k \in Nat : <<n.trade, k>> \in events' /\ n.gwsr < k => Key(n) \in events'
    BY <2>2, <2>3, <2>5 DEF ClosedInv
  <2> QED
    BY <2>6, <2>7 DEF ClosedInv
<1>2. ASSUME \A m \in Trades : ~EcpayStep(m), events' = events PROVE ClosedInv'
  BY <1>2, OldNotices DEF ClosedInv
<1>3. ASSUME NEW h \in Handlers, RecordEvent(h) PROVE ClosedInv'
  <2>1. /\ job[h] \in sent /\ pc[h] = "record" /\ events' = events \cup {Key(job[h])}
        /\ UNCHANGED <<sent, gwsr>>
    BY <1>3 DEF RecordEvent, NoticeInv, ecpayVars
  <2>2. /\ job[h].trade \in Trades /\ job[h].gwsr \in Nat /\ job[h].gwsr <= gwsr[job[h].trade]
        /\ Key(job[h]) = <<job[h].trade, job[h].gwsr>>
    BY <2>1 DEF NumberInv, TypeOK, Notice, Key
  <2>3. \A n \in sent : n.trade = job[h].trade /\ n.gwsr < job[h].gwsr => Key(n) \in events
    BY <2>1, <2>2 DEF InOrder, AtWork
  <2>4. \A q, k : <<q, k>> = Key(job[h]) => q = job[h].trade /\ k = job[h].gwsr
    BY <2>2
  <2>5. \A q \in Trades, k \in Nat : <<q, k>> \in events' => k <= gwsr'[q]
    BY <2>1, <2>2, <2>4 DEF ClosedInv
  <2>6. \A n \in sent', k \in Nat : <<n.trade, k>> \in events' /\ n.gwsr < k => Key(n) \in events'
    BY <2>1, <2>3, <2>4 DEF ClosedInv
  <2> QED
    BY <2>5, <2>6 DEF ClosedInv
<1>4. events' = events \/ \E h \in Handlers : RecordEvent(h)
  BY DEF Next, vars, dbVars, EcpayStep, DeclineFirst, FirstPayment, ChargePeriod,
         DeclinePeriod, Send, Receive, HandlerStep, FindRow, WriteFirst, WritePeriod, Reply,
         Abort, SweepStep, Load, Persist, Finish, Query, AbortSweep, Stop, ReadRow,
         CancelStep, CallEcpay, WriteCancel, AbortCancel
<1> QED
  BY <1>1, <1>2, <1>3, <1>4

\* The last notification is written last.
LEMMA StatusStep ==
  ASSUME IInv, NumberInv, ClosedInv, StatusInv, InOrder, [Next]_vars
  PROVE  StatusInv'
<1> SUFFICES ASSUME faults' = 0, NEW m \in Trades
             PROVE  /\ row'[m].status = "past_due" =>
                         gate'[m].failing \/ ~LastRecorded(m)' \/ \E h \in Handlers : Holds(h, m)'
                    /\ \A h \in Handlers : Holds(h, m)' =>
                         job'[h].gwsr = gwsr'[m] \/ ~LastRecorded(m)'
  BY DEF StatusInv
<1> DEFINE Goal == /\ row'[m].status = "past_due" =>
                        gate'[m].failing \/ ~LastRecorded(m)' \/ \E h \in Handlers : Holds(h, m)'
                   /\ \A h \in Handlers : Holds(h, m)' =>
                        job'[h].gwsr = gwsr'[m] \/ ~LastRecorded(m)'
           Others(h) == \A g \in Handlers \ {h} : pc'[g] = pc[g] /\ job'[g] = job[g]
<1> USE DEF IInv, TypeOK
<1>1. ~Fault
  BY DEF Fault
<1>2. faults = 0
  BY <1>1
     DEF Next, vars, HandlerStep, EcpayStep, DeclineFirst, FirstPayment, ChargePeriod,
         DeclinePeriod, Send, Receive, RecordEvent, FindRow, WriteFirst, WritePeriod, Reply,
         Abort, SweepStep, Load, Persist, Finish, Query, AbortSweep, Stop, ReadRow, CancelStep,
         CallEcpay, WriteCancel, AbortCancel
<1>3. /\ row[m].status = "past_due" =>
           gate[m].failing \/ ~LastRecorded(m) \/ \E h \in Handlers : Holds(h, m)
      /\ \A h \in Handlers : Holds(h, m) => job[h].gwsr = gwsr[m] \/ ~LastRecorded(m)
  BY <1>2 DEF StatusInv
<1>4. ASSUME gate'[m].failing = gate[m].failing, gwsr'[m] = gwsr[m], UNCHANGED <<events, pc, job>>,
             row'[m].status = "past_due" => row[m].status = "past_due"
      PROVE  Goal
  BY <1>3, <1>4 DEF LastRecorded, Holds, AtWork
<1>5. ASSUME NEW h \in Handlers, UNCHANGED <<gate, gwsr, events>>, Others(h), ~Holds(h, m), ~Holds(h, m)',
             row'[m].status = "past_due" => row[m].status = "past_due"
      PROVE  Goal
  BY <1>3, <1>5 DEF LastRecorded, Holds, AtWork
<1>6. ASSUME NEW q \in Trades, EcpayStep(q) PROVE Goal
  <2>1. PICK number \in Nat, ok \in BOOLEAN, total \in Nat :
           /\ Send(q, number, ok, total)
           /\ \A r \in Trades : r # q => gate'[r] = gate[r]
           /\ \/ number = 0 /\ gwsr[q] = 0 /\ gate'[q].failing = gate[q].failing
              \/ number = gwsr[q] + 1
    BY <1>6, NewNotice
  <2>2. gwsr' = [gwsr EXCEPT ![q] = number] /\ UNCHANGED <<row, events, pc, job>>
    BY <2>1 DEF Send, dbVars, handlerVars
  <2>3. CASE q # m
    BY <1>4, <2>1, <2>2, <2>3
  <2>4. CASE q = m /\ number = 0 /\ gwsr[m] = 0 /\ gate'[m].failing = gate[m].failing
    BY <1>4, <2>2, <2>4
  <2>5. CASE q = m /\ number = gwsr[m] + 1
    <3>1. gwsr'[m] = gwsr[m] + 1 /\ gwsr[m] \in Nat
      BY <2>2, <2>5
    <3>2. ~LastRecorded(m)'
      BY <2>2, <3>1 DEF LastRecorded, ClosedInv
    <3> QED
      BY <3>2
  <2> QED
    BY <2>1, <2>3, <2>4, <2>5
<1>7. ASSUME NEW h \in Handlers, NEW n \in sent, Receive(h, n) PROVE Goal
  BY <1>5, <1>7 DEF Receive, Goto, Holds, ecpayVars, dbVars
<1>8. ASSUME NEW h \in Handlers, RecordEvent(h) PROVE Goal
  <2>1. /\ pc[h] = "record" /\ job[h] \in sent /\ events' = events \cup {Key(job[h])}
        /\ pc'[h] = (IF Key(job[h]) \in events THEN "reply"
                     ELSE IF IsFirst(job[h]) THEN "write" ELSE "read")
        /\ UNCHANGED <<gate, gwsr, row, job>> /\ Others(h)
    BY <1>8 DEF RecordEvent, Goto, NoticeInv, ecpayVars
  <2>2. CASE Key(job[h]) \in events
    <3>1. events' = events
      BY <2>1, <2>2
    <3> QED
      BY <1>5, <2>1, <2>2, <3>1 DEF Holds
  <2>3. CASE job[h].trade # m
    <3>1. LastRecorded(m)' <=> LastRecorded(m)
      BY <2>1, <2>3 DEF LastRecorded, Key
    <3> QED
      BY <1>3, <2>1, <2>3, <3>1 DEF Holds, AtWork
  <2>4. CASE Key(job[h]) \notin events /\ job[h].trade = m
    <3>1. /\ Key(job[h]) = <<m, job[h].gwsr>> /\ job[h].gwsr \in Nat /\ gwsr[m] \in Nat
          /\ job[h].gwsr <= gwsr[m]
      BY <2>1, <2>4 DEF Key, Notice, NumberInv
    <3>2. \A g \in Handlers : Holds(g, m)' => g = h
      BY <2>1, <2>4 DEF InOrder, Holds, AtWork
    <3>3. CASE job[h].gwsr = gwsr[m]
      <4>1. row[m].status # "none" => ~IsFirst(job[h])
        BY <2>4, <3>1 DEF FirstInv, IsFirst
      <4>2. row[m].status = "past_due" => Holds(h, m)'
        BY <2>1, <2>4, <4>1 DEF Holds, AtWork
      <4> QED
        BY <2>1, <3>2, <3>3, <4>2
    <3>4. CASE job[h].gwsr < gwsr[m]
      <4>1. ~LastRecorded(m)
        BY <2>1, <2>4, <3>1, <3>4 DEF LastRecorded, ClosedInv
      <4>2. ~LastRecorded(m)'
        BY <2>1, <3>1, <3>4, <4>1 DEF LastRecorded
      <4> QED
        BY <4>2
    <3>5. job[h].gwsr = gwsr[m] \/ job[h].gwsr < gwsr[m]
      <4> HIDE DEF IInv, TypeOK
      <4> QED
        BY <3>1
    <3> HIDE DEF Goal
    <3> QED
      BY <3>3, <3>4, <3>5
  <2> QED
    BY <2>2, <2>3, <2>4
<1>9. ASSUME NEW h \in Handlers, FindRow(h) PROVE Goal
  <2>1. /\ pc[h] = "read" /\ UNCHANGED <<gate, gwsr, events, row, job>> /\ Others(h)
        /\ pc'[h] = (IF row[job[h].trade].status = "none" THEN "reply" ELSE "write")
    BY <1>9 DEF FindRow, Goto, ecpayVars, dbVars
  <2>2. \A g \in Handlers : Holds(g, m)' => Holds(g, m)
    BY <2>1 DEF Holds, AtWork
  <2>3. \A g \in Handlers : row[m].status # "none" /\ Holds(g, m) => Holds(g, m)'
    BY <2>1 DEF Holds, AtWork
  <2> QED
    BY <1>3, <2>1, <2>2, <2>3 DEF LastRecorded
<1>10. ASSUME NEW h \in Handlers, WriteFirst(h) PROVE Goal
  <2>1. /\ pc[h] = "write" /\ IsFirst(job[h]) /\ pc'[h] = "reply" /\ Others(h)
        /\ UNCHANGED <<gate, gwsr, events>>
    BY <1>10 DEF WriteFirst, Goto, ecpayVars
  <2>2. row'[m] = row[m] \/ row'[m].status = "active"
    BY <1>10, FirstRow
  <2> QED
    BY <1>5, <2>1, <2>2 DEF Holds
<1>11. ASSUME NEW h \in Handlers, WritePeriod(h) PROVE Goal
  <2>1. /\ pc[h] = "write" /\ ~IsFirst(job[h]) /\ pc'[h] = "reply" /\ job[h] \in sent
        /\ job'[h] = job[h] /\ Others(h) /\ UNCHANGED <<gate, gwsr, events>>
    BY <1>11 DEF WritePeriod, Goto, NoticeInv, ecpayVars
  <2>2. CASE job[h].trade # m
    <3>1. row'[m] = row[m]
      BY <1>11, <2>2, PeriodRow
    <3> QED
      BY <1>5, <2>1, <2>2, <3>1 DEF Holds, AtWork
  <2>3. CASE job[h].trade = m
    <3>1. \A g \in Handlers : ~Holds(g, m)'
      BY <2>1, <2>3 DEF InOrder, Holds, AtWork
    <3>2. job[h].gwsr = gwsr[m] \/ ~LastRecorded(m)
      BY <1>3, <2>1, <2>3 DEF Holds, AtWork
    <3>3. row'[m].status = "past_due" => ~job[h].ok
      BY <1>11, <2>3 DEF WritePeriod
    <3>4. job[h].gwsr = gwsr[m] /\ ~job[h].ok => gate[m].failing
      BY <2>1, <2>3 DEF NumberInv, IsFirst, Notice
    <3> QED
      BY <2>1, <3>1, <3>2, <3>3, <3>4 DEF LastRecorded
  <2> QED
    BY <2>2, <2>3
<1>12. ASSUME NEW h \in Handlers, Reply(h) PROVE Goal
  BY <1>5, <1>12 DEF Reply, Forget, Goto, Holds, dbVars
<1>13. ASSUME NEW w \in Sweeps, Persist(w) PROVE Goal
  <2>1. row'[m].status = row[m].status
    BY <1>13, SweepRow
  <2> QED
    BY <1>4, <1>13, <2>1 DEF Persist, ecpayVars, handlerVars
<1>14. ASSUME NEW c \in Cancels, WriteCancel(c) PROVE Goal
  <2>1. row'[m] = row[m] \/ row'[m].status = "canceled"
    BY <1>14, CancelRow
  <2> QED
    BY <1>4, <1>14, <2>1 DEF WriteCancel, ecpayVars, handlerVars
<1>15. ASSUME \A q \in Trades : ~EcpayStep(q), UNCHANGED <<row, events, pc, job>> PROVE Goal
  BY <1>4, <1>15, OldNotices
<1> HIDE DEF Goal
<1>16. ASSUME \E q \in Trades : EcpayStep(q) PROVE Goal
  BY <1>6, <1>16
<1>17. ASSUME \A q \in Trades : ~EcpayStep(q) PROVE Goal
  BY <1>1, <1>7, <1>8, <1>9, <1>10, <1>11, <1>12, <1>13, <1>14, <1>15, <1>17
     DEF Next, vars, dbVars, handlerVars, HandlerStep, Abort, SweepStep, Load, Finish, Query,
         AbortSweep, Stop, ReadRow, CancelStep, CallEcpay, AbortCancel
<1> QED
  BY <1>16, <1>17 DEF Goal

\* The sweep writes no status, but only late and overlapping notifications need it
\* to: while those of an order are handled one at a time and in order, and no step
\* fails, a row is past due only if the last charge failed (the period route).
THEOREM PastDueWhenInOrder == Spec /\ []InOrder => []PastDueIsFailing
<1>1. Init => NumberInv /\ ClosedInv /\ StatusInv
  BY DEF Init, NumberInv, ClosedInv, StatusInv, Holds, AtWork, NoRow
<1>2. IInv /\ NumberInv /\ [Next]_vars => NumberInv'
  BY NumberStep DEF IInv
<1>3. IInv /\ NumberInv /\ ClosedInv /\ InOrder /\ [Next]_vars => ClosedInv'
  BY ClosedStep DEF IInv
<1>4. IInv /\ NumberInv /\ ClosedInv /\ StatusInv /\ InOrder /\ [Next]_vars => StatusInv'
  BY StatusStep
<1>5. IInv /\ NumberInv /\ StatusInv => PastDueIsFailing
  <2> SUFFICES ASSUME IInv, NumberInv, StatusInv, faults = 0, sent \subseteq acked,
                      \A h \in Handlers : pc[h] = "idle", NEW m \in Trades,
                      row[m].status = "past_due"
               PROVE  gate[m].failing
    BY DEF PastDueIsFailing
  <2>1. LastRecorded(m)
    <3>1. CASE gwsr[m] > 0
      BY <3>1 DEF NumberInv, IInv, RecordedInv, Key, LastRecorded
    <3>2. CASE gwsr[m] = 0
      BY <3>2 DEF IInv, FirstInv, LastRecorded
    <3> QED
      BY <3>1, <3>2 DEF IInv, TypeOK
  <2> QED
    BY <2>1 DEF StatusInv, Holds, AtWork
<1> QED
  BY <1>1, <1>2, <1>3, <1>4, <1>5, InvariantHolds, PTL DEF Spec
=============================================================================
