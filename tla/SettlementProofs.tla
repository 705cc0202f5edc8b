-------------------------- MODULE SettlementProofs --------------------------
(***************************************************************************)
(* The safety properties of Settlement, for any numbers of orders,         *)
(* accounts, notifications, handlers, admins and faults.                   *)
(*                                                                         *)
(* IInv is inductive.  There is one lemma for each of its parts; a lemma   *)
(* has one step for each action that can disturb the part, and a last one  *)
(* for the actions that leave the variables it reads alone.                *)
(***************************************************************************)
EXTENDS Settlement, TLAPS

\* Every step keeps the types: a handler that acts works on a notification.
LEMMA TypeStep ==
  ASSUME TypeOK, JobInv, [Next]_vars
  PROVE  TypeOK'
<1> USE NoticesAssumption, AccountsAssumption, NoneAssumption DEF TypeOK, JobInv, Notice,
       dbVars, gatewayVars, handlerVars, adminVars, historyVars, EventKeys, Gateways, Steps
<1>1. ASSUME NEW o \in Orders, PlaceOrder(o) PROVE TypeOK'
  BY <1>1 DEF PlaceOrder
<1>2. ASSUME NEW o \in Orders, OpenCheckout(o) PROVE TypeOK'
  BY <1>2 DEF OpenCheckout
<1>3. ASSUME NEW a \in Accounts, Register(a) PROVE TypeOK'
  BY <1>3 DEF Register
<1>4. ASSUME NEW a \in Accounts, DeleteAccount(a) PROVE TypeOK'
  BY <1>4 DEF DeleteAccount
<1>5. ASSUME NEW n \in Notices, Notify(n) PROVE TypeOK'
  BY <1>5 DEF Notify
<1>6. ASSUME NEW h \in Handlers, NEW n \in Notices, Receive(h, n) PROVE TypeOK'
  BY <1>6 DEF Receive
<1>7. ASSUME NEW h \in Handlers, RecordRouteEvent(h) PROVE TypeOK'
  BY <1>7 DEF RecordRouteEvent, InsertEvent, Goto, RouteKey
<1>8. ASSUME NEW h \in Handlers, RecordOrderEvent(h) PROVE TypeOK'
  BY <1>8 DEF RecordOrderEvent, InsertEvent, Goto, AfterSettlement, OrderKey
<1>9. ASSUME NEW h \in Handlers, SettleOrder(h) PROVE TypeOK'
  BY <1>9 DEF SettleOrder, Goto
<1>10. ASSUME NEW h \in Handlers, MarkProcessed(h) PROVE TypeOK'
  BY <1>10 DEF MarkProcessed, Goto, AfterSettlement, OrderKey
<1>11. ASSUME NEW h \in Handlers, FindAccount(h) PROVE TypeOK'
  BY <1>11 DEF FindAccount, Goto, LiveAccounts
<1>12. ASSUME NEW h \in Handlers, CreateAccount(h) PROVE TypeOK'
  <2>1. /\ \/ UNCHANGED <<account, target>>
           \/ \E a \in Accounts : /\ account' = [account EXCEPT ![a] = "live"]
                                  /\ target' = [target EXCEPT ![h] = a]
        /\ pc' \in [Handlers -> Steps]
        /\ UNCHANGED <<status, email, owner, events, processed, gatewayVars, job, settled, fresh,
                       adminVars, historyVars, faults>>
    BY <1>12 DEF CreateAccount, Goto
  <2>2. account' \in [Accounts -> {"absent", "live", "deleted"}]
    BY <2>1
  <2>3. target' \in [Handlers -> Accounts \cup {None}]
    BY <2>1
  <2> QED
    BY <2>1, <2>2, <2>3
<1>13. ASSUME NEW h \in Handlers, MintToken(h) PROVE TypeOK'
  BY <1>13 DEF MintToken, Goto
<1>14. ASSUME NEW h \in Handlers, LinkOrder(h) PROVE TypeOK'
  BY <1>14 DEF LinkOrder, Goto
<1>15. ASSUME NEW h \in Handlers, SendMail(h) PROVE TypeOK'
  BY <1>15 DEF SendMail, Goto
<1>16. ASSUME NEW h \in Handlers, Announce(h) PROVE TypeOK'
  BY <1>16 DEF Announce, Goto, AfterSettlement
<1>17. ASSUME NEW h \in Handlers, CloseRouteEvent(h) PROVE TypeOK'
  BY <1>17 DEF CloseRouteEvent, Goto, RouteKey
<1>18. ASSUME NEW h \in Handlers, Reply(h) PROVE TypeOK'
  BY <1>18 DEF Reply, Forget
<1>19. ASSUME NEW h \in Handlers, Abort(h) PROVE TypeOK'
  BY <1>19 DEF Abort, Forget
<1>20. ASSUME NEW h \in Handlers, Swallow(h) PROVE TypeOK'
  BY <1>20 DEF Swallow, Goto, AfterSettlement, DeliverySteps
<1>21. ASSUME NEW d \in Admins, NEW o \in Orders, CheckRefund(d, o) PROVE TypeOK'
  BY <1>21 DEF CheckRefund
<1>22. ASSUME NEW d \in Admins, Refund(d) PROVE TypeOK'
  BY <1>22 DEF Refund
<1>23. ASSUME NEW d \in Admins, AuditRefund(d) PROVE TypeOK'
  BY <1>23 DEF AuditRefund
<1>24. ASSUME NEW d \in Admins, FailRefund(d) PROVE TypeOK'
  BY <1>24 DEF FailRefund
<1>25. ASSUME UNCHANGED vars PROVE TypeOK'
  BY <1>25 DEF vars
<1> QED
  BY <1>1, <1>2, <1>3, <1>4, <1>5, <1>6, <1>7, <1>8, <1>9, <1>10, <1>11, <1>12, <1>13,
       <1>14, <1>15, <1>16, <1>17, <1>18, <1>19, <1>20, <1>21, <1>22, <1>23, <1>24, <1>25
     DEF Next, HandlerStep, vars, dbVars, gatewayVars, handlerVars, adminVars, historyVars

\* Handlers work on sent notifications of orders that were placed.
LEMMA JobStep ==
  ASSUME TypeOK, JobInv, [Next]_vars
  PROVE  JobInv'
<1> USE NoticesAssumption, NoneAssumption DEF TypeOK, JobInv, Notice, dbVars, gatewayVars,
       handlerVars, adminVars, historyVars, Steps
<1>1. ASSUME NEW o \in Orders, PlaceOrder(o) PROVE JobInv'
  BY <1>1 DEF PlaceOrder
<1>2. ASSUME NEW o \in Orders, OpenCheckout(o) PROVE JobInv'
  BY <1>2 DEF OpenCheckout
<1>3. ASSUME NEW n \in Notices, Notify(n) PROVE JobInv'
  BY <1>3 DEF Notify
<1>4. ASSUME NEW h \in Handlers, NEW n \in Notices, Receive(h, n) PROVE JobInv'
  BY <1>4 DEF Receive
<1>5. ASSUME NEW h \in Handlers, RecordRouteEvent(h) PROVE JobInv'
  BY <1>5 DEF RecordRouteEvent, InsertEvent, Goto
<1>6. ASSUME NEW h \in Handlers, RecordOrderEvent(h) PROVE JobInv'
  BY <1>6 DEF RecordOrderEvent, InsertEvent, Goto, AfterSettlement
<1>7. ASSUME NEW h \in Handlers, SettleOrder(h) PROVE JobInv'
  BY <1>7 DEF SettleOrder, Goto
<1>8. ASSUME NEW h \in Handlers, MarkProcessed(h) PROVE JobInv'
  BY <1>8 DEF MarkProcessed, Goto, AfterSettlement
<1>9. ASSUME NEW h \in Handlers, FindAccount(h) PROVE JobInv'
  BY <1>9 DEF FindAccount, Goto, LiveAccounts
<1>10. ASSUME NEW h \in Handlers, CreateAccount(h) PROVE JobInv'
  BY <1>10 DEF CreateAccount, Goto, LiveAccounts
<1>11. ASSUME NEW h \in Handlers, MintToken(h) PROVE JobInv'
  BY <1>11 DEF MintToken, Goto
<1>12. ASSUME NEW h \in Handlers, LinkOrder(h) PROVE JobInv'
  BY <1>12 DEF LinkOrder, Goto
<1>13. ASSUME NEW h \in Handlers, SendMail(h) PROVE JobInv'
  BY <1>13 DEF SendMail, Goto
<1>14. ASSUME NEW h \in Handlers, Announce(h) PROVE JobInv'
  BY <1>14 DEF Announce, Goto, AfterSettlement
<1>15. ASSUME NEW h \in Handlers, CloseRouteEvent(h) PROVE JobInv'
  BY <1>15 DEF CloseRouteEvent, Goto
<1>16. ASSUME NEW h \in Handlers, Reply(h) PROVE JobInv'
  BY <1>16 DEF Reply, Forget
<1>17. ASSUME NEW h \in Handlers, Abort(h) PROVE JobInv'
  BY <1>17 DEF Abort, Forget
<1>18. ASSUME NEW h \in Handlers, Swallow(h) PROVE JobInv'
  BY <1>18 DEF Swallow, Goto, AfterSettlement, DeliverySteps
<1>19. ASSUME NEW d \in Admins, Refund(d) PROVE JobInv'
  BY <1>19 DEF Refund
<1>20. ASSUME UNCHANGED <<status, opened, sent, pc, job>> PROVE JobInv'
  BY <1>20
<1> QED
  BY <1>1, <1>2, <1>3, <1>4, <1>5, <1>6, <1>7, <1>8, <1>9, <1>10, <1>11, <1>12, <1>13,
       <1>14, <1>15, <1>16, <1>17, <1>18, <1>19, <1>20
     DEF Next, HandlerStep, vars, dbVars, gatewayVars, handlerVars, adminVars, historyVars,
       Register, DeleteAccount, CheckRefund, AuditRefund, FailRefund

\* The handler that made an order paid owes its notice, alone: the guarded update
\* needs a pending order, and no order that somebody owes is pending.
LEMMA OweStep ==
  ASSUME TypeOK, JobInv, OweInv, ExactlyOnceEgress, [Next]_vars
  PROVE  OweInv'
<1> USE NoticesAssumption, NoneAssumption DEF TypeOK, JobInv, Notice, Steps, dbVars,
       gatewayVars, handlerVars, adminVars, historyVars, DeliverySteps, OweInv, Owes, Bought,
       ExactlyOnceEgress
<1>1. ASSUME NEW o \in Orders, PlaceOrder(o) PROVE OweInv'
  BY <1>1 DEF PlaceOrder
<1>2. ASSUME NEW h \in Handlers, NEW n \in Notices, Receive(h, n) PROVE OweInv'
  BY <1>2 DEF Receive
<1>3. ASSUME NEW h \in Handlers, RecordRouteEvent(h) PROVE OweInv'
  BY <1>3 DEF RecordRouteEvent, InsertEvent, Goto
<1>4. ASSUME NEW h \in Handlers, RecordOrderEvent(h) PROVE OweInv'
  BY <1>4 DEF RecordOrderEvent, InsertEvent, Goto, AfterSettlement
<1>5. ASSUME NEW h \in Handlers, SettleOrder(h) PROVE OweInv'
  <2>1. \A g \in Handlers : Owes(g)' => g = h \/ Owes(g)
    BY <1>5 DEF SettleOrder, Goto
  <2>2. Owes(h)' => status[job[h].order] = "pending"
    BY <1>5 DEF SettleOrder, Goto
  <2>3. \A g \in Handlers : Owes(g) => status[job[g].order] # "pending"
    BY DEF OweInv
  <2>4. OweInv!1'
    BY <1>5 DEF SettleOrder, Goto
  <2>5. OweInv!2'
    BY <1>5, <2>1, <2>2 DEF SettleOrder, Goto
  <2>6. OweInv!3'
    BY <1>5, <2>1, <2>2, <2>3 DEF SettleOrder, Goto
  <2> QED
    BY <2>4, <2>5, <2>6
<1>6. ASSUME NEW h \in Handlers, MarkProcessed(h) PROVE OweInv'
  BY <1>6 DEF MarkProcessed, Goto, AfterSettlement
<1>7. ASSUME NEW h \in Handlers, FindAccount(h) PROVE OweInv'
  BY <1>7 DEF FindAccount, Goto, LiveAccounts
<1>8. ASSUME NEW h \in Handlers, CreateAccount(h) PROVE OweInv'
  BY <1>8 DEF CreateAccount, Goto, LiveAccounts
<1>9. ASSUME NEW h \in Handlers, MintToken(h) PROVE OweInv'
  BY <1>9 DEF MintToken, Goto
<1>10. ASSUME NEW h \in Handlers, LinkOrder(h) PROVE OweInv'
  BY <1>10 DEF LinkOrder, Goto
<1>11. ASSUME NEW h \in Handlers, SendMail(h) PROVE OweInv'
  BY <1>11 DEF SendMail, Goto
<1>12. ASSUME NEW h \in Handlers, Announce(h) PROVE OweInv'
  BY <1>12 DEF Announce, Goto, AfterSettlement
<1>13. ASSUME NEW h \in Handlers, CloseRouteEvent(h) PROVE OweInv'
  BY <1>13 DEF CloseRouteEvent, Goto
<1>14. ASSUME NEW h \in Handlers, Reply(h) PROVE OweInv'
  BY <1>14 DEF Reply, Forget
<1>15. ASSUME NEW h \in Handlers, Abort(h) PROVE OweInv'
  BY <1>15 DEF Abort, Forget
<1>16. ASSUME NEW h \in Handlers, Swallow(h) PROVE OweInv'
  BY <1>16 DEF Swallow, Goto, AfterSettlement, DeliverySteps
<1>17. ASSUME NEW d \in Admins, Refund(d) PROVE OweInv'
  BY <1>17 DEF Refund
<1>18. ASSUME UNCHANGED <<status, pc, job, settled, announced>> PROVE OweInv'
  BY <1>18
<1> QED
  BY <1>1, <1>2, <1>3, <1>4, <1>5, <1>6, <1>7, <1>8, <1>9, <1>10, <1>11, <1>12, <1>13,
       <1>14, <1>15, <1>16, <1>17, <1>18
     DEF Next, HandlerStep, vars, dbVars, gatewayVars, handlerVars, adminVars, historyVars,
       OpenCheckout, Register, DeleteAccount, Notify, CheckRefund, AuditRefund, FailRefund

\* A Stripe event has one handler: the INSERT of its key lets one through.
LEMMA RouteStep ==
  ASSUME TypeOK, JobInv, RouteInv, [Next]_vars
  PROVE  RouteInv'
<1> USE NoticesAssumption, NoneAssumption DEF TypeOK, JobInv, Notice, Steps, dbVars,
       gatewayVars, handlerVars, adminVars, historyVars, RouteInv, InRoute, RouteKey, OrderKey
<1>1. ASSUME NEW h \in Handlers, NEW n \in Notices, Receive(h, n) PROVE RouteInv'
  BY <1>1 DEF Receive
<1>2. ASSUME NEW h \in Handlers, RecordRouteEvent(h) PROVE RouteInv'
  BY <1>2 DEF RecordRouteEvent, InsertEvent, Goto
<1>3. ASSUME NEW h \in Handlers, RecordOrderEvent(h) PROVE RouteInv'
  BY <1>3 DEF RecordOrderEvent, InsertEvent, Goto, AfterSettlement
<1>4. ASSUME NEW h \in Handlers, SettleOrder(h) PROVE RouteInv'
  BY <1>4 DEF SettleOrder, Goto
<1>5. ASSUME NEW h \in Handlers, MarkProcessed(h) PROVE RouteInv'
  BY <1>5 DEF MarkProcessed, Goto, AfterSettlement
<1>6. ASSUME NEW h \in Handlers, FindAccount(h) PROVE RouteInv'
  <2>1. events' = events /\ job' = job
    BY <1>6 DEF FindAccount
  <2>2. ASSUME NEW g \in Handlers
        PROVE  (InRoute(g)' => InRoute(g)) /\ (pc'[g] = "record" => pc[g] = "record")
    BY <1>6 DEF FindAccount, Goto
  <2> QED
    BY <2>1, <2>2 DEF RouteInv
<1>7. ASSUME NEW h \in Handlers, CreateAccount(h) PROVE RouteInv'
  <2>1. events' = events /\ job' = job
    BY <1>7 DEF CreateAccount
  <2>2. ASSUME NEW g \in Handlers
        PROVE  (InRoute(g)' => InRoute(g)) /\ (pc'[g] = "record" => pc[g] = "record")
    BY <1>7 DEF CreateAccount, Goto
  <2> QED
    BY <2>1, <2>2 DEF RouteInv
<1>8. ASSUME NEW h \in Handlers, MintToken(h) PROVE RouteInv'
  BY <1>8 DEF MintToken, Goto
<1>9. ASSUME NEW h \in Handlers, LinkOrder(h) PROVE RouteInv'
  BY <1>9 DEF LinkOrder, Goto
<1>10. ASSUME NEW h \in Handlers, SendMail(h) PROVE RouteInv'
  BY <1>10 DEF SendMail, Goto
<1>11. ASSUME NEW h \in Handlers, Announce(h) PROVE RouteInv'
  BY <1>11 DEF Announce, Goto, AfterSettlement
<1>12. ASSUME NEW h \in Handlers, CloseRouteEvent(h) PROVE RouteInv'
  BY <1>12 DEF CloseRouteEvent, Goto
<1>13. ASSUME NEW h \in Handlers, Reply(h) PROVE RouteInv'
  BY <1>13 DEF Reply, Forget
<1>14. ASSUME NEW h \in Handlers, Abort(h) PROVE RouteInv'
  BY <1>14 DEF Abort, Forget
<1>15. ASSUME NEW h \in Handlers, Swallow(h) PROVE RouteInv'
  <2>1. events' = events /\ job' = job
    BY <1>15 DEF Swallow
  <2>2. ASSUME NEW g \in Handlers
        PROVE  (InRoute(g)' => InRoute(g)) /\ (pc'[g] = "record" => pc[g] = "record")
    BY <1>15 DEF Swallow, Goto, AfterSettlement, DeliverySteps
  <2> QED
    BY <2>1, <2>2 DEF RouteInv
<1>16. ASSUME UNCHANGED <<events, pc, job>> PROVE RouteInv'
  BY <1>16
<1> QED
  BY <1>1, <1>2, <1>3, <1>4, <1>5, <1>6, <1>7, <1>8, <1>9, <1>10, <1>11, <1>12, <1>13,
       <1>14, <1>15, <1>16
     DEF Next, HandlerStep, vars, dbVars, gatewayVars, handlerVars, adminVars, historyVars,
       PlaceOrder, OpenCheckout, Register, DeleteAccount, Notify,
       CheckRefund, AuditRefund, FailRefund, Refund

\* A handler marks an event processed after the order left `pending', and no order
\* returns there.
LEMMA AppliedStep ==
  ASSUME TypeOK, JobInv, OweInv, RouteInv, AppliedInv, [Next]_vars
  PROVE  AppliedInv'
<1> USE NoticesAssumption, NoneAssumption DEF TypeOK, JobInv, Notice, Steps, dbVars,
       gatewayVars, handlerVars, adminVars, historyVars, DeliverySteps, AppliedInv, OweInv, Owes,
       RouteInv, InRoute, Bought
<1>1. ASSUME NEW o \in Orders, PlaceOrder(o) PROVE AppliedInv'
  BY <1>1 DEF PlaceOrder
<1>2. ASSUME NEW h \in Handlers, NEW n \in Notices, Receive(h, n) PROVE AppliedInv'
  BY <1>2 DEF Receive
<1>3. ASSUME NEW h \in Handlers, RecordRouteEvent(h) PROVE AppliedInv'
  BY <1>3 DEF RecordRouteEvent, InsertEvent, Goto
<1>4. ASSUME NEW h \in Handlers, RecordOrderEvent(h) PROVE AppliedInv'
  BY <1>4 DEF RecordOrderEvent, InsertEvent, Goto, AfterSettlement, OrderKey
<1>5. ASSUME NEW h \in Handlers, SettleOrder(h) PROVE AppliedInv'
  BY <1>5 DEF SettleOrder, Goto
<1>6. ASSUME NEW h \in Handlers, MarkProcessed(h) PROVE AppliedInv'
  BY <1>6 DEF MarkProcessed, Goto, AfterSettlement
<1>7. ASSUME NEW h \in Handlers, FindAccount(h) PROVE AppliedInv'
  BY <1>7 DEF FindAccount, Goto, LiveAccounts
<1>8. ASSUME NEW h \in Handlers, CreateAccount(h) PROVE AppliedInv'
  BY <1>8 DEF CreateAccount, Goto, LiveAccounts
<1>9. ASSUME NEW h \in Handlers, MintToken(h) PROVE AppliedInv'
  BY <1>9 DEF MintToken, Goto
<1>10. ASSUME NEW h \in Handlers, LinkOrder(h) PROVE AppliedInv'
  BY <1>10 DEF LinkOrder, Goto
<1>11. ASSUME NEW h \in Handlers, SendMail(h) PROVE AppliedInv'
  BY <1>11 DEF SendMail, Goto
<1>12. ASSUME NEW h \in Handlers, Announce(h) PROVE AppliedInv'
  BY <1>12 DEF Announce, Goto, AfterSettlement
<1>13. ASSUME NEW h \in Handlers, CloseRouteEvent(h) PROVE AppliedInv'
  BY <1>13 DEF CloseRouteEvent, Goto
<1>14. ASSUME NEW h \in Handlers, Reply(h) PROVE AppliedInv'
  BY <1>14 DEF Reply, Forget
<1>15. ASSUME NEW h \in Handlers, Abort(h) PROVE AppliedInv'
  BY <1>15 DEF Abort, Forget
<1>16. ASSUME NEW h \in Handlers, Swallow(h) PROVE AppliedInv'
  BY <1>16 DEF Swallow, Goto, AfterSettlement, DeliverySteps
<1>17. ASSUME NEW d \in Admins, Refund(d) PROVE AppliedInv'
  BY <1>17 DEF Refund
<1>18. ASSUME UNCHANGED <<status, pc, job>> PROVE AppliedInv'
  BY <1>18
<1> QED
  BY <1>1, <1>2, <1>3, <1>4, <1>5, <1>6, <1>7, <1>8, <1>9, <1>10, <1>11, <1>12, <1>13,
       <1>14, <1>15, <1>16, <1>17, <1>18
     DEF Next, HandlerStep, vars, dbVars, gatewayVars, handlerVars, adminVars, historyVars,
       OpenCheckout, Register, DeleteAccount, Notify, CheckRefund, AuditRefund, FailRefund

\* An account is somebody's new account once: only its creator may say so, and it
\* stays taken.
LEMMA ClaimStep ==
  ASSUME TypeOK, JobInv, ClaimInv, [Next]_vars
  PROVE  ClaimInv'
<1> USE NoticesAssumption, NoneAssumption DEF TypeOK, JobInv, Notice, Steps, dbVars,
       gatewayVars, handlerVars, adminVars, historyVars, DeliverySteps, ClaimInv, Claims
<1>1. ASSUME NEW a \in Accounts, Register(a) PROVE ClaimInv'
  BY <1>1 DEF Register
<1>2. ASSUME NEW a \in Accounts, DeleteAccount(a) PROVE ClaimInv'
  BY <1>2 DEF DeleteAccount
<1>3. ASSUME NEW h \in Handlers, NEW n \in Notices, Receive(h, n) PROVE ClaimInv'
  BY <1>3 DEF Receive
<1>4. ASSUME NEW h \in Handlers, RecordRouteEvent(h) PROVE ClaimInv'
  BY <1>4 DEF RecordRouteEvent, InsertEvent, Goto
<1>5. ASSUME NEW h \in Handlers, RecordOrderEvent(h) PROVE ClaimInv'
  BY <1>5 DEF RecordOrderEvent, InsertEvent, Goto, AfterSettlement
<1>6. ASSUME NEW h \in Handlers, SettleOrder(h) PROVE ClaimInv'
  BY <1>6 DEF SettleOrder, Goto
<1>7. ASSUME NEW h \in Handlers, MarkProcessed(h) PROVE ClaimInv'
  BY <1>7 DEF MarkProcessed, Goto, AfterSettlement
<1>8. ASSUME NEW h \in Handlers, FindAccount(h) PROVE ClaimInv'
  BY <1>8 DEF FindAccount, Goto, LiveAccounts
<1>9. ASSUME NEW h \in Handlers, CreateAccount(h) PROVE ClaimInv'
  BY <1>9 DEF CreateAccount, Goto, LiveAccounts
<1>10. ASSUME NEW h \in Handlers, MintToken(h) PROVE ClaimInv'
  BY <1>10 DEF MintToken, Goto
<1>11. ASSUME NEW h \in Handlers, LinkOrder(h) PROVE ClaimInv'
  BY <1>11 DEF LinkOrder, Goto
<1>12. ASSUME NEW h \in Handlers, SendMail(h) PROVE ClaimInv'
  BY <1>12 DEF SendMail, Goto
<1>13. ASSUME NEW h \in Handlers, Announce(h) PROVE ClaimInv'
  BY <1>13 DEF Announce, Goto, AfterSettlement
<1>14. ASSUME NEW h \in Handlers, CloseRouteEvent(h) PROVE ClaimInv'
  BY <1>14 DEF CloseRouteEvent, Goto
<1>15. ASSUME NEW h \in Handlers, Reply(h) PROVE ClaimInv'
  BY <1>15 DEF Reply, Forget
<1>16. ASSUME NEW h \in Handlers, Abort(h) PROVE ClaimInv'
  BY <1>16 DEF Abort, Forget
<1>17. ASSUME NEW h \in Handlers, Swallow(h) PROVE ClaimInv'
  BY <1>17 DEF Swallow, Goto, AfterSettlement, DeliverySteps
<1>18. ASSUME UNCHANGED <<account, pc, target, fresh, newBuyer>> PROVE ClaimInv'
  BY <1>18
<1> QED
  BY <1>1, <1>2, <1>3, <1>4, <1>5, <1>6, <1>7, <1>8, <1>9, <1>10, <1>11, <1>12, <1>13,
       <1>14, <1>15, <1>16, <1>17, <1>18
     DEF Next, HandlerStep, vars, dbVars, gatewayVars, handlerVars, adminVars, historyVars,
       PlaceOrder, OpenCheckout, Notify,
       CheckRefund, AuditRefund, FailRefund, Refund

\* Delivery follows the address of the order, which never changes, to an account
\* whose address never changes.
LEMMA TargetStep ==
  ASSUME TypeOK, JobInv, OweInv, TargetInv, [Next]_vars
  PROVE  TargetInv'
<1> USE AccountsAssumption, NoticesAssumption, NoneAssumption DEF TypeOK, JobInv, Notice,
       Steps, dbVars, gatewayVars, handlerVars, adminVars, historyVars, DeliverySteps, TargetInv,
       OweInv, Owes, Bought
<1>1. ASSUME NEW o \in Orders, PlaceOrder(o) PROVE TargetInv'
  BY <1>1 DEF PlaceOrder
<1>2. ASSUME NEW a \in Accounts, DeleteAccount(a) PROVE TargetInv'
  BY <1>2 DEF DeleteAccount
<1>3. ASSUME NEW h \in Handlers, NEW n \in Notices, Receive(h, n) PROVE TargetInv'
  BY <1>3 DEF Receive
<1>4. ASSUME NEW h \in Handlers, RecordRouteEvent(h) PROVE TargetInv'
  BY <1>4 DEF RecordRouteEvent, InsertEvent, Goto
<1>5. ASSUME NEW h \in Handlers, RecordOrderEvent(h) PROVE TargetInv'
  BY <1>5 DEF RecordOrderEvent, InsertEvent, Goto, AfterSettlement
<1>6. ASSUME NEW h \in Handlers, SettleOrder(h) PROVE TargetInv'
  BY <1>6 DEF SettleOrder, Goto
<1>7. ASSUME NEW h \in Handlers, MarkProcessed(h) PROVE TargetInv'
  BY <1>7 DEF MarkProcessed, Goto, AfterSettlement
<1>8. ASSUME NEW h \in Handlers, FindAccount(h) PROVE TargetInv'
  BY <1>8 DEF FindAccount, Goto, LiveAccounts
<1>9. ASSUME NEW h \in Handlers, CreateAccount(h) PROVE TargetInv'
  <2>1. pc[h] = "create" /\ UNCHANGED <<status, email, owner, job, delivered>>
    BY <1>9 DEF CreateAccount
  <2>2. CASE \E a \in Accounts : /\ AccountEmail[a] = email[job[h].order]
                               /\ target' = [target EXCEPT ![h] = a]
                               /\ Goto(h, "token")
    BY <2>1, <2>2 DEF Goto
  <2>3. CASE Goto(h, "announce") /\ UNCHANGED target
    BY <2>1, <2>3 DEF Goto
  <2> QED
    BY <1>9, <2>2, <2>3 DEF CreateAccount
<1>10. ASSUME NEW h \in Handlers, MintToken(h) PROVE TargetInv'
  BY <1>10 DEF MintToken, Goto
<1>11. ASSUME NEW h \in Handlers, LinkOrder(h) PROVE TargetInv'
  BY <1>11 DEF LinkOrder, Goto
<1>12. ASSUME NEW h \in Handlers, SendMail(h) PROVE TargetInv'
  BY <1>12 DEF SendMail, Goto
<1>13. ASSUME NEW h \in Handlers, Announce(h) PROVE TargetInv'
  BY <1>13 DEF Announce, Goto, AfterSettlement
<1>14. ASSUME NEW h \in Handlers, CloseRouteEvent(h) PROVE TargetInv'
  BY <1>14 DEF CloseRouteEvent, Goto
<1>15. ASSUME NEW h \in Handlers, Reply(h) PROVE TargetInv'
  BY <1>15 DEF Reply, Forget
<1>16. ASSUME NEW h \in Handlers, Abort(h) PROVE TargetInv'
  BY <1>16 DEF Abort, Forget
<1>17. ASSUME NEW h \in Handlers, Swallow(h) PROVE TargetInv'
  BY <1>17 DEF Swallow, Goto, AfterSettlement, DeliverySteps
<1>18. ASSUME NEW d \in Admins, Refund(d) PROVE TargetInv'
  BY <1>18 DEF Refund
<1>19. ASSUME UNCHANGED <<status, email, owner, pc, job, target, delivered>>
      PROVE  TargetInv'
  BY <1>19
<1> QED
  BY <1>1, <1>2, <1>3, <1>4, <1>5, <1>6, <1>7, <1>8, <1>9, <1>10, <1>11, <1>12, <1>13,
       <1>14, <1>15, <1>16, <1>17, <1>18, <1>19
     DEF Next, HandlerStep, vars, dbVars, gatewayVars, handlerVars, adminVars, historyVars,
       OpenCheckout, Register, Notify, CheckRefund, AuditRefund, FailRefund

\* A notification is answered once it was recorded, by this handler or before.
LEMMA RecordedStep ==
  ASSUME TypeOK, JobInv, RouteInv, RecordedInv, [Next]_vars
  PROVE  RecordedInv'
<1> USE NoticesAssumption, NoneAssumption DEF TypeOK, JobInv, Notice, Steps, dbVars,
       gatewayVars, handlerVars, adminVars, historyVars, DeliverySteps, RecordedInv, FirstKey
<1>1. ASSUME NEW h \in Handlers, NEW n \in Notices, Receive(h, n) PROVE RecordedInv'
  BY <1>1 DEF Receive
<1>2. ASSUME NEW h \in Handlers, RecordRouteEvent(h) PROVE RecordedInv'
  BY <1>2 DEF RecordRouteEvent, InsertEvent, Goto
<1>3. ASSUME NEW h \in Handlers, RecordOrderEvent(h) PROVE RecordedInv'
  BY <1>3 DEF RecordOrderEvent, InsertEvent, Goto, AfterSettlement, RouteInv, InRoute
<1>4. ASSUME NEW h \in Handlers, Reply(h) PROVE RecordedInv'
  BY <1>4 DEF Reply, Forget
<1>5. ASSUME NEW h \in Handlers, Abort(h) PROVE RecordedInv'
  BY <1>5 DEF Abort, Forget
<1>6. ASSUME NEW h \in Handlers, NEW step \in Steps, pc[h] \notin {"idle", "route", "record"},
             Goto(h, step), UNCHANGED <<events, acked, job>>
      PROVE  RecordedInv'
  BY <1>6 DEF Goto
<1>7. ASSUME UNCHANGED <<events, acked, pc, job>> PROVE RecordedInv'
  BY <1>7
<1>8. ASSUME NEW h \in Handlers, HandlerStep(h) \/ Swallow(h) PROVE RecordedInv'
  <2>1. CASE SettleOrder(h) \/ MarkProcessed(h) \/ Announce(h) \/ CloseRouteEvent(h) \/ Swallow(h)
    BY <1>6, <2>1 DEF SettleOrder, MarkProcessed, Announce, CloseRouteEvent, Swallow, AfterSettlement
  <2>2. CASE FindAccount(h) \/ CreateAccount(h) \/ MintToken(h) \/ LinkOrder(h) \/ SendMail(h)
    <3>1. pc[h] \in {"find", "create", "token", "link", "mail"} /\ UNCHANGED <<events, acked, job>>
      BY <2>2 DEF FindAccount, CreateAccount, MintToken, LinkOrder, SendMail
    <3>2. \E step \in {"create", "token", "link", "mail", "announce"} : Goto(h, step)
      BY <2>2 DEF FindAccount, CreateAccount, MintToken, LinkOrder, SendMail
    <3> QED
      BY <1>6, <3>1, <3>2
  <2> QED
    BY <1>2, <1>3, <1>4, <1>8, <2>1, <2>2 DEF HandlerStep
<1> QED
  BY <1>1, <1>5, <1>7, <1>8
     DEF Next, vars, PlaceOrder, OpenCheckout, Register, DeleteAccount, Notify,
       CheckRefund, AuditRefund, FailRefund, Refund

\* A handler that has settled goes on without dropping what it holds.
LEMMA GoingOn ==
  ASSUME TypeOK, HeldInv, NEW h \in Handlers, NEW step \in Steps, Goto(h, step),
         UNCHANGED <<status, events, job, settled, announced, faults>>,
         pc[h] \notin {"record", "settle"}, Owes(h) => Owes(h)'
  PROVE  HeldInv'
<1> SUFFICES ASSUME faults = 0 PROVE HeldInv'
  BY DEF HeldInv
<1>1. \A g \in Handlers : g # h => pc'[g] = pc[g]
  BY DEF TypeOK, Goto
<1>2. ASSUME NEW n \in Notices, n.gateway = "stripe" PROVE RouteHeld(n)'
  BY <1>1, <1>2 DEF HeldInv, RouteHeld, Holds, RouteKey, OrderKey
<1>3. ASSUME NEW n \in Notices PROVE PaymentHeld(n)'
  BY <1>1 DEF HeldInv, PaymentHeld, Holds, OrderKey
<1>4. ASSUME NEW o \in Orders PROVE NoticeHeld(o)'
  BY <1>1 DEF HeldInv, NoticeHeld, Owes
<1> QED
  BY <1>2, <1>3, <1>4 DEF HeldInv

\* What was recorded and not yet applied or announced is in the hands of the handler
\* that recorded it, which passes it on from key to key.
LEMMA HeldStep ==
  ASSUME TypeOK, JobInv, OweInv, RouteInv, HeldInv, [Next]_vars
  PROVE  HeldInv'
<1> USE NoticesAssumption DEF TypeOK, JobInv, Notice, dbVars, gatewayVars, handlerVars,
       adminVars, historyVars
<1>1. ASSUME NEW o \in Orders, PlaceOrder(o) PROVE HeldInv'
  <2> SUFFICES ASSUME faults = 0 PROVE HeldInv'
    BY <1>1 DEF PlaceOrder, HeldInv
  <2>1. \A q \in Orders : status[q] \notin {"none", "pending"} => status'[q] = status[q]
    BY <1>1 DEF PlaceOrder
  <2>2. \A q \in Orders : status'[q] \in Bought => status[q] \in Bought
    BY <1>1 DEF PlaceOrder, Bought
  <2>3. UNCHANGED <<events, pc, job, settled, announced>>
    BY <1>1 DEF PlaceOrder
  <2>4. ASSUME NEW n \in Notices PROVE PaymentHeld(n)' /\ (n.gateway = "stripe" => RouteHeld(n)')
    BY <2>1, <2>3 DEF HeldInv, PaymentHeld, RouteHeld, Holds, OrderKey, RouteKey
  <2>5. ASSUME NEW q \in Orders PROVE NoticeHeld(q)'
    BY <2>2, <2>3 DEF HeldInv, NoticeHeld, Owes
  <2> QED
    BY <2>4, <2>5 DEF HeldInv
<1>2. ASSUME NEW h \in Handlers, NEW n \in Notices, Receive(h, n) PROVE HeldInv'
  <2> SUFFICES ASSUME faults = 0 PROVE HeldInv'
    BY <1>2 DEF Receive, HeldInv
  <2>1. pc[h] = "idle" /\ \A g \in Handlers \ {h} : pc'[g] = pc[g] /\ job'[g] = job[g]
    BY <1>2 DEF Receive
  <2>2. UNCHANGED <<status, events, settled, announced>>
    BY <1>2 DEF Receive
  <2>3. ASSUME NEW k \in Notices, NEW g \in Handlers, NEW step \in {"record", "settle"},
               Holds(g, k, step)
        PROVE  Holds(g, k, step)'
    BY <2>1, <2>3 DEF Holds
  <2>5. ASSUME NEW k \in Notices PROVE PaymentHeld(k)'
    BY <2>2, <2>3 DEF HeldInv, PaymentHeld, OrderKey
  <2>6. ASSUME NEW k \in Notices, k.gateway = "stripe" PROVE RouteHeld(k)'
    BY <2>2, <2>3, <2>6 DEF HeldInv, RouteHeld, OrderKey, RouteKey
  <2>4. ASSUME NEW o \in Orders PROVE NoticeHeld(o)'
    BY <2>1, <2>2 DEF HeldInv, NoticeHeld, Owes, DeliverySteps
  <2> QED
    BY <2>4, <2>5, <2>6 DEF HeldInv
<1>3. ASSUME NEW h \in Handlers, RecordRouteEvent(h) PROVE HeldInv'
  <2> SUFFICES ASSUME faults = 0 PROVE HeldInv'
    BY <1>3 DEF RecordRouteEvent, InsertEvent, HeldInv
  <2>1. /\ pc[h] = "route" /\ job[h] \in Notices /\ job[h].gateway = "stripe"
        /\ \A g \in Handlers \ {h} : pc'[g] = pc[g]
        /\ RouteKey(job[h]) \notin events => pc'[h] = "record"
        /\ events' = events \cup {RouteKey(job[h])}
        /\ UNCHANGED <<status, job, settled, announced>>
    BY <1>3 DEF RecordRouteEvent, InsertEvent, Goto
  <2>2. ASSUME NEW n \in Notices, n.gateway = "stripe" PROVE RouteHeld(n)'
    <3>1. CASE RouteKey(n) \in events
      <4>1. OrderKey(n) \in events \/ \E g \in Handlers : Holds(g, n, "record")
        BY <2>2, <3>1 DEF HeldInv, RouteHeld
      <4>2. ASSUME NEW g \in Handlers, Holds(g, n, "record") PROVE Holds(g, n, "record")'
        BY <2>1, <4>2 DEF Holds
      <4>3. OrderKey(n) \in events => OrderKey(n) \in events'
        BY <2>1
      <4> QED
        BY <4>1, <4>2, <4>3 DEF RouteHeld, OrderKey
    <3>2. CASE RouteKey(n) \notin events
      <4>1. CASE job[h].id = n.id
        BY <2>1, <2>2, <3>2, <4>1 DEF RouteHeld, Holds, RouteKey
      <4>2. CASE job[h].id # n.id
        BY <2>1, <3>2, <4>2 DEF RouteHeld, RouteKey
      <4> QED
        BY <4>1, <4>2
    <3> QED
      BY <3>1, <3>2
  <2>3. ASSUME NEW n \in Notices PROVE PaymentHeld(n)'
    <3>1. OrderKey(n) \in events' => OrderKey(n) \in events
      BY <2>1 DEF OrderKey, RouteKey, Gateways
    <3>2. ASSUME NEW g \in Handlers, Holds(g, n, "settle") PROVE Holds(g, n, "settle")'
      BY <2>1, <3>2 DEF Holds
    <3> QED
      BY <2>1, <3>1, <3>2 DEF HeldInv, PaymentHeld, OrderKey
  <2>4. ASSUME NEW o \in Orders PROVE NoticeHeld(o)'
    BY <2>1 DEF HeldInv, NoticeHeld, Owes, DeliverySteps
  <2> QED
    BY <2>2, <2>3, <2>4 DEF HeldInv
<1>4. ASSUME NEW h \in Handlers, RecordOrderEvent(h) PROVE HeldInv'
  <2> SUFFICES ASSUME faults = 0 PROVE HeldInv'
    BY <1>4 DEF RecordOrderEvent, InsertEvent, HeldInv
  <2>1. /\ pc[h] = "record" /\ job[h] \in Notices
        /\ \A g \in Handlers \ {h} : pc'[g] = pc[g]
        /\ OrderKey(job[h]) \notin events => pc'[h] = "settle"
        /\ events' = events \cup {OrderKey(job[h])}
        /\ UNCHANGED <<status, job, settled, announced>>
    BY <1>4 DEF RecordOrderEvent, InsertEvent, Goto
  <2>2. ASSUME NEW n \in Notices, n.gateway = "stripe" PROVE RouteHeld(n)'
    <3>1. RouteKey(n) \in events' => RouteKey(n) \in events
      BY <2>1 DEF OrderKey, RouteKey, Gateways
    <3> QED
      BY <2>1, <2>2, <3>1 DEF HeldInv, RouteHeld, Holds, OrderKey, RouteKey
  <2>3. ASSUME NEW n \in Notices PROVE PaymentHeld(n)'
    <3>1. CASE OrderKey(n) \in events
      BY <2>1, <3>1 DEF HeldInv, PaymentHeld, Holds, OrderKey
    <3>2. CASE OrderKey(n) \notin events
      BY <2>1, <3>2 DEF PaymentHeld, Holds, OrderKey
    <3> QED
      BY <3>1, <3>2
  <2>4. ASSUME NEW o \in Orders PROVE NoticeHeld(o)'
    BY <2>1 DEF HeldInv, NoticeHeld, Owes, DeliverySteps
  <2> QED
    BY <2>2, <2>3, <2>4 DEF HeldInv
<1>5. ASSUME NEW h \in Handlers, SettleOrder(h) PROVE HeldInv'
  <2> SUFFICES ASSUME faults = 0 PROVE HeldInv'
    BY <1>5 DEF SettleOrder, HeldInv
  <2> DEFINE p == job[h].order
  <2>1. /\ pc[h] = "settle" /\ pc'[h] = "mark" /\ job[h] \in Notices /\ p \in Orders
        /\ \A g \in Handlers \ {h} : pc'[g] = pc[g] /\ settled'[g] = settled[g]
        /\ settled'[h] = (job[h].success /\ status[p] = "pending")
        /\ \A q \in Orders \ {p} : status'[q] = status[q]
        /\ status'[p] = IF status[p] = "pending" THEN IF job[h].success THEN "paid" ELSE "failed"
                         ELSE status[p]
        /\ UNCHANGED <<events, job, announced>>
    BY <1>5 DEF SettleOrder, Goto
  <2>2. status[p] # "none"
    BY <2>1
  <2>3. ASSUME NEW n \in Notices, n.gateway = "stripe" PROVE RouteHeld(n)'
    BY <2>1, <2>3 DEF HeldInv, RouteHeld, Holds, OrderKey, RouteKey
  <2>4. ASSUME NEW n \in Notices PROVE PaymentHeld(n)'
    <3>1. CASE n.order = p
      BY <2>1, <2>2, <3>1 DEF PaymentHeld
    <3>2. CASE n.order # p
      <4>1. ~Holds(h, n, "settle")
        BY <2>1, <3>2, IdsAssumption DEF Holds
      <4> QED
        BY <2>1, <3>2, <4>1 DEF HeldInv, PaymentHeld, Holds, OrderKey
    <3> QED
      BY <3>1, <3>2
  <2>5. ASSUME NEW o \in Orders PROVE NoticeHeld(o)'
    <3>1. ~Owes(h)
      BY <2>1 DEF Owes, DeliverySteps
    <3>2. CASE o = p /\ status[p] = "pending" /\ job[h].success
      BY <2>1, <3>2 DEF NoticeHeld, Owes
    <3>3. CASE ~(o = p /\ status[p] = "pending" /\ job[h].success)
      <4>1. status'[o] \in Bought => status[o] \in Bought
        BY <2>1, <3>3 DEF Bought
      <4> QED
        BY <2>1, <3>1, <4>1 DEF HeldInv, NoticeHeld, Owes
    <3> QED
      BY <3>2, <3>3
  <2> QED
    BY <2>3, <2>4, <2>5 DEF HeldInv
<1>6. ASSUME NEW h \in Handlers, MarkProcessed(h) PROVE HeldInv'
  BY <1>6, GoingOn DEF MarkProcessed, Goto, AfterSettlement, Owes, DeliverySteps, Steps
<1>7. ASSUME NEW h \in Handlers, FindAccount(h) PROVE HeldInv'
  BY <1>7, GoingOn DEF FindAccount, Goto, Owes, DeliverySteps, Steps
<1>8. ASSUME NEW h \in Handlers, CreateAccount(h) PROVE HeldInv'
  BY <1>8, GoingOn DEF CreateAccount, Goto, Owes, DeliverySteps, Steps
<1>9. ASSUME NEW h \in Handlers, MintToken(h) PROVE HeldInv'
  BY <1>9, GoingOn DEF MintToken, Goto, Owes, DeliverySteps, Steps
<1>10. ASSUME NEW h \in Handlers, LinkOrder(h) PROVE HeldInv'
  BY <1>10, GoingOn DEF LinkOrder, Goto, Owes, DeliverySteps, Steps
<1>11. ASSUME NEW h \in Handlers, SendMail(h) PROVE HeldInv'
  BY <1>11, GoingOn DEF SendMail, Goto, Owes, DeliverySteps, Steps
<1>12. ASSUME NEW h \in Handlers, Announce(h) PROVE HeldInv'
  <2> SUFFICES ASSUME faults = 0 PROVE HeldInv'
    BY <1>12 DEF Announce, HeldInv
  <2> DEFINE p == job[h].order
  <2>1. /\ pc[h] = "announce" /\ pc'[h] = AfterSettlement(job[h]) /\ p \in Orders
        /\ \A g \in Handlers \ {h} : pc'[g] = pc[g]
        /\ announced' = [announced EXCEPT ![p] = @ + 1]
        /\ UNCHANGED <<status, events, job, settled>>
    BY <1>12 DEF Announce, Goto
  <2>2. announced[p] = 0
    BY <2>1 DEF OweInv, Owes
  <2>3. announced'[p] = 1 /\ \A o \in Orders \ {p} : announced'[o] = announced[o]
    BY <2>1, <2>2
  <2>4. ASSUME NEW n \in Notices, NEW g \in Handlers, NEW step \in {"record", "settle"},
               Holds(g, n, step)
        PROVE  Holds(g, n, step)'
    BY <2>1, <2>4 DEF Holds
  <2>5. ASSUME NEW o \in Orders PROVE NoticeHeld(o)'
    BY <2>1, <2>3 DEF HeldInv, NoticeHeld, Owes
  <2>6. ASSUME NEW n \in Notices PROVE PaymentHeld(n)'
    BY <2>1, <2>4 DEF HeldInv, PaymentHeld, OrderKey
  <2>7. ASSUME NEW n \in Notices, n.gateway = "stripe" PROVE RouteHeld(n)'
    BY <2>1, <2>4, <2>7 DEF HeldInv, RouteHeld, OrderKey, RouteKey
  <2> QED
    BY <2>5, <2>6, <2>7 DEF HeldInv
<1>13. ASSUME NEW h \in Handlers, CloseRouteEvent(h) PROVE HeldInv'
  BY <1>13, GoingOn DEF CloseRouteEvent, Goto, Owes, DeliverySteps, Steps
<1>14. ASSUME NEW h \in Handlers, Reply(h) PROVE HeldInv'
  <2> SUFFICES ASSUME faults = 0 PROVE HeldInv'
    BY <1>14 DEF Reply, HeldInv
  <2>1. /\ pc[h] = "reply"
        /\ \A g \in Handlers \ {h} : pc'[g] = pc[g] /\ job'[g] = job[g] /\ settled'[g] = settled[g]
        /\ UNCHANGED <<status, events, announced>>
    BY <1>14 DEF Reply, Forget
  <2>2. ASSUME NEW k \in Notices, NEW g \in Handlers, NEW step \in {"record", "settle"},
               Holds(g, k, step)
        PROVE  Holds(g, k, step)'
    BY <2>1, <2>2 DEF Holds
  <2>3. ASSUME NEW k \in Notices PROVE PaymentHeld(k)'
    BY <2>1, <2>2 DEF HeldInv, PaymentHeld, OrderKey
  <2>4. ASSUME NEW k \in Notices, k.gateway = "stripe" PROVE RouteHeld(k)'
    BY <2>1, <2>2, <2>4 DEF HeldInv, RouteHeld, OrderKey, RouteKey
  <2>5. ASSUME NEW o \in Orders PROVE NoticeHeld(o)'
    BY <2>1 DEF HeldInv, NoticeHeld, Owes, DeliverySteps
  <2> QED
    BY <2>3, <2>4, <2>5 DEF HeldInv
<1>15. ASSUME NEW h \in Handlers, Abort(h) \/ Swallow(h) PROVE HeldInv'
  BY <1>15 DEF Abort, Swallow, HeldInv
<1>16. ASSUME NEW d \in Admins, Refund(d) PROVE HeldInv'
  <2>1. \A o \in Orders :
          status'[o] = status[o] \/ (status[o] = "paid" /\ status'[o] = "refunded")
    BY <1>16 DEF Refund
  <2>2. UNCHANGED <<events, pc, job, settled, announced, faults>>
    BY <1>16 DEF Refund
  <2>3. ASSUME NEW n \in Notices, HeldInv, faults = 0
        PROVE  PaymentHeld(n)' /\ (n.gateway = "stripe" => RouteHeld(n)')
    BY <2>1, <2>2, <2>3 DEF HeldInv, PaymentHeld, RouteHeld, Holds, OrderKey, RouteKey
  <2>4. ASSUME NEW o \in Orders, HeldInv, faults = 0 PROVE NoticeHeld(o)'
    BY <2>1, <2>2, <2>4 DEF HeldInv, NoticeHeld, Owes, Bought
  <2> QED
    BY <2>2, <2>3, <2>4 DEF HeldInv
<1>17. ASSUME NEW d \in Admins, FailRefund(d) PROVE HeldInv'
  BY <1>17 DEF FailRefund, HeldInv
<1>18. ASSUME UNCHANGED <<status, events, pc, job, settled, announced, faults>> PROVE HeldInv'
  BY <1>18 DEF HeldInv, PaymentHeld, RouteHeld, NoticeHeld, Holds, Owes, OrderKey, RouteKey
<1> QED
  BY <1>1, <1>2, <1>3, <1>4, <1>5, <1>6, <1>7, <1>8, <1>9, <1>10, <1>11, <1>12, <1>13,
       <1>14, <1>15, <1>16, <1>17, <1>18
     DEF Next, HandlerStep, vars, OpenCheckout, Register, DeleteAccount, Notify,
         CheckRefund, AuditRefund

\* A notice is dispatched by the one handler that owes it.
LEMMA EgressStep ==
  ASSUME TypeOK, JobInv, OweInv, ExactlyOnceEgress, [Next]_vars
  PROVE  ExactlyOnceEgress'
<1> USE NoticesAssumption, NoneAssumption DEF TypeOK, JobInv, Notice, Steps, dbVars,
       gatewayVars, handlerVars, adminVars, historyVars, OweInv, Owes, Bought, ExactlyOnceEgress
<1>1. ASSUME NEW o \in Orders, PlaceOrder(o) PROVE ExactlyOnceEgress'
  BY <1>1 DEF PlaceOrder
<1>2. ASSUME NEW h \in Handlers, SettleOrder(h) PROVE ExactlyOnceEgress'
  BY <1>2 DEF SettleOrder, Goto
<1>3. ASSUME NEW h \in Handlers, Announce(h) PROVE ExactlyOnceEgress'
  BY <1>3 DEF Announce, Goto, AfterSettlement
<1>4. ASSUME NEW d \in Admins, Refund(d) PROVE ExactlyOnceEgress'
  BY <1>4 DEF Refund
<1>5. ASSUME UNCHANGED <<status, announced>> PROVE ExactlyOnceEgress'
  BY <1>5
<1> QED
  BY <1>1, <1>2, <1>3, <1>4, <1>5
     DEF Next, HandlerStep, vars, dbVars, gatewayVars, handlerVars, adminVars, historyVars,
       OpenCheckout, Register, DeleteAccount, Notify, Receive, RecordRouteEvent,
       InsertEvent, Goto, RecordOrderEvent, MarkProcessed, FindAccount, CreateAccount,
       MintToken, LinkOrder, SendMail, CloseRouteEvent, Reply, Forget, Abort, Swallow,
       DeliverySteps, CheckRefund, AuditRefund, FailRefund

\* A notice that claims an account is dispatched by the one handler that may.
LEMMA NewBuyerStep ==
  ASSUME TypeOK, JobInv, ClaimInv, NewBuyerClaimedOnce, [Next]_vars
  PROVE  NewBuyerClaimedOnce'
<1> USE NoticesAssumption, NoneAssumption DEF TypeOK, JobInv, Notice, Steps, dbVars,
       gatewayVars, handlerVars, adminVars, historyVars, ClaimInv, Claims, NewBuyerClaimedOnce
<1>1. ASSUME NEW h \in Handlers, Announce(h) PROVE NewBuyerClaimedOnce'
  BY <1>1 DEF Announce, Goto, AfterSettlement
<1>2. ASSUME UNCHANGED <<newBuyer>> PROVE NewBuyerClaimedOnce'
  BY <1>2
<1> QED
  BY <1>1, <1>2
     DEF Next, HandlerStep, vars, dbVars, gatewayVars, handlerVars, adminVars, historyVars,
       PlaceOrder, OpenCheckout, Register, DeleteAccount, Notify, Receive,
       RecordRouteEvent, InsertEvent, Goto, RecordOrderEvent, SettleOrder, MarkProcessed,
       FindAccount, CreateAccount, MintToken, LinkOrder, SendMail, CloseRouteEvent, Reply,
       Forget, Abort, Swallow, DeliverySteps, CheckRefund, AuditRefund, FailRefund, Refund

\* An event is marked processed for an order that is not pending: two
\* notifications with one key are of one order.
LEMMA ProcessedStep ==
  ASSUME TypeOK, JobInv, AppliedInv, ProcessedIsApplied, [Next]_vars
  PROVE  ProcessedIsApplied'
<1> USE NoticesAssumption, NoneAssumption, IdsAssumption DEF TypeOK, JobInv, Notice, Steps,
       dbVars, gatewayVars, handlerVars, adminVars, historyVars, Gateways, AppliedInv, OrderKey,
       RouteKey, ProcessedIsApplied
<1>1. ASSUME NEW o \in Orders, PlaceOrder(o) PROVE ProcessedIsApplied'
  BY <1>1 DEF PlaceOrder
<1>2. ASSUME NEW h \in Handlers, SettleOrder(h) PROVE ProcessedIsApplied'
  BY <1>2 DEF SettleOrder, Goto
<1>3. ASSUME NEW h \in Handlers, MarkProcessed(h) PROVE ProcessedIsApplied'
  <2> DEFINE done(n) == OrderKey(n) = OrderKey(job[h])
  <2>1. ASSUME NEW n \in Notices, done(n)
        PROVE  n.order = job[h].order
    BY <1>3, <2>1 DEF MarkProcessed
  <2>2. status' = status /\ status[job[h].order] \notin {"none", "pending"}
    BY <1>3 DEF MarkProcessed
  <2>3. ASSUME NEW n \in Notices,
               OrderKey(n) \in processed' \/ (n.gateway = "stripe" /\ RouteKey(n) \in processed')
        PROVE  \/ OrderKey(n) \in processed
               \/ n.gateway = "stripe" /\ RouteKey(n) \in processed
               \/ done(n)
    BY <1>3, <2>3 DEF MarkProcessed
  <2> QED
    BY <2>1, <2>2, <2>3 DEF ProcessedIsApplied
<1>4. ASSUME NEW h \in Handlers, CloseRouteEvent(h) PROVE ProcessedIsApplied'
  <2> DEFINE done(n) == RouteKey(n) = RouteKey(job[h]) /\ n.gateway = "stripe"
  <2>1. ASSUME NEW n \in Notices, done(n)
        PROVE  n.order = job[h].order
    BY <1>4, <2>1 DEF CloseRouteEvent
  <2>2. status' = status /\ status[job[h].order] \notin {"none", "pending"}
    BY <1>4 DEF CloseRouteEvent
  <2>3. ASSUME NEW n \in Notices,
               OrderKey(n) \in processed' \/ (n.gateway = "stripe" /\ RouteKey(n) \in processed')
        PROVE  \/ OrderKey(n) \in processed
               \/ n.gateway = "stripe" /\ RouteKey(n) \in processed
               \/ done(n)
    BY <1>4, <2>3 DEF CloseRouteEvent
  <2> QED
    BY <2>1, <2>2, <2>3 DEF ProcessedIsApplied
<1>5. ASSUME NEW d \in Admins, Refund(d) PROVE ProcessedIsApplied'
  BY <1>5 DEF Refund
<1>6. ASSUME UNCHANGED <<status, processed>> PROVE ProcessedIsApplied'
  BY <1>6
<1> QED
  BY <1>1, <1>2, <1>3, <1>4, <1>5, <1>6
     DEF Next, HandlerStep, vars, dbVars, gatewayVars, handlerVars, adminVars, historyVars,
       OpenCheckout, Register, DeleteAccount, Notify, Receive, RecordRouteEvent,
       InsertEvent, Goto, RecordOrderEvent, FindAccount, CreateAccount, MintToken,
       LinkOrder, SendMail, Announce, Reply, Forget, Abort, Swallow, DeliverySteps,
       CheckRefund, AuditRefund, FailRefund

\* Only the guarded update makes an order paid, for a notification that was sent.
LEMMA ChargedStep ==
  ASSUME TypeOK, JobInv, BoughtWasCharged, [Next]_vars
  PROVE  BoughtWasCharged'
<1> USE NoticesAssumption, NoneAssumption DEF TypeOK, JobInv, Notice, Steps, dbVars,
       gatewayVars, handlerVars, adminVars, historyVars, Bought, BoughtWasCharged
<1>1. ASSUME NEW o \in Orders, PlaceOrder(o) PROVE BoughtWasCharged'
  BY <1>1 DEF PlaceOrder
<1>2. ASSUME NEW n \in Notices, Notify(n) PROVE BoughtWasCharged'
  BY <1>2 DEF Notify
<1>3. ASSUME NEW h \in Handlers, SettleOrder(h) PROVE BoughtWasCharged'
  BY <1>3 DEF SettleOrder, Goto
<1>4. ASSUME NEW d \in Admins, Refund(d) PROVE BoughtWasCharged'
  BY <1>4 DEF Refund
<1>5. ASSUME UNCHANGED <<status, sent>> PROVE BoughtWasCharged'
  BY <1>5
<1> QED
  BY <1>1, <1>2, <1>3, <1>4, <1>5
     DEF Next, HandlerStep, vars, dbVars, gatewayVars, handlerVars, adminVars, historyVars,
       OpenCheckout, Register, DeleteAccount, Receive, RecordRouteEvent, InsertEvent, Goto,
       RecordOrderEvent, MarkProcessed, FindAccount, CreateAccount, MintToken, LinkOrder,
       SendMail, Announce, CloseRouteEvent, Reply, Forget, Abort, Swallow, DeliverySteps,
       CheckRefund, AuditRefund, FailRefund

\* What moves the owner of a delivered order is a link to the account of its
\* address, or the deletion of the owner.
LEMMA DeliveredStep ==
  ASSUME TypeOK, JobInv, TargetInv, DeliveredToAddress, [Next]_vars
  PROVE  DeliveredToAddress'
<1> USE AccountsAssumption, NoticesAssumption, NoneAssumption DEF TypeOK, JobInv, Notice,
       Steps, dbVars, gatewayVars, handlerVars, adminVars, historyVars, TargetInv, DeliveredToAddress,
       Bought
<1>1. ASSUME NEW o \in Orders, PlaceOrder(o) PROVE DeliveredToAddress'
  BY <1>1 DEF PlaceOrder
<1>2. ASSUME NEW a \in Accounts, DeleteAccount(a) PROVE DeliveredToAddress'
  BY <1>2 DEF DeleteAccount
<1>3. ASSUME NEW h \in Handlers, LinkOrder(h) PROVE DeliveredToAddress'
  BY <1>3 DEF LinkOrder, Goto
<1>4. ASSUME NEW h \in Handlers, SendMail(h) PROVE DeliveredToAddress'
  BY <1>4 DEF SendMail, Goto
<1>5. ASSUME UNCHANGED <<email, owner, delivered>> PROVE DeliveredToAddress'
  BY <1>5
<1> QED
  BY <1>1, <1>2, <1>3, <1>4, <1>5
     DEF Next, HandlerStep, vars, dbVars, gatewayVars, handlerVars, adminVars, historyVars,
       OpenCheckout, Register, Notify, Receive, RecordRouteEvent, InsertEvent, Goto,
       RecordOrderEvent, SettleOrder, MarkProcessed, FindAccount, CreateAccount, MintToken,
       Announce, CloseRouteEvent, Reply, Forget, Abort, Swallow, DeliverySteps,
       CheckRefund, AuditRefund, FailRefund, Refund

\* The guarded update hits an order once, so one admin has it to audit.
LEMMA AuditStep ==
  ASSUME TypeOK, AuditInv, RefundedOnce, [Next]_vars
  PROVE  AuditInv'
<1> USE NoticesAssumption, NoneAssumption DEF TypeOK, AuditInv, RefundedOnce, dbVars,
       gatewayVars, handlerVars, adminVars, historyVars
<1>1. ASSUME NEW o \in Orders, PlaceOrder(o) PROVE AuditInv'
  BY <1>1 DEF PlaceOrder
<1>2. ASSUME NEW h \in Handlers, SettleOrder(h) PROVE AuditInv'
  BY <1>2 DEF SettleOrder, Goto
<1>3. ASSUME NEW d \in Admins, Refund(d) PROVE AuditInv'
  <2> DEFINE o == refunding[d]
  <2>1. CASE status[o] # "paid"
    BY <1>3, <2>1 DEF Refund
  <2>2. CASE status[o] = "paid"
    <3>1. /\ o \in Orders
          /\ status' = [status EXCEPT ![o] = "refunded"]
          /\ auditing' = [auditing EXCEPT ![d] = o]
          /\ audits' = audits
      BY <1>3, <2>2 DEF Refund
    <3>2. audits[o] = 0
      BY <2>2, <3>1
    <3>3. ASSUME NEW b \in Admins PROVE auditing[b] # o
      BY <2>2, <3>1, <3>3
    <3>4. refunding' = [refunding EXCEPT ![d] = None]
      BY <1>3 DEF Refund
    <3>5. auditing'[d] = o /\ \A b \in Admins \ {d} : auditing'[b] = auditing[b]
      BY <3>1
    <3> HIDE DEF o
    <3> QED
      BY <3>1, <3>2, <3>3, <3>4, <3>5
  <2> QED
    BY <2>1, <2>2
<1>4. ASSUME NEW d \in Admins, AuditRefund(d) PROVE AuditInv'
  BY <1>4 DEF AuditRefund
<1>5. ASSUME NEW d \in Admins, FailRefund(d) PROVE AuditInv'
  BY <1>5 DEF FailRefund
<1>6. ASSUME NEW d \in Admins, NEW o \in Orders, CheckRefund(d, o) PROVE AuditInv'
  BY <1>6 DEF CheckRefund
<1>7. ASSUME UNCHANGED <<status, adminVars>> PROVE AuditInv'
  BY <1>7
<1> QED
  BY <1>1, <1>2, <1>3, <1>4, <1>5, <1>6, <1>7
     DEF Next, HandlerStep, vars, dbVars, gatewayVars, handlerVars, historyVars,
       OpenCheckout, Register, DeleteAccount, Notify, Receive, RecordRouteEvent,
       InsertEvent, Goto, RecordOrderEvent, MarkProcessed, FindAccount, CreateAccount,
       MintToken, LinkOrder, SendMail, Announce, CloseRouteEvent, Reply, Forget,
       Abort, Swallow, DeliverySteps

\* The audit row of a refunded order is written by the admin whose update hit, or
\* lost by a failed step.
LEMMA RefundedStep ==
  ASSUME TypeOK, AuditInv, RefundedOnce, [Next]_vars
  PROVE  RefundedOnce'
<1> USE NoticesAssumption, NoneAssumption DEF TypeOK, AuditInv, RefundedOnce, dbVars,
       gatewayVars, handlerVars, adminVars, historyVars
<1>1. ASSUME NEW o \in Orders, PlaceOrder(o) PROVE RefundedOnce'
  BY <1>1 DEF PlaceOrder
<1>2. ASSUME NEW h \in Handlers, SettleOrder(h) PROVE RefundedOnce'
  BY <1>2 DEF SettleOrder, Goto
<1>3. ASSUME NEW d \in Admins, Refund(d) PROVE RefundedOnce'
  <2> DEFINE o == refunding[d]
  <2>1. CASE status[o] # "paid"
    BY <1>3, <2>1 DEF Refund
  <2>2. CASE status[o] = "paid"
    <3>1. /\ o \in Orders
          /\ status' = [status EXCEPT ![o] = "refunded"]
          /\ auditing' = [auditing EXCEPT ![d] = o]
          /\ UNCHANGED <<audits, faults>>
      BY <1>3, <2>2 DEF Refund
    <3>2. auditing'[d] = o /\ \A b \in Admins \ {d} : auditing'[b] = auditing[b]
      BY <3>1
    <3>3. ASSUME NEW p \in Orders \ {o}, status'[p] = "refunded"
          PROVE  audits'[p] = 1 \/ faults' > 0 \/ \E b \in Admins : auditing'[b] = p
      <4>1. auditing[d] = None
        BY <1>3 DEF Refund
      <4>2. audits[p] = 1 \/ faults > 0 \/ \E b \in Admins : auditing[b] = p
        BY <3>1, <3>3
      <4> QED
        BY <3>1, <3>2, <4>1, <4>2
    <3> QED
      BY <3>1, <3>2, <3>3
  <2> QED
    BY <2>1, <2>2
<1>4. ASSUME NEW d \in Admins, AuditRefund(d) PROVE RefundedOnce'
  BY <1>4 DEF AuditRefund
<1>5. ASSUME NEW d \in Admins, FailRefund(d) PROVE RefundedOnce'
  BY <1>5 DEF FailRefund
<1>6. ASSUME NEW h \in Handlers, Abort(h) \/ Swallow(h) PROVE RefundedOnce'
  BY <1>6 DEF Abort, Swallow
<1>7. ASSUME UNCHANGED <<status, auditing, audits, faults>> PROVE RefundedOnce'
  BY <1>7
<1> QED
  BY <1>1, <1>2, <1>3, <1>4, <1>5, <1>6, <1>7
     DEF Next, HandlerStep, vars, dbVars, gatewayVars, handlerVars, historyVars,
       OpenCheckout, Register, DeleteAccount, Notify, Receive, RecordRouteEvent,
       InsertEvent, Goto, RecordOrderEvent, MarkProcessed, FindAccount, CreateAccount,
       MintToken, LinkOrder, SendMail, Announce, CloseRouteEvent, Reply, Forget,
       CheckRefund

-----------------------------------------------------------------------------
\* Nothing has happened yet.
LEMMA InitInv == Init => IInv
BY NoneAssumption
   DEF Init, IInv, TypeOK, Steps, EventKeys, JobInv, OweInv, Owes, RouteInv, InRoute,
       AppliedInv, ClaimInv, Claims, TargetInv, AuditInv, RecordedInv, HeldInv, RouteHeld, PaymentHeld, NoticeHeld,
       DeliverySteps, ExactlyOnceEgress, NewBuyerClaimedOnce, ProcessedIsApplied,
       BoughtWasCharged, Bought, DeliveredToAddress, RefundedOnce

\* Every step keeps all the parts.
LEMMA NextInv == IInv /\ [Next]_vars => IInv'
BY TypeStep, JobStep, OweStep, RouteStep, AppliedStep, ClaimStep,
   TargetStep, AuditStep, RecordedStep, HeldStep, EgressStep,
   NewBuyerStep, ProcessedStep, ChargedStep, DeliveredStep,
   RefundedStep
   DEF IInv

\* The inductive invariant holds in every reachable state of settlement.
THEOREM Inductive == Spec => []IInv
<1>1. Init => IInv
  BY InitInv
<1>2. IInv /\ [Next]_vars => IInv'
  BY NextInv
<1> QED
  BY <1>1, <1>2, PTL DEF Spec

\* Every variable of the settlement keeps its type.
THEOREM TypeCorrect == Spec => []TypeOK
<1>1. IInv => TypeOK
  BY DEF IInv
<1> QED
  BY <1>1, Inductive, PTL

\* order.completed is dispatched at most once for an order, and only once it was
\* bought, for any number of concurrent redeliveries and crashes (settleOrder).
THEOREM ExactlyOnce == Spec => []ExactlyOnceEgress
<1>1. IInv => ExactlyOnceEgress
  BY DEF IInv
<1> QED
  BY <1>1, Inductive, PTL

\* No two notices call one account new (provisionUserForOrder, emitOrderCompleted).
THEOREM ClaimedOnce == Spec => []NewBuyerClaimedOnce
<1>1. IInv => NewBuyerClaimedOnce
  BY DEF IInv
<1> QED
  BY <1>1, Inductive, PTL

\* An event with processed_at set has moved its order off `pending'
\* (markEventProcessed).
THEOREM Processed == Spec => []ProcessedIsApplied
<1>1. IInv => ProcessedIsApplied
  BY DEF IInv
<1> QED
  BY <1>1, Inductive, PTL

\* A bought order was reported paid by a gateway (settleOrder).
THEOREM Charged == Spec => []BoughtWasCharged
<1>1. IInv => BoughtWasCharged
  BY DEF IInv
<1> QED
  BY <1>1, Inductive, PTL

\* A delivered order belongs to the account of the address typed at checkout, or to
\* nobody (deliverEntitlement).
THEOREM DeliveredRight == Spec => []DeliveredToAddress
<1>1. IInv => DeliveredToAddress
  BY DEF IInv
<1> QED
  BY <1>1, Inductive, PTL

\* However many admins refund an order at a time, the audit log names it once at
\* most and only when it is refunded; a refunded order without its row has an admin
\* about to write it, unless a step failed (markRefundedAction, logAudit).
THEOREM RefundOnce == Spec => []RefundedOnce
<1>1. IInv => RefundedOnce
  BY DEF IInv
<1> QED
  BY <1>1, Inductive, PTL

\* Unless a step fails, no payment is answered and forgotten: its notice has gone
\* out, or a handler is still at it, or the order was declined before (settleOrder).
THEOREM NoPaymentForgotten == Spec => []AnsweredIsServed
<1>1. IInv => AnsweredIsServed
  <2> SUFFICES ASSUME IInv, faults = 0, NEW n \in acked
               PROVE  \/ announced[n.order] = 1
                      \/ \E h \in Handlers : job[h] # None /\ job[h].order = n.order
                      \/ status[n.order] = "failed"
    BY DEF AnsweredIsServed
  <2> USE NoticesAssumption, NoneAssumption DEF IInv, TypeOK, Notice
  <2>1. n \in Notices /\ n.order \in Orders /\ FirstKey(n) \in events
    BY DEF RecordedInv
  <2>2. ASSUME NEW h \in Handlers, NEW step \in {"record", "settle"}, Holds(h, n, step)
        PROVE  job[h] # None /\ job[h].order = n.order
    BY <2>1, <2>2, IdsAssumption DEF Holds, JobInv
  <2>3. CASE OrderKey(n) \notin events
    <3>1. \E h \in Handlers : Holds(h, n, "record")
      BY <2>1, <2>3 DEF FirstKey, HeldInv, RouteHeld
    <3> QED
      BY <2>2, <3>1
  <2>4. CASE OrderKey(n) \in events
    <3>1. CASE \E h \in Handlers : Holds(h, n, "settle")
      BY <2>2, <3>1
    <3>2. CASE status[n.order] \in Bought
      <4>1. announced[n.order] = 1 \/ \E h \in Handlers : Owes(h) /\ job[h].order = n.order
        BY <2>1, <3>2 DEF HeldInv, NoticeHeld
      <4>2. \A h \in Handlers : Owes(h) => job[h] # None
        BY DEF Owes, JobInv, DeliverySteps
      <4> QED
        BY <4>1, <4>2
    <3>3. status[n.order] \in Bought \cup {"failed"} \/ \E h \in Handlers : Holds(h, n, "settle")
      BY <2>1, <2>4 DEF HeldInv, PaymentHeld, Bought
    <3> QED
      BY <3>1, <3>2, <3>3
  <2> QED
    BY <2>3, <2>4
<1> QED
  BY <1>1, Inductive, PTL

-----------------------------------------------------------------------------
\* Between the look-up and the insert of provisionUserForOrder nobody else takes
\* the address.
Undisturbed ==
  \A h \in Handlers : pc[h] = "create" => LiveAccounts(email[job[h].order]) = {}

\* The order of a notice has its owner since the link, which has a live account to
\* point at.
OwnedInv ==
  (faults = 0 /\ \A a \in Accounts : account[a] # "deleted") =>
    /\ \A h \in Handlers : pc[h] = "link" => account[target[h]] = "live"
    /\ \A h \in Handlers : pc[h] \in {"mail", "announce"} => owner[job[h].order] # None
    /\ \A o \in Orders : announced[o] > 0 => owner[o] # None

\* Delivery reaches the notice by way of the link, unless the address was taken.
LEMMA OwnedStep ==
  ASSUME IInv, OwnedInv, Undisturbed, [Next]_vars
  PROVE  OwnedInv'
<1> USE NoticesAssumption, NoneAssumption DEF IInv, TypeOK, JobInv, Notice, Steps, dbVars,
       gatewayVars, handlerVars, adminVars, historyVars, DeliverySteps, OwnedInv
<1>1. ASSUME NEW o \in Orders, PlaceOrder(o) PROVE OwnedInv'
  <2>1. announced[o] = 0
    BY <1>1 DEF PlaceOrder, ExactlyOnceEgress, Bought
  <2> QED
    BY <1>1, <2>1 DEF PlaceOrder
<1>2. ASSUME NEW a \in Accounts, Register(a) PROVE OwnedInv'
  BY <1>2 DEF Register, TargetInv
<1>3. ASSUME NEW a \in Accounts, DeleteAccount(a) PROVE OwnedInv'
  BY <1>3 DEF DeleteAccount
<1>4. ASSUME NEW h \in Handlers, NEW n \in Notices, Receive(h, n) PROVE OwnedInv'
  BY <1>4 DEF Receive
<1>5. ASSUME NEW h \in Handlers, RecordRouteEvent(h) PROVE OwnedInv'
  BY <1>5 DEF RecordRouteEvent, InsertEvent, Goto
<1>6. ASSUME NEW h \in Handlers, RecordOrderEvent(h) PROVE OwnedInv'
  BY <1>6 DEF RecordOrderEvent, InsertEvent, Goto, AfterSettlement
<1>7. ASSUME NEW h \in Handlers, SettleOrder(h) PROVE OwnedInv'
  BY <1>7 DEF SettleOrder, Goto
<1>8. ASSUME NEW h \in Handlers, MarkProcessed(h) PROVE OwnedInv'
  BY <1>8 DEF MarkProcessed, Goto, AfterSettlement
<1>9. ASSUME NEW h \in Handlers, FindAccount(h) PROVE OwnedInv'
  BY <1>9 DEF FindAccount, Goto, LiveAccounts
<1>10. ASSUME NEW h \in Handlers, CreateAccount(h) PROVE OwnedInv'
  <2>1. /\ pc[h] = "create" /\ LiveAccounts(email[job[h].order]) = {}
        /\ UNCHANGED <<owner, job, announced, faults>>
    BY <1>10 DEF CreateAccount, Undisturbed
  <2>2. PICK a \in Accounts : /\ account[a] = "absent" /\ account' = [account EXCEPT ![a] = "live"]
                             /\ target' = [target EXCEPT ![h] = a] /\ Goto(h, "token")
    BY <1>10, <2>1 DEF CreateAccount
  <2>3. \A g \in Handlers \ {h} : pc'[g] = pc[g] /\ target'[g] = target[g]
    BY <2>2 DEF Goto
  <2>4. pc'[h] = "token" /\ \A b \in Accounts : account[b] = "live" => account'[b] = "live"
    BY <2>2 DEF Goto
  <2>5. \A b \in Accounts : account[b] = "deleted" <=> account'[b] = "deleted"
    BY <2>2
  <2>6. \A g \in Handlers : pc[g] = "link" => target[g] \in Accounts
    BY DEF TargetInv
  <2> QED
    BY <2>1, <2>3, <2>4, <2>5, <2>6
<1>11. ASSUME NEW h \in Handlers, MintToken(h) PROVE OwnedInv'
  <2>1. target[h] \in Accounts /\ account[target[h]] # "absent"
    BY <1>11 DEF MintToken, ClaimInv, Claims
  <2> QED
    BY <1>11, <2>1 DEF MintToken, Goto
<1>12. ASSUME NEW h \in Handlers, LinkOrder(h) PROVE OwnedInv'
  <2>1. target[h] \in Accounts
    BY <1>12 DEF LinkOrder, TargetInv
  <2> QED
    BY <1>12, <2>1 DEF LinkOrder, Goto
<1>13. ASSUME NEW h \in Handlers, SendMail(h) PROVE OwnedInv'
  BY <1>13 DEF SendMail, Goto
<1>14. ASSUME NEW h \in Handlers, Announce(h) PROVE OwnedInv'
  BY <1>14 DEF Announce, Goto, AfterSettlement
<1>15. ASSUME NEW h \in Handlers, CloseRouteEvent(h) PROVE OwnedInv'
  BY <1>15 DEF CloseRouteEvent, Goto
<1>16. ASSUME NEW h \in Handlers, Reply(h) PROVE OwnedInv'
  BY <1>16 DEF Reply, Forget
<1>17. ASSUME NEW h \in Handlers, Abort(h) \/ Swallow(h) PROVE OwnedInv'
  BY <1>17 DEF Abort, Swallow
<1>18. ASSUME NEW d \in Admins, FailRefund(d) PROVE OwnedInv'
  BY <1>18 DEF FailRefund
<1>19. ASSUME UNCHANGED <<owner, account, pc, job, target, announced, faults>> PROVE OwnedInv'
  BY <1>19
<1> QED
  BY <1>1, <1>2, <1>3, <1>4, <1>5, <1>6, <1>7, <1>8, <1>9, <1>10, <1>11, <1>12, <1>13,
       <1>14, <1>15, <1>16, <1>17, <1>18, <1>19
     DEF Next, HandlerStep, vars, OpenCheckout, Notify, CheckRefund, AuditRefund, Refund

\* The race over a new address is all that breaks the promise of
\* deliverEntitlement: while nobody takes an address between another's look-up and
\* insert, no step fails and no account is deleted, the order of every notice has
\* its owner.
THEOREM OwnedUnlessRaced == Spec /\ []Undisturbed => []AnnouncedOrderHasOwner
<1>1. Init => OwnedInv
  BY DEF Init, OwnedInv
<1>2. IInv /\ OwnedInv /\ Undisturbed /\ [Next]_vars => OwnedInv'
  BY OwnedStep
<1>3. OwnedInv => AnnouncedOrderHasOwner
  BY DEF OwnedInv, AnnouncedOrderHasOwner
<1> QED
  BY <1>1, <1>2, <1>3, Inductive, PTL DEF Spec

-----------------------------------------------------------------------------
\* A step of the settlement is a step of the promised life of an order, or does
\* not concern it.
LEMMA LifecycleStep ==
  ASSUME IInv, [Next]_vars
  PROVE  [Lifecycle!Next]_(Lifecycle!lifecycleVars)
<1> USE DEF Lifecycle!Next, Lifecycle!lifecycleVars, Lifecycle!Becomes, dbVars, gatewayVars,
        handlerVars, adminVars, historyVars
<1>1. ASSUME NEW o \in Orders, PlaceOrder(o) PROVE Lifecycle!Next
  BY <1>1 DEF PlaceOrder, Lifecycle!Place
<1>2. ASSUME NEW h \in Handlers, SettleOrder(h)
      PROVE  [Lifecycle!Next]_(Lifecycle!lifecycleVars)
  <2>1. job[h].order \in Orders
    BY <1>2, NoticesAssumption DEF SettleOrder, IInv, TypeOK, JobInv, Notice
  <2> QED
    BY <1>2, <2>1 DEF SettleOrder, Lifecycle!Pay, Lifecycle!Decline
<1>3. ASSUME NEW h \in Handlers, Announce(h) PROVE Lifecycle!Next
  <2>1. job[h].order \in Orders /\ announced \in [Orders -> Nat]
    BY <1>3, NoticesAssumption DEF Announce, IInv, TypeOK, JobInv, Notice
  <2>2. Owes(h)
    BY <1>3 DEF Announce, IInv, OweInv, Owes
  <2>3. status[job[h].order] \in Lifecycle!Bought /\ announced[job[h].order] = 0
    BY <2>2 DEF IInv, OweInv, Bought, Lifecycle!Bought
  <2> QED
    <3>1. announced' = [announced EXCEPT ![job[h].order] = 1] /\ UNCHANGED status
      BY <1>3, <2>1, <2>3 DEF Announce
    <3>2. Lifecycle!Announce(job[h].order)
      BY <2>1, <2>3, <3>1 DEF Lifecycle!Announce
    <3> QED
      BY <2>1, <3>2
<1>4. ASSUME NEW d \in Admins, Refund(d) PROVE [Lifecycle!Next]_(Lifecycle!lifecycleVars)
  BY <1>4, NoneAssumption DEF Refund, Lifecycle!Refund, IInv, TypeOK
<1>5. ASSUME UNCHANGED <<status, announced>> PROVE UNCHANGED Lifecycle!lifecycleVars
  BY <1>5
<1> QED
  BY <1>1, <1>2, <1>3, <1>4, <1>5
     DEF Next, HandlerStep, vars, OpenCheckout, Register, DeleteAccount, Notify, Receive,
         RecordRouteEvent, InsertEvent, Goto, RecordOrderEvent, MarkProcessed, FindAccount,
         CreateAccount, MintToken, LinkOrder, SendMail, CloseRouteEvent, Reply, Forget, Abort,
         Swallow, DeliverySteps, CheckRefund, AuditRefund, FailRefund

\* Settlement implements the order life cycle: no status but the promised ones
\* follows another, and the notice of an order goes out once, after the payment.
THEOREM Refinement == Spec => ImplementsLifecycle
<1>1. Init => Lifecycle!Init
  BY DEF Init, Lifecycle!Init
<1>2. IInv /\ [Next]_vars => [Lifecycle!Next]_(Lifecycle!lifecycleVars)
  BY LifecycleStep
<1> QED
  BY <1>1, <1>2, Inductive, PTL DEF Spec, ImplementsLifecycle, Lifecycle!Spec
=============================================================================
