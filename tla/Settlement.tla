----------------------------- MODULE Settlement -----------------------------
(***************************************************************************)
(* One-time orders: checkout, settlement by gateway notifications, delivery*)
(* to the buyer's account, the order.completed notice, refunds.            *)
(*                                                                         *)
(* A gateway delivers a notification at least once, possibly to several    *)
(* server processes at a time, and redelivers it until one of them answers *)
(* 2xx.  A handler is one such request: it runs the route and settleOrder  *)
(* one SQL statement (or one outgoing call) at a time, without a           *)
(* transaction, and may die or fail between any two of them.               *)
(***************************************************************************)
EXTENDS Integers, FiniteSets

CONSTANTS
  Orders,        \* orders.id
  Emails,        \* buyer addresses
  Accounts,      \* users.id
  AccountEmail,  \* AccountEmail[a]: the address of account a
  Notices,       \* the notifications the gateways may send
  NoticeIds,     \* event.id, MerchantTradeNo, TradeNo
  Handlers,      \* webhook requests in flight
  Admins,        \* admin requests in flight
  MaxFaults,     \* bound on crashed or failed steps
  None

Gateways == {"stripe", "ecpay", "newebpay"}

\* A signed notification; two of them may carry the same id (a declined and a
\* later successful payment of one ECPay trade number).
Notice == [id: NoticeIds, gateway: Gateways, order: Orders, success: BOOLEAN]

ASSUME NoticesAssumption == Notices \subseteq Notice

\* A gateway's id belongs to one order: it refuses a second trade under a used
\* number (generateTradeNo repeats one within a millisecond).
ASSUME IdsAssumption ==
  \A m, n \in Notices : m.gateway = n.gateway /\ m.id = n.id => m.order = n.order

ASSUME AccountsAssumption == AccountEmail \in [Accounts -> Emails]
ASSUME NoneAssumption == None \notin Accounts \cup Notices \cup Orders \cup Emails
ASSUME FaultsAssumption == MaxFaults \in Nat

VARIABLES
  (* the database *)
  status,    \* orders.status ("none": no such row)
  email,     \* orders.customer_email
  owner,     \* orders.user_id
  account,   \* users rows: "absent", "live" or "deleted"
  events,    \* payment_events.provider_event_id
  processed, \* the events whose processed_at is set
  (* the gateways *)
  opened,    \* orders with a hosted checkout
  sent,      \* notifications sent
  acked,     \* notifications answered with 2xx
  (* webhook requests *)
  pc,        \* the next statement of the handler
  job,       \* the notification it handles
  settled,   \* the flag of settleOrder: this call made the order paid
  target,    \* the account delivery found or created
  fresh,     \* isNewUser
  (* admin requests *)
  refunding, \* the order whose status the admin request has read as paid
  auditing,  \* the order it has refunded and not yet put into the audit log
  audits,    \* audits[o]: rows "order.refunded" of o in audit_log
  (* history *)
  announced, \* announced[o]: how often order.completed was dispatched for o
  newBuyer,  \* newBuyer[o]: the account that notice called new, or None
  delivered, \* orders whose delivery reached the e-mail
  faults     \* crashes and failed statements so far

dbVars == <<status, email, owner, account, events, processed>>
gatewayVars == <<opened, sent, acked>>
handlerVars == <<pc, job, settled, target, fresh>>
adminVars == <<refunding, auditing, audits>>
historyVars == <<announced, newBuyer, delivered>>
vars == <<dbVars, gatewayVars, handlerVars, adminVars, historyVars, faults>>

-----------------------------------------------------------------------------
\* payment_events.provider_event_id: the Stripe route records event.id itself
\* and settleOrder records "order:" + event.id; the other routes have one key,
\* "order-return:" + MerchantTradeNo or "newebpay:" + TradeNo.
RouteKey(n) == <<"event", n.id>>
OrderKey(n) == <<n.gateway, n.id>>
EventKeys == (Gateways \cup {"event"}) \X NoticeIds

Steps == {"idle", "route", "record", "settle", "mark", "find", "create", "token",
          "link", "mail", "announce", "close", "reply"}

\* The statements inside the try block of deliverEntitlement.
DeliverySteps == {"find", "create", "token", "link"}

TypeOK ==
  /\ status \in [Orders -> {"none", "pending", "paid", "failed", "refunded"}]
  /\ email \in [Orders -> Emails \cup {None}]
  /\ owner \in [Orders -> Accounts \cup {None}]
  /\ account \in [Accounts -> {"absent", "live", "deleted"}]
  /\ events \subseteq EventKeys
  /\ processed \subseteq EventKeys
  /\ opened \subseteq Orders
  /\ sent \subseteq Notices
  /\ acked \subseteq Notices
  /\ pc \in [Handlers -> Steps]
  /\ job \in [Handlers -> Notices \cup {None}]
  /\ settled \in [Handlers -> BOOLEAN]
  /\ target \in [Handlers -> Accounts \cup {None}]
  /\ fresh \in [Handlers -> BOOLEAN]
  /\ refunding \in [Admins -> Orders \cup {None}]
  /\ auditing \in [Admins -> Orders \cup {None}]
  /\ audits \in [Orders -> Nat]
  /\ announced \in [Orders -> Nat]
  /\ newBuyer \in [Orders -> Accounts \cup {None}]
  /\ delivered \subseteq Orders
  /\ faults \in Nat

Init ==
  /\ status = [o \in Orders |-> "none"]
  /\ email = [o \in Orders |-> None]
  /\ owner = [o \in Orders |-> None]
  /\ account = [a \in Accounts |-> "absent"]
  /\ events = {}
  /\ processed = {}
  /\ opened = {}
  /\ sent = {}
  /\ acked = {}
  /\ pc = [h \in Handlers |-> "idle"]
  /\ job = [h \in Handlers |-> None]
  /\ settled = [h \in Handlers |-> FALSE]
  /\ target = [h \in Handlers |-> None]
  /\ fresh = [h \in Handlers |-> FALSE]
  /\ refunding = [d \in Admins |-> None]
  /\ auditing = [d \in Admins |-> None]
  /\ audits = [o \in Orders |-> 0]
  /\ announced = [o \in Orders |-> 0]
  /\ newBuyer = [o \in Orders |-> None]
  /\ delivered = {}
  /\ faults = 0

\* The live account of an address; users.email is unique.
LiveAccounts(e) == {a \in Accounts : AccountEmail[a] = e /\ account[a] = "live"}

\* The id a new row gets.  Ids mean nothing, so that one order of giving out
\* those of an address stands for all.
NextId(e) == CHOOSE a \in Accounts : AccountEmail[a] = e /\ account[a] = "absent"

-----------------------------------------------------------------------------
(* The buyer *)

\* createOneTimeCheckout, up to the INSERT: a guest leaves user_id null, a
\* signed-in buyer is linked; the address is whatever the form says.
PlaceOrder(o) ==
  /\ status[o] = "none"
  /\ \E e \in Emails, a \in {x \in Accounts : account[x] = "live"} \cup {None} :
       /\ email' = [email EXCEPT ![o] = e]
       /\ owner' = [owner EXCEPT ![o] = a]
  /\ status' = [status EXCEPT ![o] = "pending"]
  /\ UNCHANGED <<account, events, processed, gatewayVars, handlerVars, adminVars,
                 historyVars, faults>>

\* createOneTimeCheckout, gateway.createCheckout; when it throws, the row stays
\* pending for ever and is never charged.
OpenCheckout(o) ==
  /\ status[o] = "pending"
  /\ opened' = opened \cup {o}
  /\ UNCHANGED <<dbVars, sent, acked, handlerVars, adminVars, historyVars, faults>>

\* registerUser: the address gets an account by other means than a purchase.
Register(a) ==
  /\ account[a] = "absent"
  /\ a = NextId(AccountEmail[a])
  /\ LiveAccounts(AccountEmail[a]) = {}
  /\ account' = [account EXCEPT ![a] = "live"]
  /\ UNCHANGED <<status, email, owner, events, processed, gatewayVars, handlerVars,
                 adminVars, historyVars, faults>>

\* deleteUser by an admin; orders.user_id is ON DELETE SET NULL.  Bound: an
\* account goes only while its address has an unused id left to come back with.
DeleteAccount(a) ==
  /\ account[a] = "live"
  /\ \E b \in Accounts : AccountEmail[b] = AccountEmail[a] /\ account[b] = "absent"
  /\ account' = [account EXCEPT ![a] = "deleted"]
  /\ owner' = [o \in Orders |-> IF owner[o] = a THEN None ELSE owner[o]]
  /\ UNCHANGED <<status, email, events, processed, gatewayVars, handlerVars, adminVars,
                 historyVars, faults>>

-----------------------------------------------------------------------------
(* The gateways *)

\* The buyer pays, or is declined: the gateway has something to report.
Notify(n) ==
  /\ n \in Notices \ sent
  /\ n.order \in opened
  /\ sent' = sent \cup {n}
  /\ UNCHANGED <<dbVars, opened, acked, handlerVars, adminVars, historyVars, faults>>

\* A delivery, first or repeated, reaches a server.  The Stripe route records
\* the event itself; the ECPay and NewebPay routes look the order up (orders are
\* never deleted, so it is there) and call settleOrder.
Receive(h, n) ==
  /\ pc[h] = "idle"
  /\ n \in sent
  /\ pc' = [pc EXCEPT ![h] = IF n.gateway = "stripe" THEN "route" ELSE "record"]
  /\ job' = [job EXCEPT ![h] = n]
  /\ UNCHANGED <<dbVars, gatewayVars, settled, target, fresh, adminVars, historyVars, faults>>

-----------------------------------------------------------------------------
(* The handler: the route and settleOrder *)

Goto(h, step) == pc' = [pc EXCEPT ![h] = step]

\* Where a handler goes when settleOrder returns.
AfterSettlement(n) == IF n.gateway = "stripe" THEN "close" ELSE "reply"

(* Definitions named Wrong... are mistakes the runs must notice; nothing uses *)
(* them.                                                                    *)

\* The event is inserted with processed_at set.
WrongInsertEarly(h, key, next, ifDuplicate) ==
  /\ events' = events \cup {key}
  /\ processed' = processed \cup {key}
  /\ Goto(h, IF key \in events THEN ifDuplicate ELSE next)
  /\ UNCHANGED <<status, email, owner, account, gatewayVars, job, settled, target,
                 fresh, adminVars, historyVars, faults>>

\* No ON CONFLICT: a duplicate raises, and the request ends without an answer.
WrongInsertRaises(h, key, next, ifDuplicate) ==
  /\ events' = events \cup {key}
  /\ Goto(h, IF key \in events THEN "idle" ELSE next)
  /\ UNCHANGED <<status, email, owner, account, processed, gatewayVars, job, settled, target,
                 fresh, adminVars, historyVars, faults>>

\* INSERT INTO payment_events ... ON CONFLICT DO NOTHING RETURNING id; an empty
\* result means a duplicate.
InsertEvent(h, key, next, ifDuplicate) ==
  /\ events' = events \cup {key}
  /\ Goto(h, IF key \in events THEN ifDuplicate ELSE next)
  /\ UNCHANGED <<status, email, owner, account, processed, gatewayVars, job, settled, target,
                 fresh, adminVars, historyVars, faults>>

\* The route goes on with a duplicate.
WrongRecordRouteEvent(h) ==
  /\ pc[h] = "route"
  /\ InsertEvent(h, RouteKey(job[h]), "record", "record")

RecordRouteEvent(h) ==
  /\ pc[h] = "route"
  /\ InsertEvent(h, RouteKey(job[h]), "record", "reply")

RecordOrderEvent(h) ==
  /\ pc[h] = "record"
  /\ InsertEvent(h, OrderKey(job[h]), "settle", AfterSettlement(job[h]))

WrongSettleOrder(h, statusTo, won) ==
  /\ pc[h] = "settle"
  /\ status' = statusTo
  /\ settled' = [settled EXCEPT ![h] = won]
  /\ Goto(h, "mark")
  /\ UNCHANGED <<email, owner, account, events, processed, gatewayVars, job, target, fresh,
                 adminVars, historyVars, faults>>

Updated(h, to) ==
  LET o == job[h].order
  IN  IF status[o] = "pending" THEN [status EXCEPT ![o] = to] ELSE status

Outcome(h) == IF job[h].success THEN "paid" ELSE "failed"

\* The row count is not looked at: every success is announced.
WrongSettleUncounted(h) == WrongSettleOrder(h, Updated(h, Outcome(h)), job[h].success)

\* The status is read again after the update.
WrongSettleReread(h) ==
  WrongSettleOrder(h, Updated(h, Outcome(h)), job[h].success /\ status'[job[h].order] = "pending")

\* The trade status is not looked at.
WrongSettleUnread(h) ==
  WrongSettleOrder(h, Updated(h, "paid"), status[job[h].order] = "pending")

\* The WHERE forgets the id.
WrongSettleEveryOrder(h) ==
  WrongSettleOrder(h, [o \in Orders |-> IF status[o] = "pending" THEN Outcome(h) ELSE status[o]],
                   job[h].success /\ status[job[h].order] = "pending")

\* UPDATE orders SET status = ... WHERE id = ... AND status = 'pending'; the row
\* count tells a successful payment whether it was the one that settled.
SettleOrder(h) ==
  /\ pc[h] = "settle"
  /\ LET o == job[h].order IN
       /\ status' = IF status[o] = "pending"
                      THEN [status EXCEPT ![o] = IF job[h].success THEN "paid" ELSE "failed"]
                      ELSE status
       /\ settled' = [settled EXCEPT ![h] = job[h].success /\ status[o] = "pending"]
  /\ Goto(h, "mark")
  /\ UNCHANGED <<email, owner, account, events, processed, gatewayVars, job, target, fresh,
                 adminVars, historyVars, faults>>

\* markEventProcessed
MarkProcessed(h) ==
  /\ pc[h] = "mark"
  /\ processed' = processed \cup {OrderKey(job[h])}
  /\ Goto(h, IF settled[h] THEN "find" ELSE AfterSettlement(job[h]))
  /\ UNCHANGED <<status, email, owner, account, events, gatewayVars, job, settled, target,
                 fresh, adminVars, historyVars, faults>>

\* An order that has an owner is delivered to that owner.
WrongFindOwner(h) ==
  /\ pc[h] = "find"
  /\ LET o == job[h].order
         found == LiveAccounts(email[o])
     IN \/ /\ owner[o] # None \/ found # {}
           /\ Goto(h, "mail")
           /\ target' = [target EXCEPT ![h] = IF owner[o] # None THEN owner[o]
                                                ELSE CHOOSE a \in found : TRUE]
        \/ /\ owner[o] = None /\ found = {}
           /\ Goto(h, "create")
           /\ UNCHANGED target
  /\ UNCHANGED <<dbVars, gatewayVars, job, settled, fresh, adminVars, historyVars, faults>>

\* deliverEntitlement and provisionUserForOrder: read the order, look the
\* address up.  An order that already points at the account needs no link.
FindAccount(h) ==
  /\ pc[h] = "find"
  /\ LET o == job[h].order
         found == LiveAccounts(email[o])
     IN \/ /\ found = {}
           /\ Goto(h, "create")
           /\ UNCHANGED target
        \/ \E a \in found :
             /\ Goto(h, IF owner[o] = a THEN "mail" ELSE "link")
             /\ target' = [target EXCEPT ![h] = a]
  /\ UNCHANGED <<dbVars, gatewayVars, job, settled, fresh, adminVars, historyVars, faults>>

\* An upsert: the account that took the address meanwhile counts as new.
WrongCreateAccount(h) ==
  /\ pc[h] = "create"
  /\ LET e == email[job[h].order] IN
       \E a \in Accounts :
         /\ AccountEmail[a] = e
         /\ IF LiveAccounts(e) # {} THEN a \in LiveAccounts(e) ELSE account[a] = "absent"
         /\ account' = [account EXCEPT ![a] = "live"]
         /\ target' = [target EXCEPT ![h] = a]
         /\ Goto(h, "token")
  /\ UNCHANGED <<status, email, owner, events, processed, gatewayVars, job, settled, fresh,
                 adminVars, historyVars, faults>>

\* INSERT INTO users.  When the address was taken since the look-up, the unique
\* constraint raises and deliverEntitlement gives up.
CreateAccount(h) ==
  /\ pc[h] = "create"
  /\ LET e == email[job[h].order]
     IN \/ \E a \in Accounts :
             /\ account[a] = "absent"
             /\ AccountEmail[a] = e
             /\ a = NextId(e)
             /\ LiveAccounts(e) = {}
             /\ account' = [account EXCEPT ![a] = "live"]
             /\ target' = [target EXCEPT ![h] = a]
             /\ Goto(h, "token")
        \/ /\ LiveAccounts(e) # {}
           /\ Goto(h, "announce")
           /\ UNCHANGED <<account, target>>
  /\ UNCHANGED <<status, email, owner, events, processed, gatewayVars, job, settled, fresh,
                 adminVars, historyVars, faults>>

\* INSERT INTO password_reset_tokens (the activation token); it refers to the
\* account, so it fails when that account was deleted meanwhile.
MintToken(h) ==
  /\ pc[h] = "token"
  /\ LET ok == account[target[h]] = "live" IN
       /\ fresh' = [fresh EXCEPT ![h] = ok]
       /\ Goto(h, IF ok THEN "link" ELSE "announce")
  /\ UNCHANGED <<dbVars, gatewayVars, job, settled, target, adminVars, historyVars, faults>>

\* UPDATE orders SET user_id = ...; fails likewise when the account is gone.
LinkOrder(h) ==
  /\ pc[h] = "link"
  /\ LET ok == account[target[h]] = "live" IN
       /\ owner' = IF ok THEN [owner EXCEPT ![job[h].order] = target[h]] ELSE owner
       /\ fresh' = [fresh EXCEPT ![h] = ok /\ fresh[h]]
       /\ Goto(h, IF ok THEN "mail" ELSE "announce")
  /\ UNCHANGED <<status, email, account, events, processed, gatewayVars, job, settled, target,
                 adminVars, historyVars, faults>>

\* The activation or receipt e-mail; its failure is swallowed.
SendMail(h) ==
  /\ pc[h] = "mail"
  /\ delivered' = delivered \cup {job[h].order}
  /\ Goto(h, "announce")
  /\ UNCHANGED <<dbVars, gatewayVars, job, settled, target, fresh, adminVars, announced,
                 newBuyer, faults>>

\* emitOrderCompleted
Announce(h) ==
  /\ pc[h] = "announce"
  /\ LET o == job[h].order IN
       /\ announced' = [announced EXCEPT ![o] = @ + 1]
       /\ newBuyer' = [newBuyer EXCEPT ![o] = IF fresh[h] THEN target[h] ELSE @]
  /\ Goto(h, AfterSettlement(job[h]))
  /\ UNCHANGED <<dbVars, gatewayVars, job, settled, target, fresh, adminVars, delivered,
                 faults>>

\* The Stripe route marks its own event processed.
CloseRouteEvent(h) ==
  /\ pc[h] = "close"
  /\ processed' = processed \cup {RouteKey(job[h])}
  /\ Goto(h, "reply")
  /\ UNCHANGED <<status, email, owner, account, events, gatewayVars, job, settled, target,
                 fresh, adminVars, historyVars, faults>>

Forget(h) ==
  /\ pc' = [pc EXCEPT ![h] = "idle"]
  /\ job' = [job EXCEPT ![h] = None]
  /\ settled' = [settled EXCEPT ![h] = FALSE]
  /\ target' = [target EXCEPT ![h] = None]
  /\ fresh' = [fresh EXCEPT ![h] = FALSE]

\* 200, "1|OK": the gateway stops retrying.
Reply(h) ==
  /\ pc[h] = "reply"
  /\ acked' = acked \cup {job[h]}
  /\ Forget(h)
  /\ UNCHANGED <<dbVars, opened, sent, adminVars, historyVars, faults>>

\* A statement throws and the route answers 500, or the process dies, or the
\* answer is lost: the gateway will retry.
Abort(h) ==
  /\ pc[h] # "idle"
  /\ faults < MaxFaults
  /\ faults' = faults + 1
  /\ Forget(h)
  /\ UNCHANGED <<dbVars, gatewayVars, adminVars, historyVars>>

\* A statement of deliverEntitlement or emitOrderCompleted throws: swallowed.
Swallow(h) ==
  /\ faults < MaxFaults
  /\ faults' = faults + 1
  /\ \/ pc[h] \in DeliverySteps /\ Goto(h, "announce")
     \/ pc[h] = "announce" /\ Goto(h, AfterSettlement(job[h]))
  /\ fresh' = [fresh EXCEPT ![h] = FALSE]
  /\ UNCHANGED <<dbVars, gatewayVars, job, settled, target, adminVars, historyVars>>

-----------------------------------------------------------------------------
(* The admin *)

\* markRefunded reads the status; canMarkRefunded lets only a paid order through.
CheckRefund(d, o) ==
  /\ refunding[d] = None
  /\ auditing[d] = None
  /\ status[o] = "paid"
  /\ refunding' = [refunding EXCEPT ![d] = o]
  /\ UNCHANGED <<dbVars, gatewayVars, handlerVars, auditing, audits, historyVars, faults>>

\* The update does not ask for the status again.
WrongRefund(d) ==
  /\ refunding[d] # None
  /\ status' = [status EXCEPT ![refunding[d]] = "refunded"]
  /\ auditing' = [auditing EXCEPT ![d] = refunding[d]]
  /\ refunding' = [refunding EXCEPT ![d] = None]
  /\ UNCHANGED <<email, owner, account, events, processed, gatewayVars, handlerVars, audits,
                 historyVars, faults>>

\* UPDATE orders SET status = 'refunded' WHERE ... AND status = 'paid'; without a
\* row hit the request ends with an error and there is nothing to audit.
Refund(d) ==
  /\ refunding[d] # None
  /\ LET o == refunding[d]
         hit == status[o] = "paid"
     IN /\ status' = IF hit THEN [status EXCEPT ![o] = "refunded"] ELSE status
        /\ auditing' = IF hit THEN [auditing EXCEPT ![d] = o] ELSE auditing
  /\ refunding' = [refunding EXCEPT ![d] = None]
  /\ UNCHANGED <<email, owner, account, events, processed, gatewayVars, handlerVars, audits,
                 historyVars, faults>>

\* defineAction, logAudit: INSERT INTO audit_log, after the handler returned.
AuditRefund(d) ==
  /\ auditing[d] # None
  /\ audits' = [audits EXCEPT ![auditing[d]] = @ + 1]
  /\ auditing' = [auditing EXCEPT ![d] = None]
  /\ UNCHANGED <<dbVars, gatewayVars, handlerVars, refunding, historyVars, faults>>

\* The update throws, or the insert of the audit row fails, which logAudit
\* swallows, or the process dies.
FailRefund(d) ==
  /\ refunding[d] # None \/ auditing[d] # None
  /\ faults < MaxFaults
  /\ faults' = faults + 1
  /\ refunding' = [refunding EXCEPT ![d] = None]
  /\ auditing' = [auditing EXCEPT ![d] = None]
  /\ UNCHANGED <<dbVars, gatewayVars, handlerVars, audits, historyVars>>

-----------------------------------------------------------------------------
HandlerStep(h) ==
  \/ RecordRouteEvent(h)
  \/ RecordOrderEvent(h)
  \/ SettleOrder(h)
  \/ MarkProcessed(h)
  \/ FindAccount(h)
  \/ CreateAccount(h)
  \/ MintToken(h)
  \/ LinkOrder(h)
  \/ SendMail(h)
  \/ Announce(h)
  \/ CloseRouteEvent(h)
  \/ Reply(h)

Next ==
  \/ \E o \in Orders : PlaceOrder(o) \/ OpenCheckout(o)
  \/ \E a \in Accounts : Register(a) \/ DeleteAccount(a)
  \/ \E n \in Notices : Notify(n)
  \/ \E h \in Handlers, n \in Notices : Receive(h, n)
  \/ \E h \in Handlers : HandlerStep(h) \/ Abort(h) \/ Swallow(h)
  \/ \E d \in Admins, o \in Orders : CheckRefund(d, o)
  \/ \E d \in Admins : Refund(d) \/ AuditRefund(d) \/ FailRefund(d)

Spec == Init /\ [][Next]_vars

\* A server that is not killed finishes the request, and a gateway that has not
\* been answered 2xx keeps retrying until a request gets through.
Fairness ==
  /\ \A h \in Handlers : WF_vars(HandlerStep(h))
  /\ \A n \in Notices : SF_vars(n \notin acked /\ \E h \in Handlers : Receive(h, n))

FairSpec == Spec /\ Fairness

-----------------------------------------------------------------------------
(* Properties *)

Bought == {"paid", "refunded"}

\* order.completed is dispatched at most once for an order, and only for one
\* that was bought, however often and however concurrently the gateway repeats
\* itself ("exactly-once holds", settleOrder step 4).
ExactlyOnceEgress ==
  \A o \in Orders : announced[o] <= 1 /\ (announced[o] > 0 => status[o] \in Bought)

\* The CRM hears at most once that an account is new: settlements of the same
\* address that race for the account do not both claim it (isNewUser).
NewBuyerClaimedOnce ==
  \A o1, o2 \in Orders :
    newBuyer[o1] # None /\ newBuyer[o1] = newBuyer[o2] => o1 = o2

\* A payment event with processed_at set has moved its order off pending: what
\* a crash strands can be found by its null processed_at (markEventProcessed
\* runs after the guarded update, in settleOrder and in the Stripe route).
ProcessedIsApplied ==
  \A n \in Notices :
    OrderKey(n) \in processed \/ (n.gateway = "stripe" /\ RouteKey(n) \in processed)
      => status[n.order] \notin {"none", "pending"}

\* No order is paid without a gateway having reported a successful payment of
\* that very order (the success branch and WHERE id of settleOrder).
BoughtWasCharged ==
  \A o \in Orders :
    status[o] \in Bought => \E n \in sent : n.order = o /\ n.success

\* A delivered order belongs to the account of the address typed at checkout,
\* or to nobody once that account is deleted; never to another account, the
\* signed-in buyer's included (deliverEntitlement re-links).
DeliveredToAddress ==
  \A o \in delivered : owner[o] # None => AccountEmail[owner[o]] = email[o]

\* Admins who all read the order as paid refund it once (markRefunded is "guarded
\* to the paid state so it fires at most once (audit-safe)"): the audit log names
\* an order at most once, and only a refunded one.  The row is written later and
\* its failure is swallowed, so a refunded order may lack it, but only after a
\* failed step; otherwise the one admin whose update hit is about to write it.
RefundedOnce ==
  \A o \in Orders :
    /\ audits[o] <= 1
    /\ audits[o] = 1 => status[o] = "refunded"
    /\ status[o] = "refunded" =>
         audits[o] = 1 \/ faults > 0 \/ \E d \in Admins : auditing[d] = o

\* The order life cycle is implemented: no status but the promised ones follows
\* another, and a notice is dispatched once, after the payment (settleOrder,
\* markRefunded, createOneTimeCheckout).
Lifecycle == INSTANCE OrderLifecycle
  WITH Orders <- Orders, status <- status, announced <- announced
ImplementsLifecycle == Lifecycle!Spec

\* Every notification ends up answered 2xx, whatever fails on the way, so that
\* no gateway retries for ever (the routes' duplicate answers).
NotificationsAnswered == \A n \in Notices : n \in sent ~> n \in acked

\* Unless a step fails or an earlier notification declined the order, a
\* successful payment leads to a bought order and its order.completed.
PaymentTakesEffect ==
  \A n \in Notices :
    n \in sent /\ n.success ~>
      \/ announced[n.order] = 1
      \/ faults > 0
      \/ status[n.order] = "failed"

\* What that rests on: unless a step fails, a successful payment that was answered
\* 2xx, and so will not be sent again, has been announced, or a handler is still at
\* it, or an earlier notification declined the order.
AnsweredIsServed ==
  faults = 0 => \A n \in acked : n.success =>
    \/ announced[n.order] = 1
    \/ \E h \in Handlers : job[h] # None /\ job[h].order = n.order
    \/ status[n.order] = "failed"

\* What the routes' comments promise of a failed step: the gateway's retry
\* settles the order.
RetrySettles ==
  \A n \in Notices : n \in sent /\ n.success ~> status[n.order] # "pending"

\* What deliverEntitlement's comment promises: the order points at the buyer's
\* account when the notice goes out (no step failed, no account was deleted).
AnnouncedOrderHasOwner ==
  \A o \in Orders :
    announced[o] > 0 /\ faults = 0 /\ (\A a \in Accounts : account[a] # "deleted")
      => owner[o] # None
-----------------------------------------------------------------------------
(* The inductive invariant: who holds what between two statements *)

\* A running handler works on a notification that was sent, of an order that
\* exists; only a Stripe route records an event of its own.
JobInv ==
  /\ \A h \in Handlers : pc[h] # "idle" => job[h] \in sent
  /\ \A h \in Handlers : pc[h] \in {"route", "close"} => job[h].gateway = "stripe"
  /\ \A n \in sent : n.order \in opened
  /\ \A o \in opened : status[o] # "none"

\* The handler made the order paid and has yet to dispatch its notice.
Owes(h) == settled[h] /\ pc[h] \in {"mark", "mail", "announce"} \cup DeliverySteps

\* Nobody dispatched the notice of an order while a handler owes it, and only
\* one handler does.
OweInv ==
  /\ \A h \in Handlers : pc[h] \in {"mail", "announce"} \cup DeliverySteps => settled[h]
  /\ \A h \in Handlers :
       Owes(h) => status[job[h].order] \in Bought /\ announced[job[h].order] = 0
  /\ \A h1, h2 \in Handlers :
       Owes(h1) /\ Owes(h2) /\ job[h1].order = job[h2].order => h1 = h2

\* The handler holds the Stripe event it recorded.
InRoute(h) ==
  job[h] # None /\ job[h].gateway = "stripe" /\ pc[h] \in Steps \ {"idle", "route", "reply"}

\* A Stripe event is in the hands of one handler at most, and until that one
\* records the order's key nobody has.
RouteInv ==
  /\ \A h \in Handlers : InRoute(h) => RouteKey(job[h]) \in events
  /\ \A h1, h2 \in Handlers :
       InRoute(h1) /\ InRoute(h2) /\ job[h1].id = job[h2].id => h1 = h2
  /\ \A h \in Handlers :
       InRoute(h) /\ pc[h] = "record" => OrderKey(job[h]) \notin events
  /\ \A n \in Notices :
       n.gateway = "stripe" /\ OrderKey(n) \in events => RouteKey(n) \in events

\* What is about to be marked processed has been applied.
AppliedInv ==
  \A h \in Handlers :
    pc[h] \in {"mark", "close"} => status[job[h].order] \notin {"none", "pending"}

\* The handler created its account and may still tell the CRM so.
Claims(h) == pc[h] = "token" \/ (fresh[h] /\ pc[h] \in {"link", "mail", "announce"})

\* An account is claimed as new by one handler at most, and not once the CRM
\* has been told.
ClaimInv ==
  /\ \A h \in Handlers :
       fresh[h] => pc[h] \in {"link", "mail", "announce", "close", "reply"}
  /\ \A h \in Handlers : Claims(h) =>
       /\ target[h] # None
       /\ account[target[h]] # "absent"
       /\ \A o \in Orders : newBuyer[o] # target[h]
  /\ \A h1, h2 \in Handlers :
       Claims(h1) /\ Claims(h2) /\ target[h1] = target[h2] => h1 = h2
  /\ \A o \in Orders : newBuyer[o] # None => account[newBuyer[o]] # "absent"

\* The account a handler delivers to has the order's address.
TargetInv ==
  /\ \A h \in Handlers : pc[h] \in {"token", "link", "mail"} =>
       target[h] # None /\ AccountEmail[target[h]] = email[job[h].order]
  /\ \A h \in Handlers :
       pc[h] = "mail" => owner[job[h].order] \in {None, target[h]}
  /\ \A o \in delivered : status[o] \in Bought

\* The admin whose update refunded the order is the only one to audit it.
AuditInv ==
  /\ \A d \in Admins : auditing[d] # None =>
       status[auditing[d]] = "refunded" /\ audits[auditing[d]] = 0
  /\ \A d1, d2 \in Admins :
       auditing[d1] # None /\ auditing[d1] = auditing[d2] => d1 = d2
  /\ \A d \in Admins : refunding[d] = None \/ auditing[d] = None

\* The event a route records first.
FirstKey(n) == IF n.gateway = "stripe" THEN RouteKey(n) ELSE OrderKey(n)

\* The handler has recorded a key of the notification and goes on to the next.
Holds(h, n, step) == pc[h] = step /\ job[h].gateway = n.gateway /\ job[h].id = n.id

\* An answered notification was recorded.
RecordedInv ==
  /\ \A n \in acked : FirstKey(n) \in events
  /\ \A h \in Handlers :
       pc[h] \in Steps \ {"idle", "route", "record"} => FirstKey(job[h]) \in events

\* What is recorded is recorded further, applied and announced, or a handler is
\* about to do so.
RouteHeld(n) ==
  RouteKey(n) \in events => OrderKey(n) \in events \/ \E h \in Handlers : Holds(h, n, "record")

PaymentHeld(n) ==
  OrderKey(n) \in events =>
    status[n.order] \notin {"none", "pending"} \/ \E h \in Handlers : Holds(h, n, "settle")

NoticeHeld(o) ==
  status[o] \in Bought => announced[o] = 1 \/ \E h \in Handlers : Owes(h) /\ job[h].order = o

\* Unless a step fails, nothing is dropped.
HeldInv ==
  faults = 0 =>
    /\ \A n \in Notices : (n.gateway = "stripe" => RouteHeld(n)) /\ PaymentHeld(n)
    /\ \A o \in Orders : NoticeHeld(o)

IInv ==
  /\ TypeOK
  /\ JobInv
  /\ OweInv
  /\ RouteInv
  /\ AppliedInv
  /\ ClaimInv
  /\ TargetInv
  /\ AuditInv
  /\ RecordedInv
  /\ HeldInv
  /\ ExactlyOnceEgress
  /\ NewBuyerClaimedOnce
  /\ ProcessedIsApplied
  /\ BoughtWasCharged
  /\ DeliveredToAddress
  /\ RefundedOnce
=============================================================================
