--------------------------- MODULE OrderLifecycle ---------------------------
(***************************************************************************)
(* What the shop promises about a one-time order, whatever the gateways    *)
(* redeliver and whatever crashes: the life of orders.status and of the    *)
(* `order.completed' notice sent to the CRM.                               *)
(*                                                                         *)
(* Settlement implements this module (Settlement!Lifecycle).               *)
(***************************************************************************)
EXTENDS Naturals

CONSTANT Orders

VARIABLES
  status,     \* status[o]: orders.status, "none" before the row exists
  announced   \* announced[o]: how often order.completed was dispatched for o

lifecycleVars == <<status, announced>>

OrderStatus == {"none", "pending", "paid", "failed", "refunded"}

\* The statuses an order has from the payment on.
Bought == {"paid", "refunded"}

Init ==
  /\ status = [o \in Orders |-> "none"]
  /\ announced = [o \in Orders |-> 0]

Becomes(o, from, to) ==
  /\ status[o] = from
  /\ status' = [status EXCEPT ![o] = to]
  /\ UNCHANGED announced

Place(o)   == Becomes(o, "none", "pending")
Pay(o)     == Becomes(o, "pending", "paid")
Decline(o) == Becomes(o, "pending", "failed")
Refund(o)  == Becomes(o, "paid", "refunded")

Announce(o) ==
  /\ status[o] \in Bought
  /\ announced[o] = 0
  /\ announced' = [announced EXCEPT ![o] = 1]
  /\ UNCHANGED status

Next == \E o \in Orders : Place(o) \/ Pay(o) \/ Decline(o) \/ Refund(o) \/ Announce(o)

Spec == Init /\ [][Next]_lifecycleVars
=============================================================================
