------------------------------ MODULE MCOrders ------------------------------
(***************************************************************************)
(* Three instances of Settlement for TLC in one run: a behaviour is of one *)
(* `world', which says which notifications, orders, accounts and admins    *)
(* there are.                                                              *)
(***************************************************************************)
EXTENDS MCSettlement

TwoAddresses == [a \in Accounts |-> IF a = a3 THEN e2 ELSE e1]

\* One order: an ECPay trade declined and then paid under one trade number, and
\* a Stripe event of its own.
RedeliveredNotices ==
  {N(x1, "ecpay", o1, FALSE), N(x1, "ecpay", o1, TRUE), N(x1, "stripe", o1, TRUE)}

\* Two orders of one address, each reported paid once.
TwoOrderNotices == {N(x1, "stripe", o1, TRUE), N(x1, "newebpay", o2, TRUE)}

AllNotices == RedeliveredNotices \cup TwoOrderNotices

HandlerSymmetry == Permutations(Handlers)

VARIABLE world

\* One order, declined and paid by two gateways, and no account goes; two orders of
\* one address, without refunds; one order and two addresses, one of whose accounts
\* may go, and two admins.
Worlds ==
  {[notices |-> RedeliveredNotices, emails |-> {e1, e2}, deletion |-> FALSE, admins |-> {d1}],
   [notices |-> TwoOrderNotices, emails |-> {e1}, deletion |-> TRUE, admins |-> {}],
   [notices |-> OneNotice, emails |-> {e1, e2}, deletion |-> TRUE, admins |-> {d1, d2}]}

InWorld ==
  /\ sent \subseteq world.notices
  /\ \A a \in Accounts :
       /\ account[a] # "absent" => AccountEmail[a] \in world.emails
       /\ account[a] = "deleted" => world.deletion
  /\ \A d \in Admins : refunding[d] # None => d \in world.admins
  /\ \A o \in Orders : status[o] # "none" =>
       /\ email[o] \in world.emails
       /\ \E n \in world.notices : n.order = o

WorldInit == world \in Worlds /\ Init
WorldNext == UNCHANGED world /\ Next /\ InWorld'
WorldSpec == WorldInit /\ [][WorldNext]_<<vars, world>>
=============================================================================
