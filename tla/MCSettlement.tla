---------------------------- MODULE MCSettlement ----------------------------
(* Instances of Settlement for TLC. *)
EXTENDS Settlement, TLC

CONSTANTS o1, o2, e1, e2, a1, a2, a3, h1, h2, d1, d2, x1

N(id, gateway, order, success) ==
  [id |-> id, gateway |-> gateway, order |-> order, success |-> success]

OneAddress == [a \in Accounts |-> e1]

\* One order reported paid by one Stripe event.
OneNotice == {N(x1, "stripe", o1, TRUE)}

\* One order reported paid twice, under distinct keys.
TwoEventNotices == {N(x1, "newebpay", o1, TRUE), N(x1, "stripe", o1, TRUE)}
=============================================================================
