---------------------- MODULE StripeSubscriptionsProofs ----------------------
(***************************************************************************)
(* The safety properties of StripeSubscriptions, for any numbers of        *)
(* subscriptions, handlers, reconcile jobs, cancellations, events, periods *)
(* and faults.                                                             *)
(*                                                                         *)
(* IInv is inductive: nobody brings an ended subscription back, so whoever *)
(* holds a "canceled" reading holds it for good.  There is one lemma for   *)
(* each part, with one step for each action that can disturb the part.     *)
(***************************************************************************)
EXTENDS StripeSubscriptions, TLAPS

\* What Stripe does to a subscription leaves a subscription, and leaves an ended
\* one alone.
LEMMA StripeChange ==
  ASSUME TypeOK, NEW s \in Subs, StripeStep(s)
  PROVE  /\ Unchanged
         /\ \E new \in State : /\ Change(s, new)
                               /\ new.status # "none"
                               /\ truth[s].status # "canceled"
<1> USE DEF TypeOK, State, Statuses, Live
<1>1. CASE Subscribe(s)
  BY <1>1 DEF Subscribe
<1>2. CASE Charge(s)
  <2> DEFINE new == [truth[s] EXCEPT !.status = "active", !.period = @ + 1]
  <2>1. truth[s] \in State /\ truth[s].period + 1 \in Nat
    OBVIOUS
  <2>2. new \in State /\ new.status = "active"
    BY <2>1
  <2>3. Change(s, new) /\ Unchanged /\ truth[s].status # "canceled"
    BY <1>2 DEF Charge
  <2> QED
    BY <2>2, <2>3
<1>3. CASE Decline(s)
  <2> DEFINE new == [truth[s] EXCEPT !.status = "unpaid"]
  <2> truth[s] \in State
    OBVIOUS
  <2>1. new \in State /\ new.status = "unpaid"
    OBVIOUS
  <2>2. Change(s, new) /\ Unchanged /\ truth[s].status # "canceled"
    BY <1>3 DEF Decline
  <2> QED
    BY <2>1, <2>2
<1>4. CASE Schedule(s)
  <2> DEFINE new == [truth[s] EXCEPT !.ending = ~@]
  <2> truth[s] \in State
    OBVIOUS
  <2>1. new \in State /\ new.status = truth[s].status
    OBVIOUS
  <2>2. Change(s, new) /\ Unchanged /\ truth[s].status \in Live
    BY <1>4 DEF Schedule
  <2> QED
    BY <2>1, <2>2
<1>5. CASE End(s)
  <2> DEFINE new == [truth[s] EXCEPT !.status = "canceled"]
  <2> truth[s] \in State
    OBVIOUS
  <2>1. new \in State /\ new.status = "canceled"
    OBVIOUS
  <2>2. Change(s, new) /\ Unchanged /\ truth[s].status # "canceled"
    BY <1>5 DEF End
  <2> QED
    BY <2>1, <2>2
<1> QED
  BY <1>1, <1>2, <1>3, <1>4, <1>5 DEF StripeStep

\* A cancellation is refused, or changes the subscription as Stripe itself might.
LEMMA CallChange ==
  ASSUME TypeOK, ReadingInv, NEW c \in Cancels, CallStripe(c)
  PROVE  /\ sub[c] \in Subs
         /\ UNCHANGED <<dbVars, handlerVars, sweepVars, faults>>
         /\ \/ Return(c) /\ UNCHANGED stripeVars
            \/ \E new \in State :
                 /\ new.status # "none"
                 /\ truth[sub[c]].status # "canceled"
                 /\ answer' = [answer EXCEPT ![c] = new]
                 /\ step' = [step EXCEPT ![c] = "write"]
                 /\ UNCHANGED <<sub, kept>>
                 /\ \/ new = truth[sub[c]] /\ UNCHANGED stripeVars
                    \/ Change(sub[c], new)
<1> DEFINE s == sub[c]
           Ending == [truth[s] EXCEPT !.ending = TRUE]
           Ended == [truth[s] EXCEPT !.status = "canceled"]
<1>1. s \in Subs /\ truth[s] \in State /\ truth[s].status # "none"
  BY DEF TypeOK, ReadingInv, CallStripe
<1>2. Ending \in State /\ Ending.status = truth[s].status
  BY <1>1 DEF State
<1>3. Ended \in State /\ Ended.status = "canceled"
  BY <1>1 DEF State, Statuses
<1>4. \A new \in {Ending, Ended} : new \in State /\ new.status # "none"
  BY <1>1, <1>2, <1>3
<1> HIDE DEF Ending, Ended
<1> QED
  BY <1>1, <1>4 DEF CallStripe, Ending, Ended

\* The empty values are states.
LEMMA EmptyState == Absent \in State /\ Nothing \in [Subs -> State]
  BY DEF Absent, State, Statuses, Nothing

\* A repair writes one row, with the status and the period Stripe answered or those
\* it had.
LEMMA RepairRow ==
  ASSUME TypeOK, NEW w \in Sweeps, NEW s \in Subs, Repair(w, s)
  PROVE  /\ row' \in [Subs -> State]
         /\ row'[s].status \in {snapshot[w][s].status, row[s].status}
         /\ row'[s].period \in {snapshot[w][s].period, row[s].period}
         /\ \A r \in Subs \ {s} : row'[r] = row[r]
<1>1. row[s] \in State /\ stored[w][s] \in State /\ snapshot[w][s] \in State
  BY DEF TypeOK
<1> DEFINE patched == Patch(row[s], stored[w][s], snapshot[w][s])
<1>2. /\ patched \in State /\ patched.status \in {snapshot[w][s].status, row[s].status}
      /\ patched.period \in {snapshot[w][s].period, row[s].period}
  BY <1>1 DEF Patch, State
<1>3. row' = [row EXCEPT ![s] = patched]
  BY DEF Repair
<1> HIDE DEF patched
<1> QED
  BY <1>2, <1>3 DEF TypeOK

\* A cancellation writes one row, with the status Stripe answered, and leaves its
\* period alone.
LEMMA CancelRow ==
  ASSUME TypeOK, NEW c \in Cancels, WriteCancel(c), sub[c] \in Subs
  PROVE  /\ row' \in [Subs -> State]
         /\ row'[sub[c]].status = answer[c].status
         /\ row'[sub[c]].period = row[sub[c]].period
         /\ \A r \in Subs \ {sub[c]} : row'[r] = row[r]
<1> DEFINE s == sub[c]
           new == [row[s] EXCEPT !.status = answer[c].status, !.ending = answer[c].ending \/ kept[c]]
<1>1. row[s] \in State /\ answer[c].status \in Statuses /\ answer[c].ending \in BOOLEAN
      /\ kept[c] \in BOOLEAN
  BY DEF TypeOK, State
<1>2. new \in State /\ new.status = answer[c].status /\ new.period = row[s].period
  BY <1>1 DEF State
<1>3. row' = [row EXCEPT ![s] = new]
  BY DEF WriteCancel
<1> HIDE DEF new
<1> QED
  BY <1>2, <1>3 DEF TypeOK


\* Every step keeps the types.
LEMMA TypeStep ==
  ASSUME TypeOK, HandlerInv, ReadingInv, [Next]_vars
  PROVE  TypeOK'
<1> USE BoundsAssumption, NoneAssumption, EmptyState DEF TypeOK, HandlerInv,
                                                         ReadingInv, Events, SubOf,
                                                         stripeVars, dbVars,
                                                         handlerVars, sweepVars,
                                                         cancelVars
<1>1. ASSUME NEW s \in Subs, StripeStep(s) PROVE TypeOK'
  <2>1. PICK new \in State : Change(s, new) /\ new.status # "none" /\ truth[s].status # "canceled"
    BY <1>1, StripeChange
  <2>2. Unchanged
    BY <1>1, StripeChange
  <2> QED
    BY <2>1, <2>2 DEF Change, Unchanged
<1>2. ASSUME NEW h \in Handlers, NEW e \in Sent, Receive(h, e) PROVE TypeOK'
  BY <1>2 DEF Receive, Goto, Sent
<1>3. ASSUME NEW h \in Handlers, RecordEvent(h) PROVE TypeOK'
  BY <1>3 DEF RecordEvent, Goto
<1>4. ASSUME NEW h \in Handlers, Retrieve(h) PROVE TypeOK'
  BY <1>4 DEF Retrieve, Goto
<1>5. ASSUME NEW h \in Handlers, WriteRow(h) PROVE TypeOK'
  BY <1>5 DEF WriteRow, Goto
<1>6. ASSUME NEW h \in Handlers, MarkProcessed(h) PROVE TypeOK'
  BY <1>6 DEF MarkProcessed, Goto
<1>7. ASSUME NEW h \in Handlers, Reply(h) PROVE TypeOK'
  BY <1>7 DEF Reply, Forget, Goto
<1>8. ASSUME NEW h \in Handlers, Abort(h) PROVE TypeOK'
  BY <1>8 DEF Abort, Forget, Goto, Fault
<1>9. ASSUME NEW w \in Sweeps, Load(w) PROVE TypeOK'
  BY <1>9 DEF Load, LiveRows
<1>10. ASSUME NEW w \in Sweeps, NEW s \in Subs, Fetch(w, s) PROVE TypeOK'
  <2>1. [snapshot[w] EXCEPT ![s] = truth[s]] \in [Subs -> State]
    OBVIOUS
  <2>2. snapshot' \in [Sweeps -> [Subs -> State]]
    BY <1>10, <2>1 DEF Fetch
  <2>3. todo' \in [Sweeps -> SUBSET Subs] /\ faults' \in 0..MaxFaults
    BY <1>10 DEF Fetch, Fault
  <2> QED
    BY <1>10, <2>2, <2>3 DEF Fetch
<1>11. ASSUME NEW w \in Sweeps, Reconcile(w) PROVE TypeOK'
  <2>1. Drifted(w) \in SUBSET Subs
    BY DEF Drifted
  <2>2. CASE Finish(w)
    BY <1>11, <2>2 DEF Reconcile, Finish
  <2>3. CASE /\ todo' = [todo EXCEPT ![w] = Drifted(w)]
             /\ phase' = [phase EXCEPT ![w] = "write"]
             /\ UNCHANGED <<stored, snapshot>>
    BY <1>11, <2>1, <2>3 DEF Reconcile
  <2> QED
    BY <1>11, <2>2, <2>3 DEF Reconcile
<1>12. ASSUME NEW w \in Sweeps, NEW s \in Subs, Repair(w, s) PROVE TypeOK'
  <2>1. row' \in [Subs -> State] /\ UNCHANGED <<stripeVars, events, processed, handlerVars, cancelVars, faults>>
    BY <1>12, RepairRow DEF Repair
  <2>2. CASE Finish(w)
    BY <2>1, <2>2 DEF Finish
  <2>3. CASE todo' = [todo EXCEPT ![w] = @ \ {s}] /\ UNCHANGED <<phase, stored, snapshot>>
    BY <2>1, <2>3
  <2> QED
    BY <1>12, <2>2, <2>3 DEF Repair
<1>13. ASSUME NEW w \in Sweeps, AbortSweep(w) PROVE TypeOK'
  BY <1>13 DEF AbortSweep, Finish, Fault, Nothing
<1>14. ASSUME NEW c \in Cancels, NEW s \in Subs, ReadRow(c, s) PROVE TypeOK'
  <2>1. row[s].ending \in BOOLEAN
    BY DEF State
  <2> QED
    BY <1>14, <2>1 DEF ReadRow
<1>15. ASSUME NEW c \in Cancels, CallStripe(c) PROVE TypeOK'
  <2>1. sub[c] \in Subs /\ UNCHANGED <<dbVars, handlerVars, sweepVars, faults>>
    BY <1>15, CallChange
  <2>2. CASE Return(c) /\ UNCHANGED stripeVars
    BY <2>1, <2>2 DEF Return
  <2>3. ASSUME NEW new \in State, new.status # "none", truth[sub[c]].status # "canceled",
               answer' = [answer EXCEPT ![c] = new], step' = [step EXCEPT ![c] = "write"],
               UNCHANGED <<sub, kept>>,
               (new = truth[sub[c]] /\ UNCHANGED stripeVars) \/ Change(sub[c], new)
        PROVE  TypeOK'
    <3>1. CASE new = truth[sub[c]] /\ UNCHANGED stripeVars
      BY <2>1, <2>3, <3>1
    <3>2. CASE Change(sub[c], new)
      BY <2>1, <2>3, <3>2 DEF Change
    <3> QED
      BY <2>3, <3>1, <3>2
  <2> QED
    BY <1>15, <2>2, <2>3, CallChange
<1>16. ASSUME NEW c \in Cancels, WriteCancel(c) PROVE TypeOK'
  <2>1. sub[c] \in Subs
    BY <1>16 DEF WriteCancel
  <2> QED
    BY <1>16, <2>1, CancelRow DEF WriteCancel, Return
<1>17. ASSUME NEW c \in Cancels, AbortCancel(c) PROVE TypeOK'
  BY <1>17 DEF AbortCancel, Return, Fault
<1>18. ASSUME UNCHANGED vars PROVE TypeOK'
  BY <1>18 DEF vars
<1> QED
  BY <1>1, <1>2, <1>3, <1>4, <1>5, <1>6, <1>7, <1>8, <1>9, <1>10, <1>11, <1>12, <1>13,
     <1>14, <1>15, <1>16, <1>17, <1>18
     DEF Next, HandlerStep, SweepStep, CancelStep, vars

\* Handlers work on events of subscriptions that exist.
LEMMA HandlerStepInv ==
  ASSUME TypeOK, HandlerInv, ReadingInv, [Next]_vars
  PROVE  HandlerInv'
<1> USE BoundsAssumption, NoneAssumption, EmptyState DEF TypeOK, HandlerInv,
                                                         ReadingInv, Events, SubOf,
                                                         IsCheckout, stripeVars,
                                                         dbVars, handlerVars,
                                                         sweepVars, cancelVars
<1>1. ASSUME NEW s \in Subs, StripeStep(s) PROVE HandlerInv'
  <2>1. PICK new \in State : Change(s, new) /\ new.status # "none" /\ truth[s].status # "canceled"
    BY <1>1, StripeChange
  <2>2. Unchanged
    BY <1>1, StripeChange
  <2> QED
    BY <2>1, <2>2 DEF Change, Unchanged
<1>2. ASSUME NEW h \in Handlers, NEW e \in Sent, Receive(h, e) PROVE HandlerInv'
  BY <1>2 DEF Receive, Goto, Sent
<1>3. ASSUME NEW h \in Handlers, RecordEvent(h) PROVE HandlerInv'
  BY <1>3 DEF RecordEvent, Goto
<1>4. ASSUME NEW h \in Handlers, Retrieve(h) PROVE HandlerInv'
  BY <1>4 DEF Retrieve, Goto
<1>5. ASSUME NEW h \in Handlers, WriteRow(h) PROVE HandlerInv'
  BY <1>5 DEF WriteRow, Goto
<1>6. ASSUME NEW h \in Handlers, MarkProcessed(h) PROVE HandlerInv'
  BY <1>6 DEF MarkProcessed, Goto
<1>7. ASSUME NEW h \in Handlers, Reply(h) PROVE HandlerInv'
  BY <1>7 DEF Reply, Forget, Goto
<1>8. ASSUME NEW h \in Handlers, Abort(h) PROVE HandlerInv'
  BY <1>8 DEF Abort, Forget, Goto, Fault
<1>9. ASSUME NEW w \in Sweeps, NEW s \in Subs, Repair(w, s) PROVE HandlerInv'
  <2>1. /\ phase[w] = "write" /\ s \in todo[w]
        /\ UNCHANGED <<stripeVars, events, processed, handlerVars, cancelVars, faults>>
    BY <1>9 DEF Repair
  <2>2. row'[s].status \in {snapshot[w][s].status, row[s].status}
        /\ \A r \in Subs \ {s} : row'[r] = row[r]
    BY <1>9, RepairRow
  <2>3. snapshot[w][s].status # "none"
    BY <2>1
  <2>4. ASSUME NEW q \in Subs, row[q].status # "none" PROVE row'[q].status # "none"
    BY <2>2, <2>3, <2>4
  <2> QED
    BY <2>1, <2>4
<1>10. ASSUME NEW c \in Cancels, CallStripe(c) PROVE HandlerInv'
  <2>1. sub[c] \in Subs /\ UNCHANGED <<dbVars, handlerVars, sweepVars, faults>>
    BY <1>10, CallChange
  <2>2. CASE Return(c) /\ UNCHANGED stripeVars
    BY <2>1, <2>2 DEF Return
  <2>3. ASSUME NEW new \in State, new.status # "none", truth[sub[c]].status # "canceled",
               answer' = [answer EXCEPT ![c] = new], step' = [step EXCEPT ![c] = "write"],
               UNCHANGED <<sub, kept>>,
               (new = truth[sub[c]] /\ UNCHANGED stripeVars) \/ Change(sub[c], new)
        PROVE  HandlerInv'
    <3>1. CASE new = truth[sub[c]] /\ UNCHANGED stripeVars
      BY <2>1, <2>3, <3>1
    <3>2. CASE Change(sub[c], new)
      BY <2>1, <2>3, <3>2 DEF Change
    <3> QED
      BY <2>3, <3>1, <3>2
  <2> QED
    BY <1>10, <2>2, <2>3, CallChange
<1>11. ASSUME NEW c \in Cancels, WriteCancel(c) PROVE HandlerInv'
  <2>1. sub[c] \in Subs
    BY <1>11 DEF WriteCancel
  <2> QED
    BY <1>11, <2>1, CancelRow DEF WriteCancel, Return
<1>12. ASSUME UNCHANGED <<truth, emitted, row, pc, job, seen>> PROVE HandlerInv'
  BY <1>12
<1> QED
  BY <1>1, <1>2, <1>3, <1>4, <1>5, <1>6, <1>7, <1>8, <1>9, <1>10, <1>11, <1>12
     DEF Next, HandlerStep, SweepStep, CancelStep, vars, Load, Fetch, Reconcile,
         AbortSweep, ReadRow, AbortCancel, Finish, Return

\* An ended subscription stays ended, so a "canceled" reading stays true.
LEMMA ReadingStep ==
  ASSUME TypeOK, HandlerInv, ReadingInv, [Next]_vars
  PROVE  ReadingInv'
<1> USE BoundsAssumption, NoneAssumption, EmptyState DEF TypeOK, HandlerInv,
                                                         ReadingInv, Absent, Nothing,
                                                         Live, Events, SubOf,
                                                         stripeVars, dbVars,
                                                         handlerVars, sweepVars,
                                                         cancelVars
<1>1. ASSUME NEW s \in Subs, StripeStep(s) PROVE ReadingInv'
  <2>1. PICK new \in State : Change(s, new) /\ new.status # "none" /\ truth[s].status # "canceled"
    BY <1>1, StripeChange
  <2>2. Unchanged
    BY <1>1, StripeChange
  <2> QED
    BY <2>1, <2>2 DEF Change, Unchanged
<1>2. ASSUME NEW h \in Handlers, NEW e \in Sent, Receive(h, e) PROVE ReadingInv'
  BY <1>2 DEF Receive, Goto, Sent
<1>3. ASSUME NEW h \in Handlers, RecordEvent(h) PROVE ReadingInv'
  BY <1>3 DEF RecordEvent, Goto
<1>4. ASSUME NEW h \in Handlers, Retrieve(h) PROVE ReadingInv'
  BY <1>4 DEF Retrieve, Goto
<1>5. ASSUME NEW h \in Handlers, WriteRow(h) PROVE ReadingInv'
  BY <1>5 DEF WriteRow, Goto
<1>6. ASSUME NEW h \in Handlers, MarkProcessed(h) PROVE ReadingInv'
  BY <1>6 DEF MarkProcessed, Goto
<1>7. ASSUME NEW h \in Handlers, Reply(h) PROVE ReadingInv'
  BY <1>7 DEF Reply, Forget, Goto
<1>8. ASSUME NEW h \in Handlers, Abort(h) PROVE ReadingInv'
  BY <1>8 DEF Abort, Forget, Goto, Fault
<1>9. ASSUME NEW w \in Sweeps, Load(w) PROVE ReadingInv'
  BY <1>9 DEF Load, LiveRows
<1>10. ASSUME NEW w \in Sweeps, NEW s \in Subs, Fetch(w, s) PROVE ReadingInv'
  BY <1>10 DEF Fetch, Fault
<1>11. ASSUME NEW w \in Sweeps, Reconcile(w) PROVE ReadingInv'
  <2>1. CASE Drifted(w) = {} /\ Finish(w)
    BY <1>11, <2>1 DEF Reconcile, Finish
  <2>2. CASE /\ todo' = [todo EXCEPT ![w] = Drifted(w)]
             /\ phase' = [phase EXCEPT ![w] = "write"]
             /\ UNCHANGED <<stored, snapshot>>
    <3>1. \A s \in Drifted(w) : snapshot[w][s].status # "none"
      BY DEF Drifted
    <3> QED
      BY <1>11, <2>2, <3>1 DEF Reconcile
  <2> QED
    BY <1>11, <2>1, <2>2 DEF Reconcile
<1>12. ASSUME NEW w \in Sweeps, NEW s \in Subs, Repair(w, s) PROVE ReadingInv'
  <2>1. \A q \in Subs : row'[q].status # "none" => truth[q].status # "none"
    BY <1>12, RepairRow DEF Repair
  <2>2. CASE Finish(w)
    BY <1>12, <2>1, <2>2 DEF Repair, Finish
  <2>3. CASE todo' = [todo EXCEPT ![w] = @ \ {s}] /\ UNCHANGED <<phase, stored, snapshot>>
    BY <1>12, <2>1, <2>3 DEF Repair
  <2> QED
    BY <1>12, <2>2, <2>3 DEF Repair
<1>13. ASSUME NEW w \in Sweeps, AbortSweep(w) PROVE ReadingInv'
  BY <1>13 DEF AbortSweep, Finish, Fault, Nothing
<1>14. ASSUME NEW c \in Cancels, NEW s \in Subs, ReadRow(c, s) PROVE ReadingInv'
  BY <1>14 DEF ReadRow
<1>15. ASSUME NEW c \in Cancels, CallStripe(c) PROVE ReadingInv'
  <2>1. sub[c] \in Subs /\ UNCHANGED <<dbVars, handlerVars, sweepVars, faults>>
    BY <1>15, CallChange
  <2>2. CASE Return(c) /\ UNCHANGED stripeVars
    BY <2>1, <2>2 DEF Return
  <2>3. ASSUME NEW new \in State, new.status # "none", truth[sub[c]].status # "canceled",
               answer' = [answer EXCEPT ![c] = new], step' = [step EXCEPT ![c] = "write"],
               UNCHANGED <<sub, kept>>,
               (new = truth[sub[c]] /\ UNCHANGED stripeVars) \/ Change(sub[c], new)
        PROVE  ReadingInv'
    <3>1. CASE new = truth[sub[c]] /\ UNCHANGED stripeVars
      BY <2>1, <2>3, <3>1
    <3>2. CASE Change(sub[c], new)
      BY <2>1, <2>3, <3>2 DEF Change
    <3> QED
      BY <2>3, <3>1, <3>2
  <2> QED
    BY <1>15, <2>2, <2>3, CallChange
<1>16. ASSUME NEW c \in Cancels, WriteCancel(c) PROVE ReadingInv'
  <2>1. sub[c] \in Subs
    BY <1>16 DEF WriteCancel
  <2> QED
    BY <1>16, <2>1, CancelRow DEF WriteCancel, Return
<1>17. ASSUME NEW c \in Cancels, AbortCancel(c) PROVE ReadingInv'
  BY <1>17 DEF AbortCancel, Return, Fault
<1>18. ASSUME UNCHANGED <<truth, row, pc, job, seen, phase, todo, snapshot, step, sub, answer>> PROVE ReadingInv'
  BY <1>18
<1> QED
  BY <1>1, <1>2, <1>3, <1>4, <1>5, <1>6, <1>7, <1>8, <1>9, <1>10, <1>11, <1>12, <1>13,
     <1>14, <1>15, <1>16, <1>17, <1>18
     DEF Next, HandlerStep, SweepStep, CancelStep, vars

\* A row is written "canceled" from a reading that said so.
LEMMA EndedStep ==
  ASSUME TypeOK, HandlerInv, ReadingInv, EndedIsFinal, [Next]_vars
  PROVE  EndedIsFinal'
<1> USE BoundsAssumption, NoneAssumption DEF TypeOK, HandlerInv, ReadingInv,
                                             EndedIsFinal, Live, Events, SubOf,
                                             stripeVars, dbVars, handlerVars,
                                             sweepVars, cancelVars
<1>1. ASSUME NEW s \in Subs, StripeStep(s) PROVE EndedIsFinal'
  <2>1. PICK new \in State : Change(s, new) /\ new.status # "none" /\ truth[s].status # "canceled"
    BY <1>1, StripeChange
  <2>2. Unchanged
    BY <1>1, StripeChange
  <2> QED
    BY <2>1, <2>2 DEF Change, Unchanged
<1>2. ASSUME NEW h \in Handlers, WriteRow(h) PROVE EndedIsFinal'
  BY <1>2 DEF WriteRow, Goto
<1>3. ASSUME NEW w \in Sweeps, NEW s \in Subs, Repair(w, s) PROVE EndedIsFinal'
  <2>1. /\ phase[w] = "write" /\ s \in todo[w]
        /\ UNCHANGED <<stripeVars, events, processed, handlerVars, cancelVars, faults>>
    BY <1>3 DEF Repair
  <2>2. row'[s].status \in {snapshot[w][s].status, row[s].status}
        /\ \A r \in Subs \ {s} : row'[r] = row[r]
    BY <1>3, RepairRow
  <2>3. truth' = truth
    BY <2>1
  <2>4. snapshot[w][s].status = "canceled" => truth[s].status = "canceled"
    OBVIOUS
  <2>5. row'[s].status = "canceled" => truth'[s].status = "canceled"
    BY <2>2, <2>3, <2>4
  <2>6. \A r \in Subs \ {s} : row'[r].status = "canceled" => truth'[r].status = "canceled"
    BY <2>2, <2>3
  <2> QED
    BY <2>5, <2>6
<1>4. ASSUME NEW c \in Cancels, CallStripe(c) PROVE EndedIsFinal'
  <2>1. sub[c] \in Subs /\ UNCHANGED <<dbVars, handlerVars, sweepVars, faults>>
    BY <1>4, CallChange
  <2>2. CASE Return(c) /\ UNCHANGED stripeVars
    BY <2>1, <2>2 DEF Return
  <2>3. ASSUME NEW new \in State, new.status # "none", truth[sub[c]].status # "canceled",
               answer' = [answer EXCEPT ![c] = new], step' = [step EXCEPT ![c] = "write"],
               UNCHANGED <<sub, kept>>,
               (new = truth[sub[c]] /\ UNCHANGED stripeVars) \/ Change(sub[c], new)
        PROVE  EndedIsFinal'
    <3>1. CASE new = truth[sub[c]] /\ UNCHANGED stripeVars
      BY <2>1, <2>3, <3>1
    <3>2. CASE Change(sub[c], new)
      BY <2>1, <2>3, <3>2 DEF Change
    <3> QED
      BY <2>3, <3>1, <3>2
  <2> QED
    BY <1>4, <2>2, <2>3, CallChange
<1>5. ASSUME NEW c \in Cancels, WriteCancel(c) PROVE EndedIsFinal'
  <2>1. sub[c] \in Subs
    BY <1>5 DEF WriteCancel
  <2> QED
    BY <1>5, <2>1, CancelRow DEF WriteCancel, Return
<1>6. ASSUME UNCHANGED <<truth, row>> PROVE EndedIsFinal'
  BY <1>6
<1> QED
  BY <1>1, <1>2, <1>3, <1>4, <1>5, <1>6
     DEF Next, HandlerStep, SweepStep, CancelStep, vars, Receive, RecordEvent,
         Retrieve, MarkProcessed, Reply, Abort, Load, Fetch, Reconcile, AbortSweep,
         ReadRow, AbortCancel, Finish, Forget, Goto, Return

\* No row is lost, and a checkout is marked after its row was written.
LEMMA CheckoutStep ==
  ASSUME IInv, [Next]_vars
  PROVE  ProcessedCheckoutHasRow'
<1> USE BoundsAssumption, NoneAssumption DEF IInv, TypeOK, HandlerInv, ReadingInv,
                                             ProcessedCheckoutHasRow, Events, SubOf,
                                             IsCheckout, stripeVars, dbVars,
                                             handlerVars, sweepVars, cancelVars
<1>1. ASSUME NEW h \in Handlers, WriteRow(h) PROVE ProcessedCheckoutHasRow'
  BY <1>1 DEF WriteRow, Goto
<1>2. ASSUME NEW h \in Handlers, MarkProcessed(h) PROVE ProcessedCheckoutHasRow'
  <2>1. job[h] \in Events
    BY <1>2 DEF MarkProcessed
  <2>2. ASSUME NEW s \in Subs, job[h] = <<s, 0>> PROVE row[s].status # "none"
    <3>1. pc[h] = "mark" /\ IsCheckout(job[h]) /\ SubOf(job[h]) = s
      BY <1>2, <2>2 DEF MarkProcessed
    <3> QED
      BY <3>1
  <2> QED
    BY <1>2, <2>1, <2>2 DEF MarkProcessed
<1>3. ASSUME NEW w \in Sweeps, NEW s \in Subs, Repair(w, s) PROVE ProcessedCheckoutHasRow'
  <2>1. /\ phase[w] = "write" /\ s \in todo[w]
        /\ UNCHANGED <<stripeVars, events, processed, handlerVars, cancelVars, faults>>
    BY <1>3 DEF Repair
  <2>2. row'[s].status \in {snapshot[w][s].status, row[s].status}
        /\ \A r \in Subs \ {s} : row'[r] = row[r]
    BY <1>3, RepairRow
  <2>3. snapshot[w][s].status # "none" /\ processed' = processed
    BY <2>1
  <2> QED
    BY <2>2, <2>3
<1>4. ASSUME NEW c \in Cancels, WriteCancel(c) PROVE ProcessedCheckoutHasRow'
  <2>1. sub[c] \in Subs
    BY <1>4 DEF WriteCancel
  <2> QED
    BY <1>4, <2>1, CancelRow DEF WriteCancel, Return
<1>5. ASSUME UNCHANGED <<row, processed>> PROVE ProcessedCheckoutHasRow'
  BY <1>5
<1> QED
  BY <1>1, <1>2, <1>3, <1>4, <1>5
     DEF Next, HandlerStep, SweepStep, CancelStep, vars, StripeStep, Receive,
         RecordEvent, Retrieve, Reply, Abort, Load, Fetch, Reconcile, AbortSweep,
         ReadRow, CallStripe, AbortCancel, Subscribe, Charge, Decline, Schedule, End,
         Change, Finish, Forget, Goto, Return, Unchanged

\* An event that was sent stays sent, and is answered only once it was recorded.
LEMMA SentStep ==
  ASSUME TypeOK, SentInv, [Next]_vars
  PROVE  SentInv'
<1> USE BoundsAssumption, NoneAssumption DEF TypeOK, SentInv, Events, SubOf,
                                             stripeVars, dbVars, handlerVars,
                                             sweepVars, cancelVars
<1>1. Sent \subseteq Sent'
  <2>1. UNCHANGED emitted \/ \E s \in Subs : emitted' = [emitted EXCEPT ![s] = @ + 1]
    <3>1. ASSUME NEW s \in Subs, StripeStep(s) PROVE emitted' = [emitted EXCEPT ![s] = @ + 1]
      BY <3>1 DEF StripeStep, Subscribe, Charge, Decline, Schedule, End, Change
    <3>2. ASSUME NEW c \in Cancels, CallStripe(c)
          PROVE  UNCHANGED emitted \/ \E s \in Subs : emitted' = [emitted EXCEPT ![s] = @ + 1]
      <4>1. CASE emitted' = [emitted EXCEPT ![sub[c]] = @ + 1]
        <5>1. sub[c] \notin Subs => emitted' = emitted
          BY <4>1
        <5> QED
          BY <4>1, <5>1
      <4> QED
        BY <3>2, <4>1 DEF CallStripe, Change
    <3> QED
      BY <3>1, <3>2
         DEF Next, HandlerStep, SweepStep, CancelStep, vars, Receive, RecordEvent, Retrieve,
             WriteRow, MarkProcessed, Reply, Abort, Load, Fetch, Reconcile, Repair, AbortSweep,
             ReadRow, WriteCancel, AbortCancel
  <2> QED
    BY <2>1 DEF Sent
<1>2. ASSUME NEW h \in Handlers, NEW e \in Sent, Receive(h, e) PROVE SentInv'
  BY <1>1, <1>2 DEF Receive, Goto
<1>3. ASSUME NEW h \in Handlers, RecordEvent(h) PROVE SentInv'
  BY <1>1, <1>3 DEF RecordEvent, Goto
<1>4. ASSUME NEW h \in Handlers, Retrieve(h) \/ WriteRow(h) \/ MarkProcessed(h) PROVE SentInv'
  BY <1>1, <1>4 DEF Retrieve, WriteRow, MarkProcessed, Goto
<1>5. ASSUME NEW h \in Handlers, Reply(h) \/ Abort(h) PROVE SentInv'
  BY <1>1, <1>5 DEF Reply, Abort, Forget, Goto
<1>6. ASSUME UNCHANGED <<acked, events, pc, job>> PROVE SentInv'
  BY <1>1, <1>6
<1> QED
  BY <1>2, <1>3, <1>4, <1>5, <1>6
     DEF Next, HandlerStep, SweepStep, CancelStep, vars, StripeStep, Subscribe, Charge, Decline,
         Schedule, End, Change, Unchanged, Load, Fetch, Reconcile, Repair, AbortSweep, ReadRow,
         CallStripe, WriteCancel, AbortCancel, Finish, Return

\* Stripe takes no period back.
LEMMA PeriodsGrow ==
  ASSUME TypeOK, ReadingInv, PaidInv, [Next]_vars, NEW s \in Subs
  PROVE  /\ truth'[s].period >= truth[s].period
         /\ truth'[s].status = "none" => truth'[s].period = 0
<1> USE DEF TypeOK, PaidInv, State, Live
<1>1. ASSUME NEW q \in Subs, NEW new, Change(q, new), new.period >= truth[q].period,
             new.status # "none"
      PROVE  /\ truth'[s].period >= truth[s].period
             /\ truth'[s].status = "none" => truth'[s].period = 0
  BY <1>1 DEF Change
<1>2. ASSUME NEW q \in Subs, StripeStep(q)
      PROVE  /\ truth'[s].period >= truth[s].period
             /\ truth'[s].status = "none" => truth'[s].period = 0
  <2>1. CASE Subscribe(q)
    BY <2>1 DEF Subscribe, Change
  <2>2. CASE Charge(q)
    BY <2>2 DEF Charge, Change
  <2>3. CASE Decline(q)
    BY <2>3 DEF Decline, Change
  <2>4. CASE Schedule(q)
    BY <2>4 DEF Schedule, Change
  <2>5. CASE End(q)
    BY <2>5 DEF End, Change
  <2> QED
    BY <1>2, <2>1, <2>2, <2>3, <2>4, <2>5 DEF StripeStep
<1>3. ASSUME NEW c \in Cancels, CallStripe(c)
      PROVE  /\ truth'[s].period >= truth[s].period
             /\ truth'[s].status = "none" => truth'[s].period = 0
  <2>1. sub[c] \in Subs /\ truth[sub[c]].status # "none"
    BY <1>3 DEF CallStripe, ReadingInv
  <2>2. CASE UNCHANGED truth
    BY <2>2
  <2>3. CASE Change(sub[c], [truth[sub[c]] EXCEPT !.ending = TRUE])
    BY <2>1, <2>3 DEF Change
  <2>4. CASE Change(sub[c], [truth[sub[c]] EXCEPT !.status = "canceled"])
    BY <2>1, <2>4 DEF Change
  <2> QED
    BY <1>3, <2>2, <2>3, <2>4 DEF CallStripe, stripeVars
<1>4. CASE UNCHANGED truth
  BY <1>4
<1> QED
  BY <1>2, <1>3, <1>4
     DEF Next, HandlerStep, SweepStep, CancelStep, vars, stripeVars, Receive, RecordEvent,
         Retrieve, WriteRow, MarkProcessed, Reply, Abort, Load, Fetch, Reconcile, Repair,
         AbortSweep, ReadRow, WriteCancel, AbortCancel

\* A reading was true when it was taken, and periods only grow.
LEMMA PaidStep ==
  ASSUME TypeOK, TypeOK', HandlerInv, ReadingInv, PaidInv, [Next]_vars
  PROVE  PaidInv'
<1>1. \A s \in Subs : /\ truth[s].period \in Nat /\ truth'[s].period \in Nat
                      /\ truth'[s].period >= truth[s].period
                      /\ truth'[s].status = "none" => truth'[s].period = 0
  BY PeriodsGrow DEF TypeOK, State
<1>2. \A h \in Handlers : /\ seen[h].period \in Nat
                          /\ pc[h] # "idle" => SubOf(job[h]) \in Subs
  BY DEF TypeOK, State, HandlerInv, Events, SubOf
<1>3. \A w \in Sweeps, s \in Subs : snapshot[w][s].period \in Nat
  BY DEF TypeOK, State
<1> USE DEF PaidInv, stripeVars, dbVars, handlerVars, sweepVars, cancelVars
<1>4. ASSUME NEW h \in Handlers, Retrieve(h) PROVE PaidInv'
  <2>1. pc[h] = "fetch" /\ UNCHANGED <<truth, job, snapshot>>
    BY <1>4 DEF Retrieve
  <2>2. seen'[h] = truth[SubOf(job[h])] /\ \A g \in Handlers \ {h} : seen'[g] = seen[g] /\ pc'[g] = pc[g]
    BY <1>4 DEF Retrieve, Goto, TypeOK
  <2> QED
    BY <1>1, <1>2, <2>1, <2>2
<1>5. ASSUME NEW h \in Handlers, pc'[h] # "write", UNCHANGED snapshot,
             \A g \in Handlers \ {h} : pc'[g] = pc[g] /\ job'[g] = job[g] /\ seen'[g] = seen[g]
      PROVE  PaidInv'
  <2>1. \A g \in Handlers \ {h} : pc[g] = "write" => seen[g].period <= truth'[SubOf(job[g])].period
    BY <1>1, <1>2
  <2>2. \A w \in Sweeps, s \in Subs : snapshot[w][s].period <= truth'[s].period
    BY <1>1, <1>3
  <2> QED
    BY <1>1, <1>5, <2>1, <2>2
<1>6. ASSUME UNCHANGED <<pc, job, seen>>,
             \A w \in Sweeps, s \in Subs :
               snapshot'[w][s].period \in {snapshot[w][s].period, truth[s].period, 0}
      PROVE  PaidInv'
  <2>1. \A g \in Handlers : pc[g] = "write" => seen[g].period <= truth'[SubOf(job[g])].period
    BY <1>1, <1>2
  <2>2. \A w \in Sweeps, s \in Subs : snapshot'[w][s].period <= truth'[s].period
    BY <1>1, <1>3, <1>6
  <2> QED
    BY <1>1, <1>6, <2>1, <2>2
<1>7. ASSUME NEW h \in Handlers, HandlerStep(h) \/ Abort(h) \/ \E e \in Sent : Receive(h, e)
      PROVE  PaidInv'
  <2> USE <1>5 DEF Goto, TypeOK
  <2>1. CASE \E e \in Sent : Receive(h, e)
    BY <2>1 DEF Receive
  <2>2. CASE RecordEvent(h)
    BY <2>2 DEF RecordEvent
  <2>3. CASE WriteRow(h)
    BY <2>3 DEF WriteRow
  <2>4. CASE MarkProcessed(h)
    BY <2>4 DEF MarkProcessed
  <2>5. CASE Reply(h)
    BY <2>5 DEF Reply, Forget
  <2>6. CASE Abort(h)
    BY <2>6 DEF Abort, Forget
  <2> QED
    BY <1>4, <1>7, <2>1, <2>2, <2>3, <2>4, <2>5, <2>6 DEF HandlerStep
<1>8. ASSUME NEW w \in Sweeps, Finish(w), UNCHANGED handlerVars PROVE PaidInv'
  BY <1>6, <1>8 DEF Finish, Nothing, Absent, TypeOK
<1>9. ASSUME NEW w \in Sweeps, NEW s \in Subs, Fetch(w, s) PROVE PaidInv'
  <2>1. \A v \in Sweeps, q \in Subs : snapshot'[v][q] \in {snapshot[v][q], truth[q]}
    <3>1. CASE snapshot' = [snapshot EXCEPT ![w][s] = truth[s]]
      BY <3>1 DEF TypeOK
    <3>2. CASE UNCHANGED snapshot
      BY <3>2
    <3> QED
      BY <1>9, <3>1, <3>2 DEF Fetch
  <2> QED
    BY <1>6, <1>9, <2>1 DEF Fetch
<1>10. ASSUME UNCHANGED <<pc, job, seen, snapshot>> PROVE PaidInv'
  BY <1>6, <1>10
<1> QED
  BY <1>7, <1>8, <1>9, <1>10
     DEF Next, SweepStep, CancelStep, vars, StripeStep, Subscribe, Charge, Decline, Schedule, End,
         Unchanged, Load, Reconcile, Repair, AbortSweep, ReadRow, CallStripe, WriteCancel,
         AbortCancel

\* No row says more than was charged.
LEMMA PeriodStep ==
  ASSUME TypeOK, TypeOK', HandlerInv, ReadingInv, PaidInv, NoUnpaidPeriod, [Next]_vars
  PROVE  NoUnpaidPeriod'
<1>1. \A s \in Subs : /\ truth[s].period \in Nat /\ truth'[s].period \in Nat
                      /\ truth'[s].period >= truth[s].period
                      /\ row[s].period \in Nat
  BY PeriodsGrow DEF TypeOK, State
<1> USE DEF NoUnpaidPeriod, stripeVars, dbVars
<1>2. ASSUME \A s \in Subs : row'[s].period <= truth[s].period \/ row'[s].period = row[s].period
      PROVE  NoUnpaidPeriod'
  <2>1. \A s \in Subs : row'[s].period \in Nat
    BY DEF TypeOK, State
  <2> QED
    BY <1>1, <1>2, <2>1
<1>3. ASSUME NEW h \in Handlers, WriteRow(h) PROVE NoUnpaidPeriod'
  <2>1. /\ seen[h].period <= truth[SubOf(job[h])].period
        /\ row' \in {row, [row EXCEPT ![SubOf(job[h])] = seen[h]]}
    BY <1>3 DEF WriteRow, PaidInv
  <2> QED
    BY <1>2, <2>1 DEF TypeOK
<1>4. ASSUME NEW w \in Sweeps, NEW s \in Subs, Repair(w, s) PROVE NoUnpaidPeriod'
  BY <1>2, <1>4, RepairRow DEF PaidInv
<1>5. ASSUME NEW c \in Cancels, WriteCancel(c) PROVE NoUnpaidPeriod'
  <2>1. sub[c] \in Subs
    BY <1>5 DEF WriteCancel, ReadingInv, TypeOK
  <2> QED
    BY <1>2, <1>5, <2>1, CancelRow
<1>6. ASSUME UNCHANGED row PROVE NoUnpaidPeriod'
  BY <1>2, <1>6
<1> QED
  BY <1>3, <1>4, <1>5, <1>6
     DEF Next, HandlerStep, SweepStep, CancelStep, vars, StripeStep, Subscribe, Charge, Decline,
         Schedule, End, Unchanged, Receive, RecordEvent, Retrieve, MarkProcessed, Reply, Abort,
         Load, Fetch, Reconcile, AbortSweep, ReadRow, CallStripe, AbortCancel

\* The handler that recorded a checkout fetches the subscription and writes its row.
LEMMA HeldStep ==
  ASSUME TypeOK, HandlerInv, ReadingInv, HeldInv, [Next]_vars
  PROVE  HeldInv'
<1> SUFFICES ASSUME faults' = 0 PROVE HeldInv'
  BY DEF HeldInv
<1> DEFINE Has(s) == row[s].status # "none"
           At(h, s) == pc[h] \in {"fetch", "write"} /\ job[h] = <<s, 0>>
<1> USE DEF TypeOK, HandlerInv, stripeVars, dbVars, handlerVars, sweepVars, cancelVars
<1>1. ASSUME faults = 0, events' = events, NEW h \in Handlers,
             pc[h] \notin {"fetch", "write"} \/ (pc'[h] = "write" /\ job'[h] = job[h]),
             \A g \in Handlers \ {h} : pc'[g] = pc[g] /\ job'[g] = job[g],
             \A s \in Subs : Has(s) => Has(s)'
      PROVE  HeldInv'
  BY <1>1 DEF HeldInv
<1>2. ASSUME faults = 0, UNCHANGED <<events, pc, job>>, \A s \in Subs : Has(s) => Has(s)'
      PROVE  HeldInv'
  BY <1>2 DEF HeldInv
<1>3. ASSUME NEW h \in Handlers, RecordEvent(h) PROVE HeldInv'
  <2>1. /\ pc[h] = "record" /\ events' = events \cup {job[h]}
        /\ job[h] \notin events => pc'[h] = "fetch"
        /\ UNCHANGED <<row, job, faults>>
        /\ \A g \in Handlers \ {h} : pc'[g] = pc[g]
    BY <1>3 DEF RecordEvent, Goto
  <2> QED
    BY <2>1 DEF HeldInv
<1>4. ASSUME NEW h \in Handlers, WriteRow(h) PROVE HeldInv'
  <2> DEFINE s == SubOf(job[h])
  <2>1. /\ pc[h] = "write" /\ seen[h].status # "none" /\ s \in Subs
        /\ row' = IF IsCheckout(job[h]) \/ row[s].status # "none"
                    THEN [row EXCEPT ![s] = seen[h]] ELSE row
        /\ UNCHANGED <<events, job, faults>>
        /\ \A g \in Handlers \ {h} : pc'[g] = pc[g]
    BY <1>4 DEF WriteRow, Goto, Events, SubOf
  <2>2. \A q \in Subs : Has(q) => Has(q)'
    BY <2>1
  <2>3. \A q \in Subs : job[h] = <<q, 0>> => Has(q)'
    BY <2>1 DEF IsCheckout, SubOf
  <2> QED
    BY <2>1, <2>2, <2>3 DEF HeldInv
<1>5. ASSUME NEW h \in Handlers, Retrieve(h) PROVE HeldInv'
  BY <1>1, <1>5 DEF Retrieve, Goto
<1>6. ASSUME NEW h \in Handlers, MarkProcessed(h) PROVE HeldInv'
  BY <1>1, <1>6 DEF MarkProcessed, Goto
<1>7. ASSUME NEW h \in Handlers, Reply(h) PROVE HeldInv'
  BY <1>1, <1>7 DEF Reply, Forget, Goto
<1>8. ASSUME NEW h \in Handlers, NEW e \in Sent, Receive(h, e) PROVE HeldInv'
  BY <1>1, <1>8 DEF Receive, Goto
<1>9. ASSUME NEW w \in Sweeps, NEW s \in Subs, Repair(w, s) PROVE HeldInv'
  <2>1. snapshot[w][s].status # "none" /\ UNCHANGED <<events, pc, job, faults>>
    BY <1>9 DEF Repair, ReadingInv
  <2>2. \A q \in Subs : Has(q) => Has(q)'
    <3>1. row'[s].status \in {snapshot[w][s].status, row[s].status}
          /\ \A q \in Subs \ {s} : row'[q] = row[q]
      BY <1>9, RepairRow
    <3> QED
      BY <2>1, <3>1
  <2> QED
    BY <1>2, <2>1, <2>2
<1>10. ASSUME NEW c \in Cancels, WriteCancel(c) PROVE HeldInv'
  <2>1. /\ sub[c] \in Subs /\ answer[c].status # "none" /\ UNCHANGED <<events, pc, job, faults>>
    BY <1>10 DEF WriteCancel, ReadingInv
  <2>2. \A q \in Subs : Has(q) => Has(q)'
    BY <1>10, <2>1, CancelRow
  <2> QED
    BY <1>2, <2>1, <2>2
<1>11. ASSUME UNCHANGED <<row, events, pc, job, faults>> PROVE HeldInv'
  BY <1>2, <1>11
<1>12. ~Fault
  BY DEF Fault
<1>13. ASSUME NEW w \in Sweeps, NEW s \in Subs, Fetch(w, s)
       PROVE  UNCHANGED <<row, events, pc, job, faults>>
  BY <1>12, <1>13 DEF Fetch
<1> QED
  BY <1>3, <1>4, <1>5, <1>6, <1>7, <1>8, <1>9, <1>10, <1>11, <1>12, <1>13
     DEF Next, HandlerStep, SweepStep, CancelStep, vars, StripeStep, Subscribe, Charge, Decline,
         Schedule, End, Unchanged, Load, Reconcile, Abort, AbortSweep, ReadRow, CallStripe,
         AbortCancel

-----------------------------------------------------------------------------
\* The program starts within the invariant.
LEMMA InitInv == Init => IInv
<1>1. Init => TypeOK
  BY BoundsAssumption, EmptyState DEF Init, TypeOK
<1>2. Init => HandlerInv /\ ReadingInv /\ EndedIsFinal /\ ProcessedCheckoutHasRow
  BY DEF Init, HandlerInv, ReadingInv, EndedIsFinal, ProcessedCheckoutHasRow, Nothing, Absent
<1>3. Init => SentInv /\ PaidInv /\ HeldInv /\ NoUnpaidPeriod
  BY DEF Init, SentInv, PaidInv, HeldInv, NoUnpaidPeriod, Nothing, Absent
<1> QED
  BY <1>1, <1>2, <1>3 DEF IInv

\* Every step keeps the invariant.
LEMMA NextInv == IInv /\ [Next]_vars => IInv'
<1> SUFFICES ASSUME IInv, [Next]_vars PROVE IInv'
  OBVIOUS
<1>1. /\ TypeOK /\ HandlerInv /\ ReadingInv /\ SentInv /\ PaidInv /\ HeldInv
      /\ EndedIsFinal /\ ProcessedCheckoutHasRow /\ NoUnpaidPeriod
  BY DEF IInv
<1>2. TypeOK' /\ HandlerInv' /\ ReadingInv'
  BY <1>1, TypeStep, HandlerStepInv, ReadingStep
<1>3. SentInv' /\ PaidInv' /\ HeldInv'
  BY <1>1, <1>2, SentStep, PaidStep, HeldStep
<1>4. EndedIsFinal' /\ ProcessedCheckoutHasRow' /\ NoUnpaidPeriod'
  BY <1>1, <1>2, EndedStep, CheckoutStep, PeriodStep
<1> QED
  BY <1>2, <1>3, <1>4 DEF IInv

\* The inductive invariant holds throughout.
THEOREM MirrorInductive == Spec => []IInv
<1> QED
  BY InitInv, NextInv, PTL DEF Spec

\* A row is canceled only when the subscription has ended, whatever old reading
\* wrote it, so the rows the reconcile job skips are right (runReconcile).
THEOREM EndedRowsAreRight == Spec => []EndedIsFinal
<1>1. IInv => EndedIsFinal
  BY DEF IInv
<1> QED
  BY <1>1, MirrorInductive, PTL

\* A processed checkout has left its row (handleCheckoutCompleted).
THEOREM CheckoutLeavesRow == Spec => []ProcessedCheckoutHasRow
<1>1. IInv => ProcessedCheckoutHasRow
  BY DEF IInv
<1> QED
  BY <1>1, MirrorInductive, PTL

\* A period shown in a row was charged for (current_period_end is copied from
\* Stripe by the webhook and by the reconcile job, never computed).
THEOREM NoUnpaidAccess == Spec => []NoUnpaidPeriod
<1>1. IInv => NoUnpaidPeriod
  BY DEF IInv
<1> QED
  BY <1>1, MirrorInductive, PTL

\* Unless a step fails, no checkout answered 2xx is lost: it has its row, or the
\* handler that recorded it is still at it.
THEOREM CheckoutNotForgotten == Spec => []AnsweredCheckoutHasRow
<1>1. IInv => AnsweredCheckoutHasRow
  BY DEF IInv, HeldInv, SentInv, AnsweredCheckoutHasRow
<1> QED
  BY <1>1, MirrorInductive, PTL

-----------------------------------------------------------------------------
\* A handler works on s; a run of the reconcile job holds the row of s as it loaded
\* it.
AtWork(h, s) == pc[h] # "idle" /\ SubOf(job[h]) = s
InHand(w, s) == s \in todo[w] \/ (phase[w] = "fetch" /\ stored[w][s].status # "none")

\* Handlers, reconcile jobs and cancellations take turns at each subscription, as
\* with a lock on its row.
Serial ==
  /\ \A g, h \in Handlers, s \in Subs : AtWork(g, s) /\ AtWork(h, s) => g = h
  /\ \A v, w \in Sweeps, s \in Subs : InHand(v, s) /\ InHand(w, s) => v = w
  /\ \A b, c \in Cancels : step[b] # "idle" /\ step[c] # "idle" /\ sub[b] = sub[c] => b = c
  /\ \A h \in Handlers, w \in Sweeps, s \in Subs : ~(AtWork(h, s) /\ InHand(w, s))
  /\ \A h \in Handlers, c \in Cancels : step[c] # "idle" => ~AtWork(h, sub[c])
  /\ \A w \in Sweeps, c \in Cancels : step[c] # "idle" => ~InHand(w, sub[c])

\* A status is the one at Stripe, or an event of the subscription is on its way.
Unrecorded(s) == \E e \in Sent : SubOf(e) = s /\ e \notin events
Right(s, status) == status = truth[s].status \/ Unrecorded(s)

\* The row is right or a handler is about to write it, and so is every reading that
\* may yet be written.
CurrentAt(s) ==
  /\ \/ row[s].status = "none"
     \/ Right(s, row[s].status)
     \/ \E h \in Handlers : AtWork(h, s) /\ pc[h] \in {"fetch", "write"}
  /\ \A h \in Handlers : AtWork(h, s) /\ pc[h] = "write" => Right(s, seen[h].status)
  /\ \A w \in Sweeps : InHand(w, s) =>
       /\ stored[w][s].status = row[s].status
       /\ phase[w] = "write" \/ s \notin todo[w] => Right(s, snapshot[w][s].status)
  /\ \A c \in Cancels : step[c] = "write" /\ sub[c] = s => Right(s, answer[c].status)

CurrentInv == faults = 0 => \A s \in Subs : CurrentAt(s)

\* The reconcile job asks for the rows it loaded, and only those.
LoadedInv ==
  \A w \in Sweeps, s \in Subs :
    /\ s \in todo[w] => phase[w] # "idle" /\ stored[w][s].status # "none"
    /\ snapshot[w][s].status # "none" => phase[w] # "idle" /\ stored[w][s].status # "none"

\* What the job asks for is what it loaded.
LEMMA LoadedStep ==
  ASSUME TypeOK, LoadedInv, [Next]_vars
  PROVE  LoadedInv'
<1> USE DEF TypeOK, LoadedInv
<1>1. ASSUME NEW w \in Sweeps, Load(w) PROVE LoadedInv'
  <2> DEFINE loaded == [s \in Subs |-> IF s \in LiveRows THEN row[s] ELSE Absent]
  <2>1. /\ phase' = [phase EXCEPT ![w] = "fetch"] /\ todo' = [todo EXCEPT ![w] = LiveRows]
        /\ stored' = [stored EXCEPT ![w] = loaded] /\ snapshot' = snapshot /\ phase[w] = "idle"
    BY <1>1 DEF Load
  <2>2. \A s \in LiveRows : loaded[s].status # "none"
    BY DEF LiveRows, Live
  <2> QED
    BY <2>1, <2>2
<1>2. ASSUME NEW w \in Sweeps, Finish(w) PROVE LoadedInv'
  BY <1>2 DEF Finish, Nothing, Absent
<1>3. ASSUME NEW w \in Sweeps, NEW s \in Subs, Fetch(w, s) PROVE LoadedInv'
  BY <1>3 DEF Fetch
<1>4. ASSUME NEW w \in Sweeps, Reconcile(w) PROVE LoadedInv'
  <2>1. CASE /\ todo' = [todo EXCEPT ![w] = Drifted(w)]
             /\ phase' = [phase EXCEPT ![w] = "write"]
             /\ UNCHANGED <<stored, snapshot>>
    BY <2>1 DEF Drifted
  <2> QED
    BY <1>2, <1>4, <2>1 DEF Reconcile
<1>5. ASSUME NEW w \in Sweeps, NEW s \in Subs, Repair(w, s) PROVE LoadedInv'
  BY <1>2, <1>5 DEF Repair
<1>6. ASSUME UNCHANGED sweepVars PROVE LoadedInv'
  BY <1>6 DEF sweepVars
<1> QED
  BY <1>1, <1>2, <1>3, <1>4, <1>5, <1>6
     DEF Next, HandlerStep, SweepStep, CancelStep, vars, StripeStep, Subscribe, Charge, Decline,
         Schedule, End, Unchanged, Receive, RecordEvent, Retrieve, WriteRow, MarkProcessed,
         Reply, Abort, AbortSweep, ReadRow, CallStripe, WriteCancel, AbortCancel

\* A reading stays right until the event that made it stale is recorded, and then
\* the handler of that event, alone with the subscription, takes a new one.
LEMMA CurrentStep ==
  ASSUME IInv, LoadedInv, CurrentInv, Serial, [Next]_vars
  PROVE  CurrentInv'
<1> SUFFICES ASSUME faults' = 0, NEW s \in Subs PROVE CurrentAt(s)'
  BY DEF CurrentInv
<1> USE DEF IInv, TypeOK, Right, AtWork, InHand
<1>1. ~Fault
  BY DEF Fault
<1>2. faults = 0
  BY <1>1, BoundsAssumption
     DEF Next, HandlerStep, SweepStep, CancelStep, vars, StripeStep, Subscribe, Charge, Decline,
         Schedule, End, Unchanged, Receive, RecordEvent, Retrieve, WriteRow, MarkProcessed,
         Reply, Abort, Load, Fetch, Reconcile, Repair, AbortSweep, ReadRow, CallStripe,
         WriteCancel, AbortCancel
<1>3. CurrentAt(s)
  BY <1>2 DEF CurrentInv
<1>4. ASSUME UNCHANGED <<emitted, events>> PROVE Unrecorded(s)' <=> Unrecorded(s)
  BY <1>4 DEF Unrecorded, Sent
<1>5. ASSUME NEW q \in Subs, NEW new, Change(q, new), UNCHANGED events
      PROVE  IF q = s THEN Unrecorded(s)' ELSE truth'[s] = truth[s] /\ (Unrecorded(s)' <=> Unrecorded(s))
  <2> DEFINE e == <<q, emitted[q]>>
  <2>1. /\ emitted[q] \in 0..MaxEvents /\ emitted[q] < MaxEvents /\ truth' = [truth EXCEPT ![q] = new]
        /\ emitted' = [emitted EXCEPT ![q] = @ + 1]
    BY <1>5 DEF Change
  <2>2. e \in Events /\ SubOf(e) = q /\ e \notin Sent /\ e \in Sent'
    BY <2>1, BoundsAssumption DEF Events, SubOf, Sent
  <2>3. q # s => \A d \in Events : SubOf(d) = s => (d \in Sent <=> d \in Sent')
    BY <2>1 DEF Sent
  <2>4. Sent \subseteq Events /\ Sent' \subseteq Events
    BY DEF Sent
  <2>5. e \notin events
    BY <2>2 DEF SentInv
  <2>6. CASE q = s
    BY <1>5, <2>2, <2>5, <2>6 DEF Unrecorded
  <2>7. CASE q # s
    BY <1>5, <2>1, <2>3, <2>4, <2>7 DEF Unrecorded
  <2> QED
    BY <2>6, <2>7
<1> DEFINE Others(h) == \A g \in Handlers \ {h} : pc'[g] = pc[g] /\ job'[g] = job[g] /\ seen'[g] = seen[g]
<1>6. ASSUME NEW q \in Subs, StripeStep(q) PROVE CurrentAt(s)'
  <2>1. PICK new \in State : Change(q, new)
    BY <1>6, StripeChange
  <2>2. Unchanged
    BY <1>6, StripeChange
  <2>3. IF q = s THEN Unrecorded(s)' ELSE truth'[s] = truth[s] /\ (Unrecorded(s)' <=> Unrecorded(s))
    BY <1>5, <2>1, <2>2 DEF Unchanged, dbVars
  <2> QED
    BY <1>3, <2>2, <2>3 DEF CurrentAt, Unchanged, dbVars, handlerVars, sweepVars, cancelVars
<1>7. ASSUME NEW h \in Handlers, NEW e \in Sent, Receive(h, e) PROVE CurrentAt(s)'
  <2>1. /\ UNCHANGED <<truth, emitted, events, row, seen, sweepVars, cancelVars>> /\ pc[h] = "idle"
        /\ pc'[h] = "record" /\ Others(h)
    BY <1>7 DEF Receive, Goto, stripeVars, dbVars
  <2> QED
    BY <1>3, <1>4, <2>1 DEF CurrentAt, sweepVars, cancelVars
<1>8. ASSUME NEW h \in Handlers, RecordEvent(h) PROVE CurrentAt(s)'
  <2>1. /\ pc[h] = "record" /\ events' = events \cup {job[h]}
        /\ pc'[h] = (IF job[h] \in events THEN "reply" ELSE "fetch")
        /\ UNCHANGED <<truth, emitted, row, job, seen, phase, todo, stored, snapshot, step, sub, answer>>
        /\ Others(h)
    BY <1>8 DEF RecordEvent, Goto, stripeVars, sweepVars, cancelVars
  <2>2. CASE job[h] \in events
    <3>1. events' = events
      BY <2>1, <2>2
    <3> QED
      BY <1>3, <1>4, <2>1, <2>2, <3>1 DEF CurrentAt
  <2>3. CASE SubOf(job[h]) # s
    <3>1. Unrecorded(s)' <=> Unrecorded(s)
      BY <2>1, <2>3 DEF Unrecorded, Sent
    <3> QED
      BY <1>3, <2>1, <2>3, <3>1 DEF CurrentAt
  <2>4. CASE job[h] \notin events /\ SubOf(job[h]) = s
    <3>1. AtWork(h, s) /\ AtWork(h, s)' /\ pc'[h] = "fetch"
      BY <2>1, <2>4
    <3>2. \A g \in Handlers : AtWork(g, s)' => g = h
      BY <2>1, <3>1 DEF Serial
    <3>3. \A w \in Sweeps : ~InHand(w, s)'
      BY <2>1, <3>1 DEF Serial
    <3>4. ASSUME NEW c \in Cancels, step'[c] = "write", sub'[c] = s PROVE FALSE
      <4>1. step[c] # "idle" /\ sub[c] = s
        BY <2>1, <3>4
      <4>2. step[c] # "idle" => ~AtWork(h, sub[c])
        BY DEF Serial
      <4> QED
        BY <3>1, <4>1, <4>2
    <3> QED
      BY <3>1, <3>2, <3>3, <3>4 DEF CurrentAt
  <2> QED
    BY <2>2, <2>3, <2>4
<1>9. ASSUME NEW h \in Handlers, Retrieve(h) PROVE CurrentAt(s)'
  <2>1. /\ pc[h] = "fetch" /\ pc'[h] = "write" /\ seen'[h] = truth[SubOf(job[h])]
        /\ UNCHANGED <<truth, emitted, events, row, job, phase, todo, stored, snapshot, step, sub, answer>>
        /\ Others(h)
    BY <1>9 DEF Retrieve, Goto, stripeVars, dbVars, sweepVars, cancelVars
  <2> QED
    BY <1>3, <1>4, <2>1 DEF CurrentAt
<1>10. ASSUME NEW h \in Handlers, WriteRow(h) PROVE CurrentAt(s)'
  <2>1. /\ pc[h] = "write" /\ pc'[h] = "mark"
        /\ UNCHANGED <<truth, emitted, events, job, phase, todo, stored, snapshot, step, sub, answer>>
        /\ Others(h)
    BY <1>10 DEF WriteRow, Goto, stripeVars, sweepVars, cancelVars
  <2>2. SubOf(job[h]) # s => row'[s] = row[s]
    BY <1>10 DEF WriteRow
  <2>3. SubOf(job[h]) = s => row'[s] = seen[h] \/ (row'[s] = row[s] /\ row[s].status = "none")
    BY <1>10 DEF WriteRow
  <2>4. CASE SubOf(job[h]) # s
    BY <1>3, <1>4, <2>1, <2>2, <2>4 DEF CurrentAt
  <2>5. CASE SubOf(job[h]) = s
    <3>1. AtWork(h, s)
      BY <2>1, <2>5
    <3>2. Right(s, seen[h].status)
      BY <1>3, <2>1, <3>1 DEF CurrentAt
    <3>3. \A w \in Sweeps : ~InHand(w, s)'
      BY <2>1, <3>1 DEF Serial
    <3>4. row'[s].status = "none" \/ Right(s, row'[s].status)
      BY <2>3, <2>5, <3>2
    <3> QED
      BY <1>3, <1>4, <2>1, <3>3, <3>4 DEF CurrentAt
  <2> QED
    BY <2>4, <2>5
<1>11. ASSUME NEW h \in Handlers, MarkProcessed(h) \/ Reply(h) PROVE CurrentAt(s)'
  <2>1. /\ pc[h] \in {"mark", "reply"} /\ pc'[h] \in {"reply", "idle"}
        /\ UNCHANGED <<truth, emitted, events, row, phase, todo, stored, snapshot, step, sub, answer>>
        /\ Others(h)
    BY <1>11 DEF MarkProcessed, Reply, Forget, Goto, stripeVars, dbVars, sweepVars, cancelVars
  <2> QED
    BY <1>3, <1>4, <2>1 DEF CurrentAt
<1> HIDE DEF Others
<1>12. ASSUME NEW w \in Sweeps, Load(w) PROVE CurrentAt(s)'
  <2> DEFINE loaded == [q \in Subs |-> IF q \in LiveRows THEN row[q] ELSE Absent]
  <2>1. /\ phase' = [phase EXCEPT ![w] = "fetch"] /\ todo' = [todo EXCEPT ![w] = LiveRows]
        /\ stored' = [stored EXCEPT ![w] = loaded]
        /\ UNCHANGED <<truth, emitted, events, row, pc, job, seen, snapshot, step, sub, answer>>
    BY <1>12 DEF Load, stripeVars, dbVars, handlerVars, cancelVars
  <2>2. CASE s \in LiveRows
    BY <1>3, <1>4, <2>1, <2>2 DEF CurrentAt
  <2>3. CASE s \notin LiveRows
    <3>1. loaded[s].status = "none"
      BY <2>3 DEF Absent
    <3>2. ~InHand(w, s)'
      BY <2>1, <2>3, <3>1
    <3> HIDE DEF loaded
    <3> QED
      BY <1>3, <1>4, <2>1, <3>2 DEF CurrentAt
  <2> QED
    BY <2>2, <2>3
<1>13. ASSUME NEW w \in Sweeps, Finish(w), UNCHANGED <<truth, emitted, events, handlerVars, cancelVars>>,
              row'[s] = row[s] \/ ((\A v \in Sweeps \ {w} : ~InHand(v, s)) /\ Right(s, row'[s].status))
       PROVE  CurrentAt(s)'
  <2>1. ~InHand(w, s)'
    BY <1>13 DEF Finish
  <2>2. \A v \in Sweeps \ {w} : /\ phase'[v] = phase[v] /\ todo'[v] = todo[v] /\ stored'[v] = stored[v]
                                /\ snapshot'[v] = snapshot[v]
    BY <1>13 DEF Finish
  <2>3. UNCHANGED <<truth, emitted, events, pc, job, seen, step, sub, answer>>
    BY <1>13 DEF handlerVars, cancelVars
  <2> QED
    BY <1>3, <1>4, <1>13, <2>1, <2>2, <2>3 DEF CurrentAt
<1>14. ASSUME NEW w \in Sweeps, NEW q \in Subs, Fetch(w, q) PROVE CurrentAt(s)'
  <2>1. /\ phase[w] = "fetch" /\ todo' = [todo EXCEPT ![w] = @ \ {q}]
        /\ snapshot' = [snapshot EXCEPT ![w][q] = truth[q]]
        /\ UNCHANGED <<truth, emitted, events, row, pc, job, seen, phase, stored, step, sub, answer>>
        /\ q \in todo[w]
    BY <1>1, <1>14 DEF Fetch, stripeVars, dbVars, handlerVars, cancelVars
  <2>2. \A v \in Sweeps : InHand(v, s)' => InHand(v, s)
    BY <2>1
  <2>3. \A v \in Sweeps : InHand(v, s)' /\ (phase'[v] = "write" \/ s \notin todo'[v])
                            => Right(s, snapshot'[v][s].status)
    <3>1. SUFFICES ASSUME NEW v \in Sweeps, InHand(v, s)', phase'[v] = "write" \/ s \notin todo'[v]
                   PROVE  Right(s, snapshot'[v][s].status)
      OBVIOUS
    <3>2. CASE v = w /\ q = s
      BY <2>1, <3>2
    <3>3. CASE ~(v = w /\ q = s)
      <4>1. snapshot'[v][s] = snapshot[v][s] /\ (s \in todo'[v] <=> s \in todo[v])
        BY <2>1, <3>3
      <4> QED
        BY <1>3, <2>1, <2>2, <3>1, <4>1 DEF CurrentAt
    <3> QED
      BY <3>2, <3>3
  <2>4. \A v \in Sweeps : InHand(v, s)' => stored'[v][s].status = row'[s].status
    BY <1>3, <2>1, <2>2 DEF CurrentAt
  <2> HIDE DEF InHand
  <2> QED
    BY <1>3, <1>4, <2>1, <2>3, <2>4 DEF CurrentAt
<1>15. ASSUME NEW w \in Sweeps, Reconcile(w) PROVE CurrentAt(s)'
  <2>1. CASE Finish(w)
    BY <1>13, <1>15, <2>1 DEF Reconcile, stripeVars, dbVars
  <2>2. CASE /\ todo' = [todo EXCEPT ![w] = Drifted(w)]
             /\ phase' = [phase EXCEPT ![w] = "write"]
             /\ UNCHANGED <<stored, snapshot>>
    <3>1. /\ phase[w] = "fetch" /\ todo[w] = {}
          /\ UNCHANGED <<truth, emitted, events, row, pc, job, seen, step, sub, answer>>
      BY <1>15 DEF Reconcile, stripeVars, dbVars, handlerVars, cancelVars
    <3>2. InHand(w, s)' => InHand(w, s)
      BY <2>2, <3>1 DEF Drifted, LoadedInv
    <3> QED
      BY <1>3, <1>4, <2>2, <3>1, <3>2 DEF CurrentAt
  <2> QED
    BY <1>15, <2>1, <2>2 DEF Reconcile
<1>16. ASSUME NEW w \in Sweeps, NEW q \in Subs, Repair(w, q) PROVE CurrentAt(s)'
  <2>1. /\ phase[w] = "write" /\ q \in todo[w] /\ row' = [row EXCEPT ![q] = Patch(@, stored[w][q], snapshot[w][q])]
        /\ UNCHANGED <<truth, emitted, events, handlerVars, cancelVars>>
    BY <1>16 DEF Repair, stripeVars
  <2>2. row'[s] = row[s] \/ ((\A v \in Sweeps \ {w} : ~InHand(v, s)) /\ Right(s, row'[s].status))
    <3>1. CASE q # s
      BY <2>1, <3>1
    <3>2. CASE q = s
      <4>1. InHand(w, s)
        BY <2>1, <3>2
      <4>2. stored[w][s].status = row[s].status /\ Right(s, snapshot[w][s].status)
        BY <1>3, <2>1, <4>1 DEF CurrentAt
      <4>3. row'[s].status = snapshot[w][s].status
        BY <2>1, <3>2, <4>2 DEF Patch
      <4>4. \A v \in Sweeps \ {w} : ~InHand(v, s)
        <5>1. \A v \in Sweeps : InHand(v, s) /\ InHand(w, s) => v = w
          BY DEF Serial
        <5> QED
          BY <4>1, <5>1
      <4> QED
        BY <4>2, <4>3, <4>4
    <3> QED
      BY <3>1, <3>2
  <2>3. CASE Finish(w)
    BY <1>13, <2>1, <2>2, <2>3
  <2>4. CASE todo' = [todo EXCEPT ![w] = @ \ {q}] /\ UNCHANGED <<phase, stored, snapshot>>
    <3>1. \A v \in Sweeps : InHand(v, s)' => InHand(v, s) /\ (v = w => q # s)
      BY <2>1, <2>4
    <3>2. \A v \in Sweeps : InHand(v, s)' => row'[s] = row[s]
      BY <2>1, <2>2, <3>1 DEF Serial
    <3>3. \A v \in Sweeps : InHand(v, s)' => (s \in todo'[v] <=> s \in todo[v])
      BY <2>1, <2>4, <3>1
    <3>4. UNCHANGED <<truth, emitted, events, pc, job, seen, step, sub, answer>>
      BY <2>1 DEF handlerVars, cancelVars
    <3> QED
      BY <1>3, <1>4, <2>2, <2>4, <3>1, <3>2, <3>3, <3>4 DEF CurrentAt
  <2> QED
    BY <1>16, <2>3, <2>4 DEF Repair
<1>17. ASSUME NEW c \in Cancels, NEW q \in Subs, ReadRow(c, q) PROVE CurrentAt(s)'
  <2>1. /\ step'[c] = "call" /\ \A b \in Cancels \ {c} : step'[b] = step[b] /\ sub'[b] = sub[b]
        /\ UNCHANGED <<truth, emitted, events, row, pc, job, seen, phase, todo, stored, snapshot, answer>>
    BY <1>17 DEF ReadRow, stripeVars, dbVars, handlerVars, sweepVars
  <2> QED
    BY <1>3, <1>4, <2>1 DEF CurrentAt
<1>18. ASSUME NEW c \in Cancels, CallStripe(c) PROVE CurrentAt(s)'
  <2>1. sub[c] \in Subs /\ UNCHANGED <<row, events, pc, job, seen, phase, todo, stored, snapshot>>
    BY <1>18, CallChange DEF dbVars, handlerVars, sweepVars
  <2>2. CASE Return(c) /\ UNCHANGED stripeVars
    <3>1. step'[c] = "idle" /\ \A b \in Cancels \ {c} : step'[b] = step[b] /\ sub'[b] = sub[b] /\ answer'[b] = answer[b]
      BY <2>2 DEF Return
    <3> QED
      BY <1>3, <1>4, <2>1, <2>2, <3>1 DEF CurrentAt, stripeVars
  <2>3. ASSUME NEW new \in State, answer' = [answer EXCEPT ![c] = new],
               step' = [step EXCEPT ![c] = "write"], UNCHANGED <<sub, kept>>,
               (new = truth[sub[c]] /\ UNCHANGED stripeVars) \/ Change(sub[c], new)
        PROVE  CurrentAt(s)'
    <3>1. answer'[c] = new /\ \A b \in Cancels \ {c} : step'[b] = step[b] /\ answer'[b] = answer[b]
      BY <2>3
    <3>2. CASE new = truth[sub[c]] /\ UNCHANGED stripeVars
      BY <1>3, <1>4, <2>1, <2>3, <3>1, <3>2 DEF CurrentAt, stripeVars
    <3>3. CASE Change(sub[c], new)
      <4>1. IF sub[c] = s THEN Unrecorded(s)'
                          ELSE truth'[s] = truth[s] /\ (Unrecorded(s)' <=> Unrecorded(s))
        BY <1>5, <2>1, <3>3
      <4> QED
        BY <1>3, <2>1, <2>3, <3>1, <4>1 DEF CurrentAt
    <3> QED
      BY <2>3, <3>2, <3>3
  <2> QED
    BY <1>18, <2>2, <2>3, CallChange
<1>19. ASSUME NEW c \in Cancels, WriteCancel(c) PROVE CurrentAt(s)'
  <2>1. sub[c] \in Subs /\ step[c] = "write"
    BY <1>19 DEF WriteCancel, ReadingInv
  <2>2. /\ step'[c] = "idle" /\ \A b \in Cancels \ {c} : step'[b] = step[b] /\ sub'[b] = sub[b] /\ answer'[b] = answer[b]
        /\ UNCHANGED <<truth, emitted, events, pc, job, seen, phase, todo, stored, snapshot>>
    BY <1>19 DEF WriteCancel, Return, stripeVars, handlerVars, sweepVars
  <2>3. row'[sub[c]].status = answer[c].status /\ (s # sub[c] => row'[s] = row[s])
    BY <1>19, <2>1, CancelRow
  <2>4. CASE s # sub[c]
    BY <1>3, <1>4, <2>2, <2>3, <2>4 DEF CurrentAt
  <2>5. CASE s = sub[c]
    <3>1. Right(s, row'[s].status)
      BY <1>3, <2>1, <2>3, <2>5 DEF CurrentAt
    <3>2. \A w \in Sweeps : ~InHand(w, s)'
      BY <2>1, <2>2, <2>5 DEF Serial
    <3> QED
      BY <1>3, <1>4, <2>2, <3>1, <3>2 DEF CurrentAt
  <2> QED
    BY <2>4, <2>5
<1>20. ASSUME UNCHANGED vars PROVE CurrentAt(s)'
  BY <1>3, <1>4, <1>20 DEF CurrentAt, vars, stripeVars, dbVars, handlerVars, sweepVars, cancelVars
<1> QED
  BY <1>1, <1>6, <1>7, <1>8, <1>9, <1>10, <1>11, <1>12, <1>14, <1>15, <1>16, <1>17, <1>18, <1>19, <1>20
     DEF Next, HandlerStep, SweepStep, CancelStep, Abort, AbortSweep, AbortCancel

\* Races are all that breaks what the webhook's comments promise of late events:
\* while the handlers, the reconcile job and the cancellations take turns at each
\* subscription and no step fails, the rows are current once every event was
\* answered, in whatever order and however often the events come.
THEOREM CurrentWhenSerial == Spec /\ []Serial => []OutOfOrderTolerance
<1>1. Init => LoadedInv /\ CurrentInv
  BY DEF Init, LoadedInv, CurrentInv, CurrentAt, AtWork, InHand, Nothing, Absent
<1>2. TypeOK /\ LoadedInv /\ [Next]_vars => LoadedInv'
  BY LoadedStep
<1>3. IInv /\ LoadedInv /\ CurrentInv /\ Serial /\ [Next]_vars => CurrentInv'
  BY CurrentStep
<1>4. IInv => TypeOK
  BY DEF IInv
<1>5. IInv /\ CurrentInv => OutOfOrderTolerance
  <2> SUFFICES ASSUME IInv, CurrentInv, faults = 0, Sent \subseteq acked, \A h \in Handlers : pc[h] = "idle",
                      NEW s \in Subs, row[s].status # "none"
               PROVE  row[s].status = truth[s].status
    BY DEF OutOfOrderTolerance
  <2>1. ~Unrecorded(s)
    BY DEF Unrecorded, IInv, SentInv
  <2> QED
    BY <2>1 DEF CurrentInv, CurrentAt, Right, AtWork
<1> QED
  BY <1>1, <1>2, <1>3, <1>4, <1>5, MirrorInductive, PTL DEF Spec
=============================================================================
