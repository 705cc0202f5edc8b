------------------------- MODULE StripeSubscriptions -------------------------
(***************************************************************************)
(* The subscriptions table as a mirror of Stripe: the webhook that fetches *)
(* a subscription again and writes its row, the reconcile job that repairs *)
(* rows, and the owner's cancellation.                                     *)
(*                                                                         *)
(* Each of the three reads Stripe in one step and writes the row in a later*)
(* one, without a transaction or a lock: an old reading may overwrite a    *)
(* newer one.                                                              *)
(***************************************************************************)
EXTENDS Integers, FiniteSets

CONSTANTS
  Subs,       \* Stripe subscriptions, subscriptions.provider_sub_id
  Handlers,   \* webhook requests in flight
  Sweeps,     \* runs of the reconcile job in flight
  Cancels,    \* cancelSubscription requests in flight
  MaxEvents,  \* bound on the events Stripe emits for one subscription
  MaxPeriod,  \* bound on the renewals of one subscription
  MaxFaults,  \* bound on crashed or failed steps
  None

ASSUME BoundsAssumption == MaxEvents \in Nat /\ MaxPeriod \in Nat /\ MaxFaults \in Nat
ASSUME NoneAssumption == None \notin Subs /\ None \notin Subs \X Nat

VARIABLES
  (* Stripe *)
  truth,     \* truth[s]: the subscription at Stripe
  emitted,   \* emitted[s]: how many events Stripe has emitted for s
  acked,     \* events answered with 2xx
  (* the database *)
  row,       \* row[s]: the row of s
  events,    \* payment_events.provider_event_id
  processed, \* the events whose processed_at is set
  (* webhook requests *)
  pc,        \* the next statement of the handler
  job,       \* the event it handles
  seen,      \* what stripe.subscriptions.retrieve answered
  (* runs of the reconcile job *)
  phase,     \* its next statement
  todo,      \* the subscriptions left to fetch or to write
  stored,    \* the rows it loaded
  snapshot,  \* the states Stripe answered
  (* cancelSubscription requests *)
  step,      \* its next statement
  sub,       \* the subscription to cancel
  kept,      \* cancel_at of the row it read
  answer,    \* the state Stripe answered
  faults     \* crashes and failed steps so far

stripeVars == <<truth, emitted, acked>>
dbVars == <<row, events, processed>>
handlerVars == <<pc, job, seen>>
sweepVars == <<phase, todo, stored, snapshot>>
cancelVars == <<step, sub, kept, answer>>
vars == <<stripeVars, dbVars, handlerVars, sweepVars, cancelVars, faults>>

-----------------------------------------------------------------------------
\* One status of each kind: it gives access and is reconciled (active, trialing,
\* past_due), it is only reconciled (unpaid, incomplete, paused), it is neither
\* (canceled, incomplete_expired); "none": no row, or nothing at Stripe.
Live == {"active", "unpaid"}
Statuses == Live \cup {"canceled", "none"}

\* status, whether cancel_at is set, current_period_end
State == [status: Statuses, ending: BOOLEAN, period: Nat]
Absent == [status |-> "none", ending |-> FALSE, period |-> 0]

\* Event 0 of a subscription is checkout.session.completed, the later ones are
\* customer.subscription.* and invoice.* events.
Events == Subs \X (0..(MaxEvents - 1))
SubOf(e) == e[1]
IsCheckout(e) == e[2] = 0
Sent == {e \in Events : e[2] < emitted[SubOf(e)]}

TypeOK ==
  /\ truth \in [Subs -> State]
  /\ emitted \in [Subs -> 0..MaxEvents]
  /\ acked \subseteq Events
  /\ row \in [Subs -> State]
  /\ events \subseteq Events
  /\ processed \subseteq Events
  /\ pc \in [Handlers -> {"idle", "record", "fetch", "write", "mark", "reply"}]
  /\ job \in [Handlers -> Events \cup {None}]
  /\ seen \in [Handlers -> State]
  /\ phase \in [Sweeps -> {"idle", "fetch", "write"}]
  /\ todo \in [Sweeps -> SUBSET Subs]
  /\ stored \in [Sweeps -> [Subs -> State]]
  /\ snapshot \in [Sweeps -> [Subs -> State]]
  /\ step \in [Cancels -> {"idle", "call", "write"}]
  /\ sub \in [Cancels -> Subs \cup {None}]
  /\ kept \in [Cancels -> BOOLEAN]
  /\ answer \in [Cancels -> State]
  /\ faults \in 0..MaxFaults

Nothing == [s \in Subs |-> Absent]

Init ==
  /\ truth = Nothing
  /\ emitted = [s \in Subs |-> 0]
  /\ acked = {}
  /\ row = Nothing
  /\ events = {}
  /\ processed = {}
  /\ pc = [h \in Handlers |-> "idle"]
  /\ job = [h \in Handlers |-> None]
  /\ seen = [h \in Handlers |-> Absent]
  /\ phase = [w \in Sweeps |-> "idle"]
  /\ todo = [w \in Sweeps |-> {}]
  /\ stored = [w \in Sweeps |-> Nothing]
  /\ snapshot = [w \in Sweeps |-> Nothing]
  /\ step = [c \in Cancels |-> "idle"]
  /\ sub = [c \in Cancels |-> None]
  /\ kept = [c \in Cancels |-> FALSE]
  /\ answer = [c \in Cancels |-> Absent]
  /\ faults = 0

-----------------------------------------------------------------------------
(* Stripe *)

\* The subscription changes and Stripe says so.
Change(s, new) ==
  /\ emitted[s] < MaxEvents
  /\ truth' = [truth EXCEPT ![s] = new]
  /\ emitted' = [emitted EXCEPT ![s] = @ + 1]
  /\ UNCHANGED acked

Unchanged == UNCHANGED <<dbVars, handlerVars, sweepVars, cancelVars, faults>>

\* The buyer completes the checkout session.
Subscribe(s) ==
  /\ truth[s].status = "none"
  /\ Change(s, [status |-> "active", ending |-> FALSE, period |-> 0])
  /\ Unchanged

\* A charge goes through, after a failed one or for the next period.
Charge(s) ==
  /\ truth[s].status \in Live
  /\ truth[s].period < MaxPeriod
  /\ Change(s, [truth[s] EXCEPT !.status = "active", !.period = @ + 1])
  /\ Unchanged

\* A charge fails.
Decline(s) ==
  /\ truth[s].status = "active"
  /\ Change(s, [truth[s] EXCEPT !.status = "unpaid"])
  /\ Unchanged

\* The buyer schedules the end in the customer portal, or takes it back.
Schedule(s) ==
  /\ truth[s].status \in Live
  /\ Change(s, [truth[s] EXCEPT !.ending = ~@])
  /\ Unchanged

\* The subscription ends; Stripe never brings it back.
End(s) ==
  /\ truth[s].status \in Live
  /\ Change(s, [truth[s] EXCEPT !.status = "canceled"])
  /\ Unchanged

-----------------------------------------------------------------------------
(* The webhook *)

Goto(h, next) == pc' = [pc EXCEPT ![h] = next]

\* Stripe delivers an event, in any order and as often as it likes.
Receive(h, e) ==
  /\ pc[h] = "idle"
  /\ e \in Sent
  /\ Goto(h, "record")
  /\ job' = [job EXCEPT ![h] = e]
  /\ UNCHANGED <<stripeVars, dbVars, seen, sweepVars, cancelVars, faults>>

(* Definitions named Wrong... are mistakes the runs must notice; nothing uses *)
(* them.                                                                    *)

\* A duplicate is marked processed too.
WrongRecordEvent(h) ==
  /\ pc[h] = "record"
  /\ events' = events \cup {job[h]}
  /\ Goto(h, IF job[h] \in events THEN "mark" ELSE "fetch")
  /\ UNCHANGED <<stripeVars, row, processed, job, seen, sweepVars, cancelVars, faults>>

\* INSERT INTO payment_events ... ON CONFLICT DO NOTHING; a duplicate is skipped.
RecordEvent(h) ==
  /\ pc[h] = "record"
  /\ events' = events \cup {job[h]}
  /\ Goto(h, IF job[h] \in events THEN "reply" ELSE "fetch")
  /\ UNCHANGED <<stripeVars, row, processed, job, seen, sweepVars, cancelVars, faults>>

\* stripe.subscriptions.retrieve, for a checkout and for any other event.
Retrieve(h) ==
  /\ pc[h] = "fetch"
  /\ seen' = [seen EXCEPT ![h] = truth[SubOf(job[h])]]
  /\ Goto(h, "write")
  /\ UNCHANGED <<stripeVars, dbVars, job, sweepVars, cancelVars, faults>>

\* A checkout updates like any other event.
WrongWriteRow(h) ==
  /\ pc[h] = "write"
  /\ LET s == SubOf(job[h]) IN
       row' = IF row[s].status # "none" THEN [row EXCEPT ![s] = seen[h]] ELSE row
  /\ seen' = [seen EXCEPT ![h] = Absent]
  /\ Goto(h, "mark")
  /\ UNCHANGED <<stripeVars, events, processed, job, sweepVars, cancelVars, faults>>

\* handleCheckoutCompleted upserts the row; refreshSubscriptionFromStripe updates
\* the row, if there is one.  (Every session was opened by createCheckoutSession,
\* whose metadata names a user and a plan.)
WriteRow(h) ==
  /\ pc[h] = "write"
  /\ LET s == SubOf(job[h]) IN
       row' = IF IsCheckout(job[h]) \/ row[s].status # "none"
                THEN [row EXCEPT ![s] = seen[h]] ELSE row
  /\ seen' = [seen EXCEPT ![h] = Absent]
  /\ Goto(h, "mark")
  /\ UNCHANGED <<stripeVars, events, processed, job, sweepVars, cancelVars, faults>>

MarkProcessed(h) ==
  /\ pc[h] = "mark"
  /\ processed' = processed \cup {job[h]}
  /\ Goto(h, "reply")
  /\ UNCHANGED <<stripeVars, row, events, job, seen, sweepVars, cancelVars, faults>>

Forget(h) ==
  /\ Goto(h, "idle")
  /\ job' = [job EXCEPT ![h] = None]
  /\ seen' = [seen EXCEPT ![h] = Absent]

\* 200: Stripe stops retrying.
Reply(h) ==
  /\ pc[h] = "reply"
  /\ acked' = acked \cup {job[h]}
  /\ Forget(h)
  /\ UNCHANGED <<truth, emitted, dbVars, sweepVars, cancelVars, faults>>

Fault == faults < MaxFaults /\ faults' = faults + 1

\* A statement or the call to Stripe throws (500), or the process dies.
Abort(h) ==
  /\ pc[h] # "idle"
  /\ Fault
  /\ Forget(h)
  /\ UNCHANGED <<stripeVars, dbVars, sweepVars, cancelVars>>

-----------------------------------------------------------------------------
(* The reconcile job *)

Finish(w) ==
  /\ phase' = [phase EXCEPT ![w] = "idle"]
  /\ todo' = [todo EXCEPT ![w] = {}]
  /\ stored' = [stored EXCEPT ![w] = Nothing]
  /\ snapshot' = [snapshot EXCEPT ![w] = Nothing]

LiveRows == {s \in Subs : row[s].status \in Live}

\* runReconcile loads the rows that are not terminal; without one it returns.
Load(w) ==
  /\ phase[w] = "idle"
  /\ LiveRows # {}
  /\ phase' = [phase EXCEPT ![w] = "fetch"]
  /\ todo' = [todo EXCEPT ![w] = LiveRows]
  /\ stored' = [stored EXCEPT ![w] = [s \in Subs |-> IF s \in LiveRows THEN row[s] ELSE Absent]]
  /\ UNCHANGED <<stripeVars, dbVars, handlerVars, snapshot, cancelVars, faults>>

\* fetchGatewayStates asks for one subscription after the other and leaves out
\* the one it cannot get.
Fetch(w, s) ==
  /\ phase[w] = "fetch"
  /\ s \in todo[w]
  /\ todo' = [todo EXCEPT ![w] = @ \ {s}]
  /\ \/ /\ snapshot' = [snapshot EXCEPT ![w][s] = truth[s]]
        /\ UNCHANGED faults
     \/ Fault /\ UNCHANGED snapshot
  /\ UNCHANGED <<stripeVars, dbVars, handlerVars, phase, stored, cancelVars>>

\* Where Stripe answered and the loaded row differs (reconcileBatch).
Drifted(w) == {s \in Subs : snapshot[w][s].status # "none" /\ snapshot[w][s] # stored[w][s]}

Reconcile(w) ==
  /\ phase[w] = "fetch"
  /\ todo[w] = {}
  /\ \/ Drifted(w) = {} /\ Finish(w)
     \/ /\ Drifted(w) # {}
        /\ todo' = [todo EXCEPT ![w] = Drifted(w)]
        /\ phase' = [phase EXCEPT ![w] = "write"]
        /\ UNCHANGED <<stored, snapshot>>
  /\ UNCHANGED <<stripeVars, dbVars, handlerVars, cancelVars, faults>>

\* cancel_at is not compared.
WrongPatch(current, was, is) ==
  [status |-> IF was.status # is.status THEN is.status ELSE current.status,
   ending |-> current.ending,
   period |-> IF was.period # is.period THEN is.period ELSE current.period]

\* The patch of diffSubscription names the fields in which the loaded row and
\* Stripe differ; the others keep what the row holds when it is written.
Patch(current, was, is) ==
  [status |-> IF was.status # is.status THEN is.status ELSE current.status,
   ending |-> IF was.ending # is.ending THEN is.ending ELSE current.ending,
   period |-> IF was.period # is.period THEN is.period ELSE current.period]

Repair(w, s) ==
  /\ phase[w] = "write"
  /\ s \in todo[w]
  /\ row' = [row EXCEPT ![s] = Patch(@, stored[w][s], snapshot[w][s])]
  /\ IF todo[w] = {s}
       THEN Finish(w)
       ELSE todo' = [todo EXCEPT ![w] = @ \ {s}] /\ UNCHANGED <<phase, stored, snapshot>>
  /\ UNCHANGED <<stripeVars, events, processed, handlerVars, cancelVars, faults>>

\* The job throws or dies; it starts from the beginning next time.
AbortSweep(w) ==
  /\ phase[w] # "idle"
  /\ Fault
  /\ Finish(w)
  /\ UNCHANGED <<stripeVars, dbVars, handlerVars, cancelVars>>

-----------------------------------------------------------------------------
(* cancelSubscription *)

\* The owner's row is read; a canceled one is refused.
ReadRow(c, s) ==
  /\ step[c] = "idle"
  /\ row[s].status \notin {"none", "canceled"}
  /\ step' = [step EXCEPT ![c] = "call"]
  /\ sub' = [sub EXCEPT ![c] = s]
  /\ kept' = [kept EXCEPT ![c] = row[s].ending]
  /\ UNCHANGED <<stripeVars, dbVars, handlerVars, sweepVars, answer, faults>>

Return(c) ==
  /\ step' = [step EXCEPT ![c] = "idle"]
  /\ sub' = [sub EXCEPT ![c] = None]
  /\ kept' = [kept EXCEPT ![c] = FALSE]
  /\ answer' = [answer EXCEPT ![c] = Absent]

\* provider.cancelSubscription: at period end, or at once.  Stripe refuses when
\* the subscription has ended, and says nothing when nothing changes.
CallStripe(c) ==
  /\ step[c] = "call"
  /\ LET s == sub[c] IN
       \/ /\ truth[s].status = "canceled"
          /\ Return(c)
          /\ UNCHANGED stripeVars
       \/ /\ truth[s].status # "canceled"
          /\ \E new \in {[truth[s] EXCEPT !.ending = TRUE], [truth[s] EXCEPT !.status = "canceled"]} :
               /\ answer' = [answer EXCEPT ![c] = new]
               /\ IF new = truth[s] THEN UNCHANGED stripeVars ELSE Change(s, new)
          /\ step' = [step EXCEPT ![c] = "write"]
          /\ UNCHANGED <<sub, kept>>
  /\ UNCHANGED <<dbVars, handlerVars, sweepVars, faults>>

\* The row is canceled at once, at period end or not.
WrongWriteCancel(c) ==
  /\ step[c] = "write"
  /\ row' = [row EXCEPT ![sub[c]].status = "canceled",
                        ![sub[c]].ending = answer[c].ending \/ kept[c]]
  /\ Return(c)
  /\ UNCHANGED <<stripeVars, events, processed, handlerVars, sweepVars, faults>>

\* UPDATE subscriptions SET status, cancel_at: the cancel_at of the answer, or
\* of the row as it was read.
WriteCancel(c) ==
  /\ step[c] = "write"
  /\ row' = [row EXCEPT ![sub[c]].status = answer[c].status,
                        ![sub[c]].ending = answer[c].ending \/ kept[c]]
  /\ Return(c)
  /\ UNCHANGED <<stripeVars, events, processed, handlerVars, sweepVars, faults>>

\* The call or the update throws, or the process dies.
AbortCancel(c) ==
  /\ step[c] # "idle"
  /\ Fault
  /\ Return(c)
  /\ UNCHANGED <<stripeVars, dbVars, handlerVars, sweepVars>>

-----------------------------------------------------------------------------
StripeStep(s) == Subscribe(s) \/ Charge(s) \/ Decline(s) \/ Schedule(s) \/ End(s)

HandlerStep(h) ==
  \/ RecordEvent(h)
  \/ Retrieve(h)
  \/ WriteRow(h)
  \/ MarkProcessed(h)
  \/ Reply(h)

SweepStep(w) ==
  \/ Load(w)
  \/ Reconcile(w)
  \/ \E s \in Subs : Fetch(w, s) \/ Repair(w, s)

CancelStep(c) == CallStripe(c) \/ WriteCancel(c)

Next ==
  \/ \E s \in Subs : StripeStep(s)
  \/ \E h \in Handlers, e \in Sent : Receive(h, e)
  \/ \E h \in Handlers : HandlerStep(h) \/ Abort(h)
  \/ \E w \in Sweeps : SweepStep(w) \/ AbortSweep(w)
  \/ \E c \in Cancels, s \in Subs : ReadRow(c, s)
  \/ \E c \in Cancels : CancelStep(c) \/ AbortCancel(c)

Spec == Init /\ [][Next]_vars

\* A request that is not killed finishes, Stripe retries until it is answered,
\* and the job is scheduled again and again.
Fairness ==
  /\ \A h \in Handlers : WF_vars(HandlerStep(h))
  /\ \A e \in Events :
       SF_vars(e \notin acked /\ \E h \in Handlers : Receive(h, e))
  /\ \A w \in Sweeps : WF_vars(SweepStep(w))
  /\ \A c \in Cancels : WF_vars(CancelStep(c))

FairSpec == Spec /\ Fairness

-----------------------------------------------------------------------------
(* Properties *)

\* A row says "canceled" only when the subscription really has ended, whatever
\* old reading wrote it.  The reconcile job skips such rows, so a wrong one would
\* deny a paying user for ever (the terminal statuses left out by runReconcile).
EndedIsFinal ==
  \A s \in Subs : row[s].status = "canceled" => truth[s].status = "canceled"

\* A processed checkout has left a row; the reconcile job only repairs rows, it
\* never makes one (handleCheckoutCompleted before processed_at).
ProcessedCheckoutHasRow ==
  \A s \in Subs : <<s, 0>> \in processed => row[s].status # "none"

\* A row never shows a period that Stripe has not charged for, whichever of the
\* readings that race for it was written last: access is not extended unpaid
\* (current_period_end is copied, never computed).
NoUnpaidPeriod ==
  \A s \in Subs : row[s].period <= truth[s].period

\* Unless a step fails, a checkout answered 2xx, and so not sent again, has its row,
\* or a handler is still at it.
AnsweredCheckoutHasRow ==
  faults = 0 => \A s \in Subs : <<s, 0>> \in acked =>
    row[s].status # "none" \/ \E h \in Handlers : job[h] = <<s, 0>>

\* Unless a step fails, who completes the checkout gets a row.
SubscriberGetsRow ==
  \A s \in Subs : truth[s].status # "none" ~> row[s].status # "none" \/ faults > 0

\* Drift is repaired: once Stripe is quiet, a row ends up with Stripe's status,
\* and equal to Stripe's state unless it has ended (runReconcile "catches drift
\* left by a MISSED webhook").
Mirrored(s) ==
  row[s].status # "none" =>
    /\ row[s].status = truth[s].status
    /\ row[s].status \in Live => row[s] = truth[s]

DriftRepaired == \A s \in Subs : <>[]Mirrored(s)

\* What the webhook's comments promise of an event that arrives late: when every
\* event was answered and no step failed, the row is current.
OutOfOrderTolerance ==
  (faults = 0 /\ Sent \subseteq acked /\ \A h \in Handlers : pc[h] = "idle")
    => \A s \in Subs : row[s].status # "none" => row[s].status = truth[s].status

-----------------------------------------------------------------------------
(* The inductive invariant *)

\* A running handler has an event of a subscription that exists, and a checkout
\* about to be marked has left its row.
HandlerInv ==
  /\ \A s \in Subs : emitted[s] > 0 => truth[s].status # "none"
  /\ \A h \in Handlers : pc[h] # "idle" =>
       job[h] \in Events /\ emitted[SubOf(job[h])] > 0
  /\ \A h \in Handlers : pc[h] = "write" => seen[h].status # "none"
  /\ \A h \in Handlers :
       pc[h] = "mark" /\ IsCheckout(job[h]) => row[SubOf(job[h])].status # "none"

\* Whoever holds a state of a subscription holds one of a subscription that
\* exists, and a "canceled" that is true.
ReadingInv ==
  /\ \A s \in Subs : row[s].status # "none" => truth[s].status # "none"
  /\ \A h \in Handlers :
       pc[h] = "write" /\ seen[h].status = "canceled"
         => truth[SubOf(job[h])].status = "canceled"
  /\ \A w \in Sweeps, s \in Subs :
       /\ snapshot[w][s].status # "none" => truth[s].status # "none"
       /\ snapshot[w][s].status = "canceled" => truth[s].status = "canceled"
       /\ phase[w] = "write" /\ s \in todo[w] => snapshot[w][s].status # "none"
  /\ \A c \in Cancels :
       step[c] # "idle" => sub[c] # None /\ truth[sub[c]].status # "none"
  /\ \A c \in Cancels : step[c] = "write" =>
       /\ answer[c].status # "none"
       /\ answer[c].status = "canceled" => truth[sub[c]].status = "canceled"

\* An event is handled once it was sent, and answered once it was recorded.
SentInv ==
  /\ events \subseteq Sent
  /\ acked \subseteq events
  /\ \A h \in Handlers : pc[h] # "idle" => job[h] \in Sent
  /\ \A h \in Handlers : pc[h] \notin {"idle", "record"} => job[h] \in events

\* Nobody holds a period that was not charged.
PaidInv ==
  /\ \A s \in Subs : truth[s].status = "none" => truth[s].period = 0
  /\ \A h \in Handlers :
       pc[h] = "write" => seen[h].period <= truth[SubOf(job[h])].period
  /\ \A w \in Sweeps, s \in Subs : snapshot[w][s].period <= truth[s].period

\* Unless a step fails, a recorded checkout has its row, or the handler that
\* recorded it is about to write one.
HeldInv ==
  faults = 0 => \A s \in Subs : <<s, 0>> \in events =>
    \/ row[s].status # "none"
    \/ \E h \in Handlers : pc[h] \in {"fetch", "write"} /\ job[h] = <<s, 0>>

IInv ==
  /\ TypeOK
  /\ HandlerInv
  /\ ReadingInv
  /\ SentInv
  /\ PaidInv
  /\ HeldInv
  /\ EndedIsFinal
  /\ ProcessedCheckoutHasRow
  /\ NoUnpaidPeriod
=============================================================================
