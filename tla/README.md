# A formal model of the SaaS template: payments, accounts and access

The repository is a Next.js SaaS starter (`src/next-app/`: Server Actions in `actions/`, services in `lib/`, Route
Handlers in `app/api/`, a Postgres schema in `lib/schema/`) with a large body of developer tooling around it
(`src/scripts/`, `src/deploy/`, `src/docs/`). This directory specifies, model-checks and proves properties of the
part of it that decides about money and access: one-time orders, the subscriptions of two payment gateways, signing in with
one factor or two, accounts and the links mailed for them, roles and invitations; and what runs beside it: outgoing webhooks, the
rate limiter and the conversion funnel.

All paths below are relative to `src/next-app/` unless they start with `src/`.

## The system

Nothing in the program holds a lock, and of the handlers modelled here one opens a transaction (accepting an invitation). A request is a sequence
of single SQL statements and HTTP calls; any number of requests run at a time, and any of them may fail or die between two
statements. What keeps the data right is: `UNIQUE` constraints with `ON CONFLICT`, updates guarded by a
condition in their `WHERE`, and the order of the statements. So the models take **one SQL statement or one outgoing
call as one atomic step** and everything else as interleaving.

| component | state | operations | what makes it correct |
|---|---|---|---|
| One-time checkout and settlement (`actions/checkout.ts`, `lib/billing/orders.ts`, `lib/auth-provision.ts`, three gateway routes, `actions/admin-revenue.ts`) | `orders`, `users`, `payment_events`, the tokens and mails | checkout, notification by Stripe / ECPay / NewebPay, delivery to an account, `order.completed`, refund | one payment has one effect; an event marked processed was applied; who pays is served; the order goes to the address that bought it |
| Stripe subscriptions (`app/api/billing/stripe/webhook`, `app/api/billing/reconcile`, `actions/billing.ts`) | `subscriptions` as a mirror of Stripe's | events, the reconcile job, cancellation | the row ends up with Stripe's state; no old reading becomes final |
| ECPay subscriptions (`app/api/billing/ecpay/{return,period,renew}`, `lib/billing/providers/ecpay.ts`) | `subscriptions.status` and `provider_meta` | first payment, period notifications, renewal sweep, cancellation | the row never overstates payments; the runway is flagged in time; a canceled row is not charged |
| Plans (`lib/billing/plans.ts`) | `plans` | resolve or create | one row for one price |
| Login and lockout (`lib/auth.ts`, `lib/auth-utils.ts`, `actions/auth.ts`) | failure counter, `locked_until`, audit log | password and second-factor attempts by two entrances | every failure counts once; a lock is earned and not lifted early; one `auth.login` row per session |
| Two-factor login (`lib/pending-2fa.ts`, `actions/auth.ts`, `actions/user.ts`) | TOTP secret, backup codes, pending cookie | enrol, confirm, disable, regenerate, verify, redeem, admin's reset | no session by password alone; a backup code is good for one login; the secret in force was confirmed |
| Account life cycle (`actions/auth.ts`, `lib/auth-provision.ts`, `actions/admin-revenue.ts`) | `users`, verification and reset tokens | register, provision or complete a shell, verify, reset, resend, delete | a link is good once; an address always becomes usable |
| Admin and team (`actions/admin.ts`, `actions/team.ts`) | roles, invitations | promote, demote, delete, invite, revoke, accept | an admin remains; an ended invitation stays ended |
| Webhook dispatch (`lib/webhooks.ts`, `actions/webhooks.ts`) | endpoints, delivery log | create, switch, delete; dispatch and test with bounded retry | few attempts, none after success, one row with the true outcome |
| Rate limiter (`lib/rate-limit.ts`) | buckets in memory | guard, cooldown, ask-then-count of logins, sweep | bounds over any stretch of a window |
| Conversion funnel (`lib/analytics/`, `app/api/analytics/collect`) | `sales_page_events`, reads `orders` | record a beacon, report, retention sweep | a report shows what was there; revenue is never hidden |
| API keys and usage, sales pages, items and notifications, entitlements | single owner-scoped rows | single statements or reads | see `PROJECT.json` |
| Gateway adapters, pages, developer tooling | none of their own | encodings, HTTP, rendering, shell scripts | not modelled |

The components interact through the database only: the Stripe route serves one-time orders and subscriptions, ECPay's
return route likewise (it looks up the order named in `CustomField3` first); both write `payment_events`, whose
`provider_event_id` is unique and prefixed by path (`order:`, `order-return:`, `return:`, `period:`), so the three models'
event tables do not meet. Settlement creates users that the account life cycle then activates; `hasEntitlement` reads what settlement
linked; the funnel counts its orders; a deleted account takes its tokens and its webhook endpoints along; the limiter refuses requests
before they reach anything. Each of these meetings is an action of the model on either side: `DeleteAccount`, `Register`,
`ProvisionUser`, `DeleteEndpoint`, `Sell`. A refusal by the limiter changes nothing elsewhere and is left out elsewhere.

The hard behaviours, each at its line with the property that watches it, are the `hazards` of `PROJECT.json`.

## The modules

| module | what it is |
|---|---|
| `OrderLifecycle` | abstract specification of a one-time order: pending, then paid or failed, paid then refunded, one notice after the payment |
| `Settlement` | the code of checkout, settlement, delivery and refund; implements `OrderLifecycle` (`ImplementsLifecycle`) |
| `SettlementProofs` | eleven theorems about `Settlement` |
| `StripeSubscriptions`, `StripeSubscriptionsProofs` | webhook, reconcile job and cancellation on Stripe rows; six theorems |
| `EcpaySubscriptions`, `EcpaySubscriptionsProofs` | both notification routes, renewal sweep and cancellation on ECPay rows; six theorems |
| `UserRow` | one row of `users` as signing in sees it, and the steps of requests that work on a copy of it |
| `Login`, `TotpEnrolment` | either factor by either entrance; turning the second factor on and off |
| `Authentication`, `AuthenticationProofs` | the two at work on one row, and what else happens to it; nine theorems |
| `Team` | roles, deletion, invitations |
| `DeliveryContract` | abstract specification of one event's delivery to one endpoint |
| `WebhookDispatch`, `WebhookProofs` | endpoints, dispatch and retry; implements `DeliveryContract` (`ImplementsContract`); two theorems |
| `Credentials`, `CredentialProofs` | the account of one address, from registration or purchase to a usable password; two theorems |
| `RateLimit` | the limiter as its callers use it |
| `Funnel` | beacons, retention, and the report with its four queries |
| `MC...` | instances for TLC; `MCOrders` puts three small worlds of `Settlement` in one run, `MCWorkspace` and `MCVisitors` compose components that share no modelled state |
| `WorkspaceProofs` | theorems about `Team`, `RateLimit`, and the composition of `MCWorkspace`; seven theorems |
| `VisitorProofs` | theorems about `Funnel` and the composition of `MCVisitors`; four theorems |

Definitions whose name begins with `Wrong` are plausible mistakes; the specifications do not use them. For every property of a
passing run, `PROJECT.json` names one that makes it fail.

### Settlement

*Buyers.* `PlaceOrder` is `createOneTimeCheckoutAction` up to the insert of the pending row (the session's user or nobody, and the
address the form says), `OpenCheckout` the gateway session; an order whose session fails stays pending. `Register` and
`DeleteAccount` are what the rest of the program may do to accounts meanwhile (`registerUser`, `deleteUser`); a new row's id is
random in the code and the next unused one here (`NextId`), since no step depends on which it is.

*Gateways.* `Notify` sends a signed notification of an opened order; `Receive` delivers a sent one to an idle handler, in any order, as
often as the gateway likes, to several handlers at a time. Two notifications may carry one id: ECPay's declined and
successful payment of one trade number.

*A handler* walks through `settleOrder` and `deliverEntitlement` one statement at a time: `RecordRouteEvent` (Stripe only: the route
inserts `event.id` before `settleOrder` inserts `order:event.id`), `RecordOrderEvent`, `SettleOrder` (`UPDATE ... WHERE
status = 'pending'`), `MarkProcessed`, `FindAccount`, `CreateAccount`, `MintToken`, `LinkOrder`, `SendMail`, `Announce`,
`CloseRouteEvent`, `Reply`. `Abort` is a thrown statement or a dead process, `Swallow` a failure inside the `try` of
delivery or of the notice, which is logged and passed over. An insert of an account that exists raises and is swallowed.

*Admins.* `CheckRefund` reads the status, `Refund` is the guarded `UPDATE`, and `AuditRefund` the row of the audit log, a later `INSERT` whose
failure is swallowed (`FailRefund`, which is also a request that dies). So an order may be refunded and never audited, and `RefundedOnce` says
when: a step failed, or the admin who won the `UPDATE` has yet to write.

### StripeSubscriptions

Stripe's own state is `truth`; it changes by `Subscribe`, `Charge`, `Decline`, `Schedule`, `End`, and each change emits an event. Three
actors copy it to `row`, each **reading in one step and writing in a later one**: a handler (`RecordEvent`, `Retrieve`, `WriteRow`,
`MarkProcessed`, `Reply`), the reconcile job (`Load` the live rows, `Fetch` one by one, `Reconcile`, `Repair` the rows that
drifted, field by field), and a cancellation (`ReadRow`, `CallStripe`, `WriteCancel`). The eight statuses of the code are represented by
one of each kind that the code treats differently: gives access, is still reconciled, is terminal.

### EcpaySubscriptions

`gate[m]` is the periodic order at ECPay: `ExecTimes` charges and no renewal. `FirstPayment`, `DeclineFirst`, `ChargePeriod` and
`DeclinePeriod` change it and send a notification with ECPay's count. The return route creates the row, the period route updates a row
it finds and is otherwise done, the sweep (`Load`, `Query`, `Persist`, `Finish`) polls ECPay for the rows that were active when it started
and writes count and flag over whatever the row has become, a cancellation ends the order and marks the row without looking at
ECPay's answer. The two thresholds for "short runway" are constants of their own, because the period route uses the default
(nothing ever sets the `renewal_threshold` it looks for) and the sweep the environment's.

### UserRow, Login, TotpEnrolment, Authentication

Every handler of sign-in selects the whole row, decides on that copy, and updates some columns later by id alone. `copy[r]` is what
request `r` read, `pc[r]` its next statement; `ActOnCopy` notes in `raced` whether the row was no longer what the request
took it for. *Login*: `LoginAction` (which compares the password itself when TOTP is on) and `SignInDirectly` (the credentials
callback) reach `Authorize`, `PasswordMiss` or `PasswordPass`; `FirstFactorPass` sets the pending cookie; `VerifyTotpLogin` and `UseBackupCode` check
the second factor against the copy, `RecountMiss` reads the row again before a failure is written, `SpendCode` writes the remaining codes
back; then `RedeemNonce`, `AuditLogin`, `CreateSession`. *TotpEnrolment*: `SetupTotp`/`WriteSecret`, `VerifyTotpSetup`/`WriteEnabled`,
`RegenerateBackupCodes`/`WriteCodes`, `DisableTotp`/`WriteDisabled` are a read and a later write each; `ResetUserTotp` (an admin) and
`ResetPassword` are one `UPDATE`. *Authentication* adds clocks (`LockExpires`, `PendingExpires`) and `Abort`. A secret is a number, a code is right
for one secret, a backup code is named by its set.

### Team

`role[u]` is the row's role, `unregistered` or `deleted`. Each action asks `RequireAdmin` of the database in its first step and writes in a
later one: `SetUserRole`/`WriteRole`, `DeleteUser`/`WriteDeleted`, `InviteMember`/`CheckMember`/`InsertInvitation`,
`RevokeInvitation`/`WriteRevoked` (guarded by `status = 'pending'`), `AcceptInvitation`/`Identify`/`Accept`. The last is the one transaction:
both of its writes are one step, and it looks at neither row again. Nothing says that the actor is still an admin when he writes.

### WebhookDispatch

A delivery is an event and an endpoint. `phase` is where `deliverToEndpoint` is, `post` the attempt under way, `delayed` the POSTs that the sender
has given up and that may still arrive. `GiveUp` is the timeout and the network error, at any moment; `Receive` the receiver's answer, `ReceiveLate` one
that nobody waits for. Endpoints are switched and deleted at any time; the rows of the log cascade, and `RecordDelivery` for a deleted one writes nothing.
`Die` ends a dispatch with all its deliveries, `LoseRow` is a failed insert.

### Credentials

`account` is the row of one address with its id, `link` the state of every token, `visit` the requests in flight with the id
they have read. `RegisterUser` and `ProvisionUser` look for the account and insert in a later step (`InsertUser`, where the unique address decides), or complete a
shell (`ClaimShell`). `ResendVerification`, `RequestPasswordReset` and `ResendActivation` come to `ClearLinks` (not the last), `MintLink` and `SendMail`.
A link opened (`VerifyEmailToken`, `ResetPassword`) is read, acted on by account id (`SetVerified`, `SetPassword`) and deleted
(`DropLink`) in three statements. `DeleteAccount` takes the tokens along.

### RateLimit

A bucket is a count and the ticks left. `RateLimitGuard` and `Cooldown` ask and count at once, `BeginTry` asks and `FailTry` counts when the login has
failed, with any number in between. `lately[k][a]` is the number of hits on `k` in the last `a`
ticks, which is what the bound speaks of and no code keeps. `Swept` is the removal of ended windows from a full Map; `RestartLimiter` loses it.

### Funnel

`Collect` answers a beacon and `RecordSalesPageEvent` inserts it after the answer, perhaps after midnight, or not at all (`LoseBeacon`). A report
(`GetSalesPageFunnels`) fixes the beginning of its window, gets the four answers in any order at four moments (`Answer`), and folds them
(`AggregateFunnelRows`, `AggregateChannelRows`). An answer holds, for each page (and channel), the *set* that the query counts, so that
the property can say of each session and order whether it had to be counted or could not be. `PlaceSale` and `Sell` are the orders, `DeleteExpiredSalesPageEvents` the retention sweep.

## The runs

Every run but `workspace` and `claim`, whose bounded components do come to rest, checks for deadlock too. Properties are explained where they are defined, each with the code it is about.

| run | instance | what it shows |
|---|---|---|
| `orders` | three worlds, each with two handlers and one fault. One order, with a refund: an ECPay decline and success under one number and a Stripe success. Two orders of one new buyer through two gateways, without refunds. One order and one notice of a buyer whose account may be deleted and made again, with two admins | the full inductive invariant; exactly one notice, processed means applied, bought means charged, delivered to the address; the CRM hears of a new buyer once; `OrderLifecycle` is implemented; one refund, and one row in the audit log unless a step failed |
| `settlement_live` | one order reported by two keys, two handlers, an admin, two accounts of the address, one fault | notifications get answered, payments take effect |
| `retry` (violation) | one notification, one handler, one fault | a step that fails after the event was recorded is never made good |
| `race` (violation) | one order of a new address, one notice, one handler, a registration, no fault | the order is announced without an owner |
| `subscriptions_repair` | one subscription, two events, two handlers, a job, a cancellation, one fault | nothing wrong becomes final; drift is repaired; a subscriber gets a row |
| `late_event` (violation) | two events, two handlers, no fault, no job | the newer reading finds no row to update, and the older one then makes the row |
| `ecpay_sweep` | one order of two charges, a decline, two handlers, a sweep, a cancellation, one fault | the row never overstates; the sweep catches up count and flag; canceled means stopped |
| `missed_notification` (violation) | one handler, a sweep, no fault | a row past due whose order is paid is never looked at again |
| `claim` (violation) | the instance of `workspace` | a registration writes its password over that of a buyer who has just activated the account |
| `visitors` | *login*: two requests, one of which may be a change of settings, a browser, lock at 2, three failures, two secrets, two sets of one code; *funnel*: a page, an order, two events, two channels, three days, retention one | the seven properties of signing in (`LockHolds`, `FailuresCounted`, ...); a report is true whatever happens between its queries |
| `enrolment` (violation) | two changes of settings | a secret that nobody has confirmed comes into force |
| `workspace` | *team*: three users, two of them admins at first, an invitation, two requests; *webhooks*: two endpoints, an event, two attempts, an outage; *credentials*: two requests, two verify links, a reset link, two accounts, a failure; *limits*: limit 2, window 3, sweep from 2 | an admin remains; invitations are honoured; the delivery contract is implemented and every delivery ends; links are good once; an address becomes usable; the limits hold |

`visitors`, `workspace` and `claim` hold components that share no modelled state. A behaviour is of one of them (`part`), the others rest, so the run is
the sum of the components' instances and not their product. The worlds of `orders` add up in the same way: `WorldInit` chooses one, and what is not of it
never happens.

**Bounds.** Two handlers are the fewest that race, and every property relates at most two of them. Two orders are the fewest that race for an
account; rows of different subscriptions share nothing but the job that walks over them, so one is enough. One fault
separates any two statements; it also stands for a database that is away for one statement. Two charges with one decline reach every
order of first, later, failed and successful notifications; the thresholds 0 and 1 make the period route and the
sweep disagree on the last charge.
In `visitors`, one failure more than the limit lets a lock expire and the counter begin again, and two requests overwrite each other's
copies in every way one row allows; the funnel's window is the current day and retention one day, so that the sweep is as close behind the window as
the assumption `DaysAssumption` (7 and 30 against 90 days) permits, and a report may span one midnight. In `workspace`, two admins demote each other while a
third user is invited; two attempts have a first, a last, and a late one; two accounts let a request hold the id of a deleted one; a
window of 3 ticks has a beginning, an inside and an end. The theorems carry the safety properties to all values.

**Fairness.** A request that is not killed goes on (weak fairness of each handler, job and cancellation, never of the fault actions). A gateway
that was not answered success sends again until a request gets through (strong fairness of `Receive` for an
unanswered notification, since a handler may be busy each time); that is what the routes' 500 and `0|Error` answers count on. The reconcile job and the
sweep are started again and again: both routes are written for a scheduler (`CRON_SECRET`), which the deployment has to provide.
A delivery that was begun goes on (`Deliver`, weakly fair for each), because every wait has a timeout; the receiver and the network owe nothing. In
`AddressBecomesUsable` the owner does not give up: when the form, the resend button or a link that is not too old is open to him again and again, he uses it at last (strong
fairness). Two resends at a time may delete each other's links for ever; the cooldown keeps them apart in one process, and the property excepts
a behaviour in which, again and again, a request deletes the links while another is about to mail one (`ResendsOverlap`).
Nothing is assumed of buyers, of admins, or of what a gateway charges and when.

## What disagrees with the code's own words

1. `retry`: the event is committed before the order is updated and the two are no transaction. When the update fails, the route answers 500
   "so Stripe retries", and the retry is answered as a duplicate. The order of a charged buyer stays pending.
2. `race`: delivery looks the buyer's address up and inserts the account in a later statement. Somebody registers the address in between (another
   order's delivery would do as well). The insert raises, delivery is given up silently, and the order is announced with no owner, so the
   buyer has no entitlement.
3. `late_event`: "out-of-order tolerance" by fetching again does not hold for two handlers at a time. Fetch and write are two steps, and the newer
   reading is lost when its `UPDATE` finds no row yet: the older one then inserts the row. The reconcile job repairs it (`DriftRepaired`).
4. `missed_notification`: the interface promises that a scheduled job reconciles statuses and so catches missed webhooks. ECPay's sweep loads
   active rows and writes no status; a row left past due by late notifications stays so while the buyer pays.
5. `enrolment`: "the secret only becomes authoritative once verifyTotpSetup confirms" it. `setupTotp` writes without a condition what it
   decided on an earlier reading. With two tabs, the first secret is confirmed between the two statements, and the second is in force.
6. `claim`: "a shell has NO credentials, so completing its registration cannot take over anything." The registration reads that the account is a shell
   and updates it later by id alone. A buyer who activates the account between the two has his password replaced.

The properties that hold except in such cases say so in their formula (`faults > 0`, a declined earlier notification, `raced`, `ResendsOverlap`, an acceptance under
way) rather than leaving the case out of the model.

## The proofs

The eight proof modules show `Spec => []IInv` for each component (`TeamIInv`, `WebhookIInv`, `CredentialIInv`, `LimitIInv`, `FunnelIInv`) for all values of the constants (any number of orders, handlers, sweeps,
notifications, requests, users, links, attempts and faults), and draw the safety properties from it. Assumed are only the named `ASSUME`s of the modules: bounds are
natural numbers, `None` is no order or account, an id that a gateway uses belongs to one order, an account has an address,
an ECPay order has at least two charges, the two kinds of link are distinct, somebody is an admin at first, a lock has a positive limit; the logins in flight are finitely many
(`TriesAssumption`), the keys of a guard, of a cooldown and of logins do not meet (`PrefixAssumption`: each caller has its own prefix), an order is of
one page and channel (`SalesAssumption`), and the retention is no shorter than the window (`DaysAssumption`). TLC evaluates each in a run.
The runs check each inductive invariant too (`IInv` or, where two or four components share a run, `VisitorIInv` and `WorkspaceIInv`).

*Settlement.* `ExactlyOnceEgress` is not inductive: a handler that has won the guarded update and not yet dispatched the notice must be known to be
the only one. `OweInv` says so; `RouteInv` says that a Stripe event is held by one handler; `AppliedInv` what is about to be
marked processed; `ClaimInv` who may call an account new; `TargetInv` that a delivery's account has the order's address;
`AuditInv` that a refunded order is audited, about to be, or the victim of a failed step, and by one admin at most. `Refinement` maps
each step to a step of `OrderLifecycle` or to a stutter, by the same invariant. `PaymentTakesEffect` is liveness, but what
could break it is not: a payment whose event is recorded, so that a retry is skipped, and that nobody works on. `HeldInv` says that,
unless a step fails, whatever was recorded (`RecordedInv`) has its effect or its handler; hence `NoPaymentForgotten`.
`OwnedUnlessRaced` is the other half of the run `race`: as long as nobody takes an address between another delivery's look-up and insert
(`Undisturbed`), every announced order has its owner, so that race is all there is to repair.

*Stripe.* A "canceled" in anybody's hands is true, because nobody brings an ended subscription back (`ReadingInv`, over the
readings of handlers, jobs and cancellations). Hence `EndedIsFinal`, whatever the order of the writes. `HandlerInv` gives
`ProcessedCheckoutHasRow`, `PaidInv` the same for periods: Stripe takes none back, so no reading and no row shows one that was not charged
(`NoUnpaidPeriod`). `HeldInv` is to `SubscriberGetsRow` what it is in *Settlement* to `PaymentTakesEffect`.
`CurrentWhenSerial` is the other half of the run `late_event`: while handlers, jobs and cancellations take turns at each subscription (`Serial`,
what a lock on the row would give), every reading that may yet be written is Stripe's present status or else an event is not yet recorded
(`CurrentInv`), and whoever records that event fetches again. So delivery in any order and any number of times is harmless, and
the overlap alone is not. `Serial`, `Undisturbed` and *ECPay*'s `InOrder` are assumptions about a behaviour, and the code does not guarantee them.

*ECPay.* An order never goes back, a count never falls, a row never disappears (lemmas `OrdersGrow`, `RowsStay`). So an old count
in the hands of a handler or of the sweep is no larger than ECPay's (`NoticeInv`, `SweepInv`), which is `CountNeverAhead`; the first
payment has one handler, and before it there is no row (`FirstInv`), which is `FirstPaymentStands`; a cancellation writes after ECPay ended
the order or refused (`CancelInv`), which is `CanceledIsStopped`. `HeldInv` and `RecordedInv` give `AnsweredPaymentHasRow`: unless a step
fails, only a declined attempt under the same key can cost a payer his row. `PastDueWhenInOrder` is the other half of the run `missed_notification`:
if an order's notifications are handled one at a time and none before an older one was recorded (`InOrder`), the last one is written last
(`StatusInv`, with `NumberInv` and `ClosedInv` for the numbers), and no sweep is needed to make the status right.

*Authentication.* A lock and a counter never exceed the failures there were, in the row *and in every copy* (`CountInv`), whatever overlaps: hence
`LockEarned`. What overlapping requests may spoil is excused by `raced` and by nothing else: as long as every request found the
row as it had read it, the counter is the failures in a row (`StreakInv`), the codes are those handed out last and not used, and the secret was confirmed.
`RequestInv` says what a request knows at each statement, which is `SecondFactorRequired` and `LoginsAudited`.

*Team.* An action on a member is by somebody else (`OtherInv`), so the last admin is lost only to the statement of one who was an admin when his request
began. `InvitingInv` and `AcceptingInv` tie a request to its invitation's row.

*Webhooks.* `PostInv` accounts for every POST: sent ones are under way, arrived or delayed. `OutcomeInv` ties verdict and phase. The refinement maps
each step to one of `DeliveryContract` or a stutter.

*Credentials.* `UsedInv`: as long as no request died, a link that set a password is gone or is about to be deleted by the one who used it.

*Rate limiter.* `WindowBound` is about any stretch as long as a window, and a bucket knows only of its own. `OpenWindow` relates the two: an
open window's count is the hits since it was opened, so what is older than that in the stretch came before it, when another window was
at most at its limit (`EndedWindow` for the time between windows). `RoomLeft` counts the logins in flight: those that asked while there was
room (`Using`) are at most all, so the count stays under the limit and their number (a cardinality, by the library's theorems on finite sets).

*Funnel.* The four answers are of four moments, and the report's promise is about the whole interval. `AnswersWithin` says of each answer that
it lies between what stood throughout the report and what stood at some time in it; the two bounds move as the
world does (`EventsKept`, `Orders`), the lower only down and the upper only up. The sweep cannot delete an event of the window, as retention is
longer (`Later`). `ReportTrue` follows of the folded numbers.

*Composition.* `WorkspaceInductive` and `VisitorInductive` show that the components' invariants hold side by side whichever runs, and `WorkspaceSafe` and
`VisitorSafe` draw every safety property of the two runs from the components' theorems.

Model-checked only: the liveness properties (`NotificationsAnswered`, `PaymentTakesEffect`, `SubscriberGetsRow`, `DriftRepaired`, `PayerGetsRow`,
`CountCaughtUp`, `RunwayFlagged`, `DeliveriesEnd`, `AddressBecomesUsable`): they need fairness and `ENABLED`, which are out of the prover's
reach. The part of `PaymentTakesEffect`, `SubscriberGetsRow` and `PayerGetsRow` that is safety is proved: a payment that will not be sent
again is never without its effect and without a handler. And the six violated statements, which no proof could have; for
`race`, `late_event` and `missed_notification` it is proved that, as long as no step fails, the order of steps shown is the only cause, and `EnrolmentConfirmed` (with `raced`) says so of `enrolment`. Every safety property of a passing run is proved.

## What is not modelled

Signatures, encodings, amounts, currencies and the wording of mails; time (dates such as `current_period_end` are a counter in the Stripe
model and left out of ECPay's, where nothing reads them to decide; the sweep's answer to a date is the flag); the fields of
`provider_meta` other than count and flag; the NewebPay and ECPay checkout forms (no state); the hosted portal. `processed_at` is a variable only where something is promised of it.
Isolation is Postgres' default, read committed, of which single statements need only that each is atomic and that a unique
index decides races.

- *OAuth sign-in and profile edits.* One statement each on the user's own row, and nothing here reads what they write.
- *Plans.* `resolveOrCreatePlanId` reads and inserts with no unique price, so two first checkouts make two rows. The comment speaks of one row per tier
  (`lib/billing/plans.ts:21`); every reader joins by id or takes any row of a price, so the second row changes nothing that a property could tell.
- *API keys and usage, items, notifications, sales pages, entitlements.* Single owner-scoped statements or reads: there is no second step that
  another request could come before. The quota check of the API is shipped commented out.
- *Gateway adapters.* The notifications of the models are verified and decoded ones. What an adapter's *answer* decides is in
  the models (a JSON error read as nothing paid, a cancel answer not looked at).
- *Funnel.* The rates (a clamped quotient), labels, order of rows, and the browser's side of the beacon.
- *Pages, components, registry copies and developer tooling.* Most of the repository's lines: React components, copies under `registry/` of the very
  files modelled here, OpenAPI descriptions, shell scripts. They keep no state that two actors share, so a share of the lines says little about
  the share of the behaviour.

## Plan

Done: settlement, both gateways' subscriptions, authentication, team, webhooks, credentials, limiter, funnel. What would come next:

1. `Credentials` composed with the account part of `Settlement` (its `Register` and `CreateAccount` are the interface), for two addresses.
2. Stripe's checkout and portal sessions, when they come to write state; `current_period_end` as a clock in the ECPay model.
3. The order of a user's `setActive` calls and the subscription lists of endpoints, if dispatch comes to be queued.
4. Pure functions of `lib/billing/period-utils.ts` and `lib/billing/reconcile-utils.ts` against reference definitions.
