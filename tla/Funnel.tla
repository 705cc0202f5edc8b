------------------------------- MODULE Funnel -------------------------------
(***************************************************************************)
(* The conversion funnel of the sales pages (lib/analytics): beacons are   *)
(* recorded as events, orders are the permanent signal, and the report     *)
(* reads both with four queries that see four states of the database.      *)
(*                                                                         *)
(* An event is a row without its id: only distinct sessions are counted,   *)
(* so two rows that differ by the id alone are one. A channel stands for a *)
(* UTM bag. Time passes in days. Rates are left out.                       *)
(*                                                                         *)
(* The answer of a query holds, of each group it counts, the set that it   *)
(* counts; the report takes the cardinalities.                             *)
(***************************************************************************)
EXTENDS Integers, FiniteSets

CONSTANTS
  Slugs,     \* of all pages that report, sales pages among them
  Products,
  ProductOf, \* of the sales pages that are linked to one
  Clients,   \* an address and a browser
  Layers,    \* page_view, cta_click, checkout_started
  Channels,
  KeyOf,     \* channelKey: two bags may have one key, since values may hold a "|"
  Sales,     \* orders
  NoReport,
  WindowDays,    \* of the reports, today not counted: 7 and 30
  RetentionDays, \* of the events: 90
  MaxDay, MaxHits, MaxInFlight

ASSUME PagesAssumption == DOMAIN ProductOf \subseteq Slugs
ASSUME SalesAssumption == IsFiniteSet(Sales)
\* A report may be under way at midnight, and needs its events until it is done.
ASSUME DaysAssumption ==
  /\ WindowDays \subseteq Nat /\ RetentionDays \in Nat
  /\ \A w \in WindowDays : w < RetentionDays

VARIABLES
  today,
  beacons,  \* answered with 204 and not yet recorded
  events,   \* sales_page_events
  sale,     \* orders
  report,   \* the report under way: the answers its queries have got so far
  recorded  \* history: every event ever recorded

funnelVars == <<today, beacons, events, sale, report, recorded>>

-----------------------------------------------------------------------------
Queries == {"events", "paid", "channelEvents", "channelPaid"}
NoSale == [status |-> "none"]

FunnelInit ==
  /\ today = 0
  /\ beacons = {} /\ events = {} /\ recorded = {}
  /\ sale = [s \in Sales |-> NoSale]
  /\ report = NoReport

-----------------------------------------------------------------------------
(* What is recorded *)

\* POST of the collect route: the session is one client's of one day.
Collect(slug, layer, client, channel) ==
  /\ Cardinality(recorded) < MaxHits /\ Cardinality(beacons) < MaxInFlight
  /\ beacons' = beacons \cup
       {[slug |-> slug, layer |-> layer, session |-> <<client, today>>, channel |-> channel]}
  /\ UNCHANGED <<today, events, sale, report, recorded>>

\* recordSalesPageEvent, after the answer: dated when it is inserted.
Row(b) == [slug |-> b.slug, layer |-> b.layer, session |-> b.session, channel |-> b.channel,
           createdAt |-> today]

RecordSalesPageEvent(b) ==
  /\ beacons' = beacons \ {b}
  /\ events' = events \cup {Row(b)}
  /\ recorded' = recorded \cup {Row(b)}
  /\ UNCHANGED <<today, sale, report>>

\* The insert fails and is swallowed, or the process ends before it.
LoseBeacon(b) ==
  /\ beacons' = beacons \ {b}
  /\ UNCHANGED <<today, events, sale, report, recorded>>

\* createOneTimeCheckoutAction, with the channel it came from.
PlaceSale(s, product, channel) ==
  /\ sale[s].status = "none"
  /\ sale' = [sale EXCEPT ![s] =
       [status |-> "pending", product |-> product, channel |-> channel, createdAt |-> today]]
  /\ UNCHANGED <<today, beacons, events, report, recorded>>

\* Settlement and refund, as in OrderLifecycle.
Sell(s, from, to) ==
  /\ sale[s].status = from
  /\ sale' = [sale EXCEPT ![s].status = to]
  /\ UNCHANGED <<today, beacons, events, report, recorded>>

\* The retention sweep.
DeleteExpiredSalesPageEvents ==
  /\ events' = {r \in events : r.createdAt >= today - RetentionDays}
  /\ UNCHANGED <<today, beacons, sale, report, recorded>>

\* No report takes a whole day.
NextDay ==
  /\ today < MaxDay
  /\ report # NoReport => report.asked = today
  /\ today' = today + 1
  /\ UNCHANGED <<beacons, events, sale, report, recorded>>

-----------------------------------------------------------------------------
(* The four queries over rows and orders since a day *)

Fresh(rows, since) == {r \in rows : r.createdAt >= since}

Of(rows, slug, layer) == {r \in rows : r.slug = slug /\ r.layer = layer}

\* Distinct sessions of a page and a layer.
EventCounts(rows, since) ==
  [slug \in Slugs |-> [layer \in Layers |->
     {r.session : r \in Of(Fresh(rows, since), slug, layer)}]]

\* The same by channel: a session is counted once in each it came from.
ChannelEventCounts(rows, since) ==
  [slug \in Slugs |-> [layer \in Layers |->
     {<<r.session, r.channel>> : r \in Of(Fresh(rows, since), slug, layer)}]]

\* Of these orders, those of the page's product; a product may have more pages.
Sold(slug, since, orders) ==
  {s \in orders : /\ slug \in DOMAIN ProductOf
                  /\ sale[s].product = ProductOf[slug] /\ sale[s].createdAt >= since}

Paid(orders) == {s \in Sales : orders[s].status = "paid"}

PaidCounts(since) == [slug \in Slugs |-> Sold(slug, since, Paid(sale))]

ByChannel(orders) == {<<s, sale[s].channel>> : s \in orders}

ChannelPaidCounts(since) == [slug \in Slugs |-> ByChannel(Sold(slug, since, Paid(sale)))]

Result(query, since) ==
  CASE query = "events" -> EventCounts(events, since)
    [] query = "paid" -> PaidCounts(since)
    [] query = "channelEvents" -> ChannelEventCounts(events, since)
    [] query = "channelPaid" -> ChannelPaidCounts(since)

\* getSalesPageFunnels. `recorded' and `sale' are history: the state it began in.
GetSalesPageFunnels(window) ==
  /\ report = NoReport
  /\ report' = [asked |-> today, since |-> today - window, answers |-> [q \in {} |-> 0],
                recorded |-> recorded, sale |-> sale]
  /\ UNCHANGED <<today, beacons, events, sale, recorded>>

\* The queries run at once, in no transaction.
Answer(query) ==
  /\ report # NoReport
  /\ query \notin DOMAIN report.answers
  /\ report' = [report EXCEPT !.answers =
       [q \in DOMAIN @ \cup {query} |-> IF q = query THEN Result(query, report.since) ELSE @[q]]]
  /\ UNCHANGED <<today, beacons, events, sale, recorded>>

\* The report is shown, or one query failed and it is given up.
CloseReport ==
  /\ report # NoReport
  /\ report' = NoReport
  /\ UNCHANGED <<today, beacons, events, sale, recorded>>

FunnelNext ==
  \/ \E slug \in Slugs, layer \in Layers, client \in Clients, channel \in Channels :
       Collect(slug, layer, client, channel)
  \/ \E b \in beacons : RecordSalesPageEvent(b) \/ LoseBeacon(b)
  \/ \E s \in Sales, product \in Products, channel \in Channels : PlaceSale(s, product, channel)
  \/ \E s \in Sales : Sell(s, "pending", "paid") \/ Sell(s, "paid", "refunded")
  \/ DeleteExpiredSalesPageEvents
  \/ NextDay
  \/ \E window \in WindowDays : GetSalesPageFunnels(window)
  \/ \E query \in Queries : Answer(query)
  \/ CloseReport

FunnelSpec == FunnelInit /\ [][FunnelNext]_funnelVars

-----------------------------------------------------------------------------
(* How the answers are folded *)

\* A mistake: only pages that saw traffic have a row.
WrongSurfacing(answers) ==
  {slug \in Slugs : \E layer \in Layers : answers["events"][slug][layer] # {}}

\* The pages that aggregateFunnelRows gives a row.
Surfacing(answers) ==
  {slug \in Slugs : \/ \E layer \in Layers : answers["events"][slug][layer] # {}
                    \/ answers["paid"][slug] # {}}

\* The groups of one key: the bags of several channels may fall into one row.
Under(key, groups) == {g \in groups : KeyOf[g[2]] = key}

\* aggregateChannelRows of a page.
AggregateChannelRows(slug, answers) ==
  [key \in {KeyOf[channel] : channel \in Channels} |->
     [layers |-> [layer \in Layers |->
                    Cardinality(Under(key, answers["channelEvents"][slug][layer]))],
      paid |-> Cardinality(Under(key, answers["channelPaid"][slug]))]]

AggregateFunnelRows(answers) ==
  [slug \in Surfacing(answers) |->
     [layers |-> [layer \in Layers |-> Cardinality(answers["events"][slug][layer])],
      paid |-> Cardinality(answers["paid"][slug]),
      channels |-> AggregateChannelRows(slug, answers)]]

-----------------------------------------------------------------------------
(* Properties *)

\* The orders that have been paid, as far as the report can tell, all along, and
\* those that were at any time.
Throughout == Paid(report.sale) \cap Paid(sale)
Meanwhile == {s \in Sales : /\ sale[s].status \in {"paid", "refunded"}
                            /\ report.sale[s].status # "refunded"}

Between(low, n, high) == Cardinality(low) <= n /\ n <= Cardinality(high)

\* What a finished report shows is what was there while it was made, whatever is
\* recorded, sold, refunded or swept between its queries: a layer counts the
\* sessions of the window, at least those recorded when the report began and at
\* most those recorded when it ended, though old events are deleted; "paid" counts
\* the orders paid throughout, and no order that was not paid at any time; the same
\* for each channel; and a page without a row has nothing to show ("so revenue is
\* never hidden", lib/analytics/funnel-utils.ts:143).
ReportTrue ==
  report # NoReport /\ DOMAIN report.answers = Queries =>
    LET rows == AggregateFunnelRows(report.answers)
        since == report.since
        Seen(slug, layer) == IF slug \in DOMAIN rows THEN rows[slug].layers[layer] ELSE 0
        Bought(slug) == IF slug \in DOMAIN rows THEN rows[slug].paid ELSE 0
    IN
    \A slug \in Slugs :
      /\ \A layer \in Layers :
           Between(EventCounts(report.recorded, since)[slug][layer], Seen(slug, layer),
                   EventCounts(recorded, since)[slug][layer])
      /\ Between(Sold(slug, since, Throughout), Bought(slug), Sold(slug, since, Meanwhile))
      /\ slug \in DOMAIN rows =>
           \A key \in DOMAIN rows[slug].channels :
             /\ Between(Under(key, ByChannel(Sold(slug, since, Throughout))),
                        rows[slug].channels[key].paid,
                        Under(key, ByChannel(Sold(slug, since, Meanwhile))))
             /\ \A layer \in Layers :
                  Between(Under(key, ChannelEventCounts(report.recorded, since)[slug][layer]),
                          rows[slug].channels[key].layers[layer],
                          Under(key, ChannelEventCounts(recorded, since)[slug][layer]))

(* Why it holds *)

EventRows == [slug: Slugs, layer: Layers, session: Clients \X Nat, channel: Channels, createdAt: Nat]

Orders == [Sales -> [status: {"pending", "paid", "refunded"}, product: Products,
                     channel: Channels, createdAt: Nat] \cup {NoSale}]

\* What is recorded and not yet old is still there, and nothing else is.
EventsKept ==
  /\ recorded \subseteq EventRows /\ IsFiniteSet(recorded)
  /\ events \subseteq recorded
  /\ Fresh(recorded, today - RetentionDays) \subseteq events

\* What a payment and a refund may make of an order.
Later(status) ==
  CASE status = "none" -> {"none", "pending", "paid", "refunded"}
    [] status = "pending" -> {"pending", "paid", "refunded"}
    [] status = "paid" -> {"paid", "refunded"}
    [] status = "refunded" -> {"refunded"}

\* A report began with what has since been added to.
ReportBegan ==
  /\ DOMAIN report = {"asked", "since", "answers", "recorded", "sale"}
  /\ report.asked \in Nat /\ today \in {report.asked, report.asked + 1}
  /\ report.since \in Int /\ report.since > report.asked - RetentionDays
  /\ report.recorded \subseteq recorded
  /\ report.sale \in Orders
  /\ \A s \in Sales : sale[s].status \in Later(report.sale[s].status)

AnswersWithin ==
  LET has == report.answers
      since == report.since
  IN
  /\ DOMAIN has \subseteq Queries
  /\ \A slug \in Slugs, layer \in Layers :
       /\ "events" \in DOMAIN has =>
            /\ EventCounts(report.recorded, since)[slug][layer] \subseteq has["events"][slug][layer]
            /\ has["events"][slug][layer] \subseteq EventCounts(recorded, since)[slug][layer]
       /\ "channelEvents" \in DOMAIN has =>
            /\ ChannelEventCounts(report.recorded, since)[slug][layer]
                 \subseteq has["channelEvents"][slug][layer]
            /\ has["channelEvents"][slug][layer]
                 \subseteq ChannelEventCounts(recorded, since)[slug][layer]
  /\ \A slug \in Slugs :
       /\ "paid" \in DOMAIN has =>
            /\ Sold(slug, since, Throughout) \subseteq has["paid"][slug]
            /\ has["paid"][slug] \subseteq Sold(slug, since, Meanwhile)
       /\ "channelPaid" \in DOMAIN has =>
            /\ ByChannel(Sold(slug, since, Throughout)) \subseteq has["channelPaid"][slug]
            /\ has["channelPaid"][slug] \subseteq ByChannel(Sold(slug, since, Meanwhile))

FunnelIInv ==
  /\ today \in Nat
  /\ beacons \subseteq [slug: Slugs, layer: Layers, session: Clients \X Nat, channel: Channels]
  /\ sale \in Orders
  /\ EventsKept
  /\ report # NoReport => ReportBegan /\ AnswersWithin
=============================================================================
