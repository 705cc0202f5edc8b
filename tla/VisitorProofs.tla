---------------------------- MODULE VisitorProofs ----------------------------
(***************************************************************************)
(* Proofs about Funnel, for every set of pages, clients, channels and      *)
(* orders and every window that is shorter than the retention: whatever    *)
(* happens between the four queries of a report, each gets what was there  *)
(* all along, and nothing that never was. At the end, both components of   *)
(* MCVisitors together.                                                    *)
(***************************************************************************)
EXTENDS MCVisitors, AuthenticationProofs, FiniteSetTheorems, TLAPS

-----------------------------------------------------------------------------
(* Funnel: what the queries count *)

\* More rows, as far as they are of the window, have no fewer sessions.
LEMMA CountsGrow ==
  ASSUME NEW a, NEW b, NEW since, Fresh(a, since) \subseteq b,
         NEW slug \in Slugs, NEW layer \in Layers
  PROVE  /\ EventCounts(a, since)[slug][layer] \subseteq EventCounts(b, since)[slug][layer]
         /\ ChannelEventCounts(a, since)[slug][layer]
              \subseteq ChannelEventCounts(b, since)[slug][layer]
<1>1. Of(Fresh(a, since), slug, layer) \subseteq Of(Fresh(b, since), slug, layer)
  BY DEF Fresh, Of
<1> QED
  BY <1>1 DEF EventCounts, ChannelEventCounts

\* Finitely many rows have finitely many sessions, and of as many channels.
LEMMA CountsFinite ==
  ASSUME NEW rows, IsFiniteSet(rows), NEW since, NEW slug \in Slugs, NEW layer \in Layers
  PROVE  /\ IsFiniteSet(EventCounts(rows, since)[slug][layer])
         /\ IsFiniteSet(ChannelEventCounts(rows, since)[slug][layer])
<1> DEFINE R == Of(Fresh(rows, since), slug, layer)
           sessions == {r.session : r \in R}
           pairs == {<<r.session, r.channel>> : r \in R}
<1>1. IsFiniteSet(R)
  <2>1. R \subseteq rows
    BY DEF Of, Fresh
  <2> QED
    BY <2>1, FS_Subset
<1> HIDE DEF R
<1>2. IsFiniteSet(sessions)
  <2>1. [r \in R |-> r.session] \in Surjection(R, sessions)
    BY DEF Surjection
  <2> QED
    BY <1>1, <2>1, FS_Surjection
<1>3. IsFiniteSet(pairs)
  <2>1. [r \in R |-> <<r.session, r.channel>>] \in Surjection(R, pairs)
    BY DEF Surjection
  <2> QED
    BY <1>1, <2>1, FS_Surjection
<1> QED
  BY <1>2, <1>3 DEF EventCounts, ChannelEventCounts, R

\* The same of orders.
LEMMA SoldFinite ==
  ASSUME NEW orders \in SUBSET Sales, NEW since, NEW slug
  PROVE  /\ IsFiniteSet(Sold(slug, since, orders))
         /\ IsFiniteSet(ByChannel(Sold(slug, since, orders)))
<1> DEFINE S == Sold(slug, since, orders)
<1>1. IsFiniteSet(S)
  <2>1. S \subseteq Sales
    BY DEF Sold
  <2> QED
    BY <2>1, SalesAssumption, FS_Subset
<1> HIDE DEF S
<1>2. IsFiniteSet(ByChannel(S))
  <2>1. [s \in S |-> <<s, sale[s].channel>>] \in Surjection(S, ByChannel(S))
    BY DEF Surjection, ByChannel
  <2> QED
    BY <1>1, <2>1, FS_Surjection
<1> QED
  BY <1>1, <1>2 DEF S

\* What lies between two finite sets counts between them, and so does its part
\* of any key.
LEMMA BetweenSets ==
  ASSUME NEW low, NEW mid, NEW high, low \subseteq mid, mid \subseteq high, IsFiniteSet(high)
  PROVE  /\ Between(low, Cardinality(mid), high)
         /\ \A key : Between(Under(key, low), Cardinality(Under(key, mid)), Under(key, high))
<1>1. ASSUME NEW a, NEW b, NEW c, a \subseteq b, b \subseteq c, IsFiniteSet(c)
      PROVE  Between(a, Cardinality(b), c)
  <2>1. IsFiniteSet(b)
    BY <1>1, FS_Subset
  <2> QED
    BY <1>1, <2>1, FS_Subset DEF Between
<1>2. ASSUME NEW key
      PROVE  Between(Under(key, low), Cardinality(Under(key, mid)), Under(key, high))
  <2>1. /\ Under(key, low) \subseteq Under(key, mid)
        /\ Under(key, mid) \subseteq Under(key, high)
        /\ Under(key, high) \subseteq high
    BY DEF Under
  <2>2. IsFiniteSet(Under(key, high))
    BY <2>1, FS_Subset
  <2> QED
    BY <1>1, <2>1, <2>2
<1> QED
  BY <1>1, <1>2

-----------------------------------------------------------------------------
(* Orders *)

LEMMA OrderStatus ==
  ASSUME sale \in Orders, NEW s \in Sales
  PROVE  sale[s].status \in {"none", "pending", "paid", "refunded"}
BY DEF Orders, NoSale

\* A step of an order: placed, or paid, or refunded.
SaleMoves(s) ==
  \/ sale'[s] = sale[s]
  \/ sale[s].status = "none" /\ sale'[s].status = "pending"
  \/ /\ sale'[s].product = sale[s].product /\ sale'[s].channel = sale[s].channel
     /\ sale'[s].createdAt = sale[s].createdAt
     /\ \/ sale[s].status = "pending" /\ sale'[s].status = "paid"
        \/ sale[s].status = "paid" /\ sale'[s].status = "refunded"

\* The bounds of what a report may show only widen.
LEMMA BoundsWiden ==
  ASSUME FunnelIInv, report # NoReport, report' = report,
         \A s \in Sales : SaleMoves(s),
         NEW slug, NEW since
  PROVE  /\ Sold(slug, since, Throughout)' \subseteq Sold(slug, since, Throughout)
         /\ Sold(slug, since, Meanwhile) \subseteq Sold(slug, since, Meanwhile)'
         /\ ByChannel(Sold(slug, since, Throughout))' \subseteq ByChannel(Sold(slug, since, Throughout))
         /\ ByChannel(Sold(slug, since, Meanwhile)) \subseteq ByChannel(Sold(slug, since, Meanwhile))'
         /\ \A s \in Sales : sale'[s].status \in Later(report.sale[s].status)
<1>1. /\ report.sale \in Orders /\ sale \in Orders
      /\ \A s \in Sales : sale[s].status \in Later(report.sale[s].status)
  BY DEF FunnelIInv, ReportBegan
<1>2. \A s \in Sales : report.sale[s].status \in {"none", "pending", "paid", "refunded"}
  BY <1>1 DEF Orders, NoSale
<1>3. ASSUME NEW s \in Sales
      PROVE  sale'[s].status \in Later(report.sale[s].status)
  BY <1>1, <1>2 DEF SaleMoves, Later
<1>4. ASSUME NEW s \in Throughout'
      PROVE  /\ s \in Throughout
             /\ sale'[s].product = sale[s].product /\ sale'[s].channel = sale[s].channel
             /\ sale'[s].createdAt = sale[s].createdAt
  <2>1. s \in Sales /\ report.sale[s].status = "paid" /\ sale'[s].status = "paid"
    BY DEF Throughout, Paid
  <2>2. sale[s].status \in {"paid", "refunded"}
    BY <1>1, <2>1 DEF Later
  <2> QED
    BY <2>1, <2>2 DEF SaleMoves, Throughout, Paid
<1>5. ASSUME NEW s \in Meanwhile
      PROVE  /\ s \in Meanwhile'
             /\ sale'[s].product = sale[s].product /\ sale'[s].channel = sale[s].channel
             /\ sale'[s].createdAt = sale[s].createdAt
  BY DEF Meanwhile, SaleMoves
<1> QED
  BY <1>3, <1>4, <1>5 DEF Sold, ByChannel

-----------------------------------------------------------------------------
(* One step *)

\* An answer that a report has stays within its bounds: more may be recorded,
\* and orders move on.
LEMMA AnswersStay ==
  ASSUME FunnelIInv, report # NoReport, report' = report, recorded \subseteq recorded',
         \A s \in Sales : SaleMoves(s)
  PROVE  AnswersWithin'
<1> DEFINE has == report.answers
           since == report.since
<1>1. AnswersWithin
  BY DEF FunnelIInv
<1>2. DOMAIN has \subseteq Queries
  BY <1>1 DEF AnswersWithin
<1>3. \A slug \in Slugs, layer \in Layers :
        /\ EventCounts(recorded, since)[slug][layer]
             \subseteq EventCounts(recorded', since)[slug][layer]
        /\ ChannelEventCounts(recorded, since)[slug][layer]
             \subseteq ChannelEventCounts(recorded', since)[slug][layer]
  <2>1. Fresh(recorded, since) \subseteq recorded'
    BY DEF Fresh
  <2> QED
    BY <2>1, CountsGrow
<1>4. ASSUME NEW slug \in Slugs, NEW layer \in Layers
      PROVE  /\ "events" \in DOMAIN has =>
                  /\ EventCounts(report.recorded, since)[slug][layer]
                       \subseteq has["events"][slug][layer]
                  /\ has["events"][slug][layer]
                       \subseteq EventCounts(recorded', since)[slug][layer]
             /\ "channelEvents" \in DOMAIN has =>
                  /\ ChannelEventCounts(report.recorded, since)[slug][layer]
                       \subseteq has["channelEvents"][slug][layer]
                  /\ has["channelEvents"][slug][layer]
                       \subseteq ChannelEventCounts(recorded', since)[slug][layer]
  BY <1>1, <1>3 DEF AnswersWithin
<1>5. ASSUME NEW slug \in Slugs
      PROVE  /\ "paid" \in DOMAIN has =>
                  /\ Sold(slug, since, Throughout)' \subseteq has["paid"][slug]
                  /\ has["paid"][slug] \subseteq Sold(slug, since, Meanwhile)'
             /\ "channelPaid" \in DOMAIN has =>
                  /\ ByChannel(Sold(slug, since, Throughout))' \subseteq has["channelPaid"][slug]
                  /\ has["channelPaid"][slug] \subseteq ByChannel(Sold(slug, since, Meanwhile))'
  <2>1. /\ Sold(slug, since, Throughout)' \subseteq Sold(slug, since, Throughout)
        /\ Sold(slug, since, Meanwhile) \subseteq Sold(slug, since, Meanwhile)'
        /\ ByChannel(Sold(slug, since, Throughout))'
             \subseteq ByChannel(Sold(slug, since, Throughout))
        /\ ByChannel(Sold(slug, since, Meanwhile))
             \subseteq ByChannel(Sold(slug, since, Meanwhile))'
    BY BoundsWiden
  <2> QED
    BY <1>1, <2>1 DEF AnswersWithin
<1> QED
  BY <1>2, <1>4, <1>5 DEF AnswersWithin, EventCounts, ChannelEventCounts

\* All that is not recorded or moved is as it was.
LEMMA RestStep ==
  ASSUME FunnelIInv, report' = report, recorded \subseteq recorded', today' = today,
         sale' \in Orders, \A s \in Sales : SaleMoves(s), EventsKept',
         beacons' \subseteq [slug: Slugs, layer: Layers, session: Clients \X Nat, channel: Channels]
  PROVE  FunnelIInv'
<1>1. ASSUME report # NoReport PROVE ReportBegan'
  <2>1. ReportBegan
    BY <1>1 DEF FunnelIInv
  <2>2. \A s \in Sales : sale'[s].status \in Later(report.sale[s].status)
    BY <1>1, BoundsWiden
  <2> QED
    BY <2>1, <2>2 DEF ReportBegan
<1>2. report # NoReport => AnswersWithin'
  BY AnswersStay
<1> QED
  BY <1>1, <1>2 DEF FunnelIInv

LEMMA CollectStep ==
  ASSUME FunnelIInv, NEW slug \in Slugs, NEW layer \in Layers, NEW client \in Clients,
         NEW channel \in Channels, Collect(slug, layer, client, channel)
  PROVE  FunnelIInv'
<1>1. UNCHANGED <<today, events, sale, report, recorded>>
  BY DEF Collect
<1>2. beacons' \subseteq [slug: Slugs, layer: Layers, session: Clients \X Nat, channel: Channels]
  BY DEF Collect, FunnelIInv
<1>3. EventsKept' /\ sale' \in Orders
  BY <1>1 DEF FunnelIInv, EventsKept, Fresh
<1> QED
  BY <1>1, <1>2, <1>3, RestStep DEF SaleMoves

LEMMA RecordStep ==
  ASSUME FunnelIInv, NEW b \in beacons, RecordSalesPageEvent(b)
  PROVE  FunnelIInv'
<1>1. /\ UNCHANGED <<today, sale, report>> /\ beacons' \subseteq beacons
      /\ events' = events \cup {Row(b)} /\ recorded' = recorded \cup {Row(b)}
  BY DEF RecordSalesPageEvent
<1>2. Row(b) \in EventRows
  BY DEF FunnelIInv, Row, EventRows
<1>3. EventsKept'
  <2>1. EventsKept
    BY DEF FunnelIInv
  <2>2. IsFiniteSet(recorded')
    BY <1>1, <2>1, FS_AddElement DEF EventsKept
  <2> QED
    BY <1>1, <1>2, <2>1, <2>2 DEF EventsKept, Fresh
<1> QED
  BY <1>1, <1>3, RestStep DEF SaleMoves, FunnelIInv

LEMMA LoseStep ==
  ASSUME FunnelIInv, NEW b \in beacons, LoseBeacon(b)
  PROVE  FunnelIInv'
<1>1. UNCHANGED <<today, events, sale, report, recorded>> /\ beacons' \subseteq beacons
  BY DEF LoseBeacon
<1>2. EventsKept'
  BY <1>1 DEF FunnelIInv, EventsKept, Fresh
<1> QED
  BY <1>1, <1>2, RestStep DEF SaleMoves, FunnelIInv

\* An order is placed, paid or refunded.
LEMMA SaleStep ==
  ASSUME FunnelIInv, NEW s \in Sales,
         \/ \E product \in Products, channel \in Channels : PlaceSale(s, product, channel)
         \/ Sell(s, "pending", "paid")
         \/ Sell(s, "paid", "refunded")
  PROVE  FunnelIInv'
<1>1. UNCHANGED <<today, beacons, events, report, recorded>>
  BY DEF PlaceSale, Sell
<1>2. sale \in Orders /\ today \in Nat
  BY DEF FunnelIInv
<1>3. CASE \E product \in Products, channel \in Channels : PlaceSale(s, product, channel)
  <2>1. PICK product \in Products, channel \in Channels : PlaceSale(s, product, channel)
    BY <1>3
  <2> DEFINE new == [status |-> "pending", product |-> product, channel |-> channel,
                     createdAt |-> today]
  <2>2. sale' = [sale EXCEPT ![s] = new] /\ sale[s].status = "none"
    BY <2>1 DEF PlaceSale
  <2>3. sale' \in Orders
    BY <1>2, <2>2 DEF Orders
  <2>4. \A r \in Sales : SaleMoves(r)
    BY <1>2, <2>2 DEF SaleMoves, Orders
  <2>5. EventsKept'
    BY <1>1 DEF FunnelIInv, EventsKept, Fresh
  <2> QED
    BY <1>1, <2>3, <2>4, <2>5, RestStep DEF FunnelIInv
<1>4. CASE Sell(s, "pending", "paid") \/ Sell(s, "paid", "refunded")
  <2>1. PICK from \in {"pending", "paid"}, to \in {"paid", "refunded"} :
          /\ sale[s].status = from /\ sale' = [sale EXCEPT ![s].status = to]
          /\ from = "pending" <=> to = "paid"
    BY <1>4 DEF Sell
  <2>2. sale[s] \in [status: {"pending", "paid", "refunded"}, product: Products,
                     channel: Channels, createdAt: Nat]
    BY <1>2, <2>1 DEF Orders, NoSale
  <2>3. sale' \in Orders
    BY <1>2, <2>1, <2>2 DEF Orders
  <2>4. \A r \in Sales : SaleMoves(r)
    BY <1>2, <2>1, <2>2 DEF SaleMoves, Orders
  <2>5. EventsKept'
    BY <1>1 DEF FunnelIInv, EventsKept, Fresh
  <2> QED
    BY <1>1, <2>3, <2>4, <2>5, RestStep DEF FunnelIInv
<1> QED
  BY <1>3, <1>4

\* What the sweep deletes is of no report.
LEMMA SweepStep ==
  ASSUME FunnelIInv, DeleteExpiredSalesPageEvents
  PROVE  FunnelIInv'
<1>1. /\ UNCHANGED <<today, beacons, sale, report, recorded>>
      /\ events' = {r \in events : r.createdAt >= today - RetentionDays}
  BY DEF DeleteExpiredSalesPageEvents
<1>2. EventsKept'
  BY <1>1 DEF FunnelIInv, EventsKept, Fresh
<1> QED
  BY <1>1, <1>2, RestStep DEF SaleMoves, FunnelIInv

\* A report that runs past midnight still has a retention longer than its window.
LEMMA NextDayStep ==
  ASSUME FunnelIInv, NextDay
  PROVE  FunnelIInv'
<1>1. /\ UNCHANGED <<beacons, events, sale, report, recorded>>
      /\ today' = today + 1 /\ today \in Nat
      /\ report # NoReport => report.asked = today
  BY DEF NextDay, FunnelIInv
<1>2. EventsKept'
  BY <1>1, DaysAssumption DEF FunnelIInv, EventsKept, Fresh, EventRows
<1>3. report # NoReport => AnswersWithin'
  BY <1>1, AnswersStay DEF SaleMoves
<1>4. report # NoReport => ReportBegan'
  BY <1>1, DaysAssumption DEF FunnelIInv, ReportBegan
<1> QED
  BY <1>1, <1>2, <1>3, <1>4 DEF FunnelIInv

\* A report begins with what there is; nothing has been answered.
LEMMA BeginStep ==
  ASSUME FunnelIInv, NEW window \in WindowDays, GetSalesPageFunnels(window)
  PROVE  FunnelIInv'
<1>1. /\ UNCHANGED <<today, beacons, events, sale, recorded>>
      /\ report' = [asked |-> today, since |-> today - window, answers |-> [q \in {} |-> 0],
                    recorded |-> recorded, sale |-> sale]
  BY DEF GetSalesPageFunnels
<1>2. today \in Nat /\ sale \in Orders
  BY DEF FunnelIInv
<1>3. ReportBegan'
  <2>1. today - window \in Int /\ today - window > today - RetentionDays
    BY <1>2, DaysAssumption
  <2>2. \A s \in Sales : sale[s].status \in Later(sale[s].status)
    BY <1>2, OrderStatus DEF Later
  <2> QED
    BY <1>1, <1>2, <2>1, <2>2 DEF ReportBegan
<1>4. AnswersWithin'
  <2>1. DOMAIN report'.answers = {}
    BY <1>1
  <2> QED
    BY <2>1 DEF AnswersWithin
<1>5. EventsKept'
  BY <1>1 DEF FunnelIInv, EventsKept, Fresh
<1> QED
  BY <1>1, <1>2, <1>3, <1>4, <1>5 DEF FunnelIInv

\* A query sees every event of the window that was recorded when the report
\* began, and every order that is still paid.
LEMMA ResultWithin ==
  ASSUME FunnelIInv, report # NoReport, NEW slug \in Slugs
  PROVE  LET since == report.since IN
         /\ \A layer \in Layers :
              /\ EventCounts(report.recorded, since)[slug][layer]
                   \subseteq EventCounts(events, since)[slug][layer]
              /\ EventCounts(events, since)[slug][layer]
                   \subseteq EventCounts(recorded, since)[slug][layer]
              /\ ChannelEventCounts(report.recorded, since)[slug][layer]
                   \subseteq ChannelEventCounts(events, since)[slug][layer]
              /\ ChannelEventCounts(events, since)[slug][layer]
                   \subseteq ChannelEventCounts(recorded, since)[slug][layer]
         /\ Sold(slug, since, Throughout) \subseteq PaidCounts(since)[slug]
         /\ PaidCounts(since)[slug] \subseteq Sold(slug, since, Meanwhile)
         /\ ByChannel(Sold(slug, since, Throughout)) \subseteq ChannelPaidCounts(since)[slug]
         /\ ChannelPaidCounts(since)[slug] \subseteq ByChannel(Sold(slug, since, Meanwhile))
<1> DEFINE since == report.since
<1>1. EventsKept /\ ReportBegan /\ today \in Nat /\ sale \in Orders
  BY DEF FunnelIInv
<1>2. Fresh(report.recorded, since) \subseteq events
  <2>1. since \in Int /\ since >= today - RetentionDays /\ today - RetentionDays \in Int
    BY <1>1, DaysAssumption DEF ReportBegan
  <2>2. Fresh(report.recorded, since) \subseteq Fresh(recorded, today - RetentionDays)
    BY <1>1, <2>1 DEF Fresh, ReportBegan, EventsKept, EventRows
  <2> QED
    BY <1>1, <2>2 DEF EventsKept
<1>3. Fresh(events, since) \subseteq recorded
  BY <1>1 DEF Fresh, EventsKept
<1>4. Throughout \subseteq Paid(sale) /\ Paid(sale) \subseteq Meanwhile
  <2>1. ASSUME NEW s \in Sales, sale[s].status = "paid" PROVE report.sale[s].status # "refunded"
    BY <1>1, <2>1 DEF ReportBegan, Later
  <2> QED
    BY <2>1 DEF Throughout, Paid, Meanwhile
<1>5. /\ Sold(slug, since, Throughout) \subseteq Sold(slug, since, Paid(sale))
      /\ Sold(slug, since, Paid(sale)) \subseteq Sold(slug, since, Meanwhile)
  BY <1>4 DEF Sold
<1>6. PaidCounts(since)[slug] = Sold(slug, since, Paid(sale))
      /\ ChannelPaidCounts(since)[slug] = ByChannel(Sold(slug, since, Paid(sale)))
  BY DEF PaidCounts, ChannelPaidCounts
<1>7. /\ ByChannel(Sold(slug, since, Throughout)) \subseteq ChannelPaidCounts(since)[slug]
      /\ ChannelPaidCounts(since)[slug] \subseteq ByChannel(Sold(slug, since, Meanwhile))
  BY <1>5, <1>6 DEF ByChannel
<1> QED
  BY <1>2, <1>3, <1>5, <1>6, <1>7, CountsGrow

LEMMA AnswerStep ==
  ASSUME FunnelIInv, NEW query \in Queries, Answer(query)
  PROVE  FunnelIInv'
<1> DEFINE has == report.answers
           result == Result(query, report.since)
           more == [q \in DOMAIN has \cup {query} |-> IF q = query THEN result ELSE has[q]]
<1>1. /\ UNCHANGED <<today, beacons, events, sale, recorded>>
      /\ report # NoReport /\ report' = [report EXCEPT !.answers = more]
  BY DEF Answer
<1>2. ReportBegan /\ AnswersWithin
  BY <1>1 DEF FunnelIInv
<1>3. /\ report'.answers = more /\ DOMAIN report' = DOMAIN report
      /\ report'.asked = report.asked /\ report'.since = report.since
      /\ report'.recorded = report.recorded /\ report'.sale = report.sale
  BY <1>1, <1>2 DEF ReportBegan
<1>4. ReportBegan'
  BY <1>1, <1>2, <1>3 DEF ReportBegan
<1>5. /\ query = "events" => result = EventCounts(events, report.since)
      /\ query = "paid" => result = PaidCounts(report.since)
      /\ query = "channelEvents" => result = ChannelEventCounts(events, report.since)
      /\ query = "channelPaid" => result = ChannelPaidCounts(report.since)
  BY DEF Result
<1>6. /\ DOMAIN more = DOMAIN has \cup {query} /\ more[query] = result
      /\ \A q \in DOMAIN has \ {query} : more[q] = has[q]
  OBVIOUS
<1> HIDE DEF has, result, more
<1>7. AnswersWithin'
  <2>1. \A slug : /\ Sold(slug, report.since, Throughout)' = Sold(slug, report.since, Throughout)
                  /\ Sold(slug, report.since, Meanwhile)' = Sold(slug, report.since, Meanwhile)
                  /\ ByChannel(Sold(slug, report.since, Throughout))'
                       = ByChannel(Sold(slug, report.since, Throughout))
                  /\ ByChannel(Sold(slug, report.since, Meanwhile))'
                       = ByChannel(Sold(slug, report.since, Meanwhile))
    BY <1>1, <1>3 DEF Sold, ByChannel, Throughout, Meanwhile, Paid
  <2>2. DOMAIN more \subseteq Queries
    BY <1>2, <1>6 DEF AnswersWithin, has
  <2>3. ASSUME NEW slug \in Slugs, NEW layer \in Layers
        PROVE  /\ "events" \in DOMAIN more =>
                    /\ EventCounts(report.recorded, report.since)[slug][layer]
                         \subseteq more["events"][slug][layer]
                    /\ more["events"][slug][layer]
                         \subseteq EventCounts(recorded, report.since)[slug][layer]
               /\ "channelEvents" \in DOMAIN more =>
                    /\ ChannelEventCounts(report.recorded, report.since)[slug][layer]
                         \subseteq more["channelEvents"][slug][layer]
                    /\ more["channelEvents"][slug][layer]
                         \subseteq ChannelEventCounts(recorded, report.since)[slug][layer]
    BY <1>1, <1>2, <1>5, <1>6, ResultWithin DEF AnswersWithin, has
  <2>4. ASSUME NEW slug \in Slugs
        PROVE  /\ "paid" \in DOMAIN more =>
                    /\ Sold(slug, report.since, Throughout) \subseteq more["paid"][slug]
                    /\ more["paid"][slug] \subseteq Sold(slug, report.since, Meanwhile)
               /\ "channelPaid" \in DOMAIN more =>
                    /\ ByChannel(Sold(slug, report.since, Throughout))
                         \subseteq more["channelPaid"][slug]
                    /\ more["channelPaid"][slug]
                         \subseteq ByChannel(Sold(slug, report.since, Meanwhile))
    BY <1>1, <1>2, <1>5, <1>6, ResultWithin DEF AnswersWithin, has
  <2> QED
    BY <1>1, <1>3, <2>1, <2>2, <2>3, <2>4 DEF AnswersWithin, EventCounts, ChannelEventCounts
<1>8. EventsKept'
  BY <1>1 DEF FunnelIInv, EventsKept, Fresh
<1> QED
  BY <1>1, <1>4, <1>7, <1>8 DEF FunnelIInv

LEMMA FunnelStep ==
  ASSUME FunnelIInv, [FunnelNext]_funnelVars
  PROVE  FunnelIInv'
<1>1. CASE UNCHANGED funnelVars
  <2>1. EventsKept' /\ sale' \in Orders /\ \A s \in Sales : SaleMoves(s)
    BY <1>1 DEF funnelVars, FunnelIInv, EventsKept, Fresh, SaleMoves
  <2> QED
    BY <1>1, <2>1, RestStep DEF funnelVars, FunnelIInv
<1>2. CASE CloseReport
  BY <1>2 DEF CloseReport, FunnelIInv, EventsKept, Fresh
<1> QED
  BY <1>1, <1>2, CollectStep, RecordStep, LoseStep, SaleStep, SweepStep, NextDayStep, BeginStep,
     AnswerStep
  DEF FunnelNext

LEMMA FunnelInitEstablishes == FunnelInit => FunnelIInv
<1> SUFFICES ASSUME FunnelInit PROVE FunnelIInv
  OBVIOUS
<1>1. EventsKept
  BY FS_EmptySet DEF FunnelInit, EventsKept, Fresh
<1> QED
  BY <1>1 DEF FunnelInit, FunnelIInv, Orders

\* An event is kept as long as a report may need it, and every answer lies
\* between what a report began with and what there has been since.
THEOREM FunnelInductive == FunnelSpec => []FunnelIInv
BY FunnelInitEstablishes, FunnelStep, PTL DEF FunnelSpec

\* A finished report is true, whatever happened between its queries, for any
\* number of pages, channels and clients.
THEOREM ReportsAreTrue == FunnelSpec => []ReportTrue
<1>1. ASSUME FunnelIInv PROVE ReportTrue
  <2> DEFINE has == report.answers
             since == report.since
             rows == AggregateFunnelRows(has)
             Seen(slug, layer) == IF slug \in DOMAIN rows THEN rows[slug].layers[layer] ELSE 0
             Bought(slug) == IF slug \in DOMAIN rows THEN rows[slug].paid ELSE 0
             Rest(slug) ==
               slug \in DOMAIN rows =>
                 \A key \in DOMAIN rows[slug].channels :
                   /\ Between(Under(key, ByChannel(Sold(slug, since, Throughout))),
                              rows[slug].channels[key].paid,
                              Under(key, ByChannel(Sold(slug, since, Meanwhile))))
                   /\ \A layer \in Layers :
                        Between(Under(key, ChannelEventCounts(report.recorded, since)[slug][layer]),
                                rows[slug].channels[key].layers[layer],
                                Under(key, ChannelEventCounts(recorded, since)[slug][layer]))
  <2> SUFFICES ASSUME report # NoReport, DOMAIN has = Queries, NEW slug \in Slugs
               PROVE  /\ \A layer \in Layers :
                           Between(EventCounts(report.recorded, since)[slug][layer],
                                   Seen(slug, layer),
                                   EventCounts(recorded, since)[slug][layer])
                      /\ Between(Sold(slug, since, Throughout), Bought(slug),
                                 Sold(slug, since, Meanwhile))
                      /\ Rest(slug)
    BY DEF ReportTrue
  <2>1. AnswersWithin /\ IsFiniteSet(recorded)
        /\ {"events", "paid", "channelEvents", "channelPaid"} \subseteq DOMAIN has
    BY <1>1 DEF FunnelIInv, EventsKept, Queries
  <2>2. ASSUME NEW layer \in Layers
        PROVE  /\ Between(EventCounts(report.recorded, since)[slug][layer],
                          Cardinality(has["events"][slug][layer]),
                          EventCounts(recorded, since)[slug][layer])
               /\ \A key :
                    Between(Under(key, ChannelEventCounts(report.recorded, since)[slug][layer]),
                            Cardinality(Under(key, has["channelEvents"][slug][layer])),
                            Under(key, ChannelEventCounts(recorded, since)[slug][layer]))
    <3>1. /\ EventCounts(report.recorded, since)[slug][layer] \subseteq has["events"][slug][layer]
          /\ has["events"][slug][layer] \subseteq EventCounts(recorded, since)[slug][layer]
          /\ ChannelEventCounts(report.recorded, since)[slug][layer]
               \subseteq has["channelEvents"][slug][layer]
          /\ has["channelEvents"][slug][layer]
               \subseteq ChannelEventCounts(recorded, since)[slug][layer]
      BY <2>1 DEF AnswersWithin
    <3>2. /\ IsFiniteSet(EventCounts(recorded, since)[slug][layer])
          /\ IsFiniteSet(ChannelEventCounts(recorded, since)[slug][layer])
      BY <2>1, CountsFinite
    <3> QED
      BY <3>1, <3>2, BetweenSets
  <2>3. /\ Between(Sold(slug, since, Throughout), Cardinality(has["paid"][slug]),
                   Sold(slug, since, Meanwhile))
        /\ \A key :
             Between(Under(key, ByChannel(Sold(slug, since, Throughout))),
                     Cardinality(Under(key, has["channelPaid"][slug])),
                     Under(key, ByChannel(Sold(slug, since, Meanwhile))))
    <3>1. /\ Sold(slug, since, Throughout) \subseteq has["paid"][slug]
          /\ has["paid"][slug] \subseteq Sold(slug, since, Meanwhile)
          /\ ByChannel(Sold(slug, since, Throughout)) \subseteq has["channelPaid"][slug]
          /\ has["channelPaid"][slug] \subseteq ByChannel(Sold(slug, since, Meanwhile))
      BY <2>1 DEF AnswersWithin
    <3>2. /\ IsFiniteSet(Sold(slug, since, Meanwhile))
          /\ IsFiniteSet(ByChannel(Sold(slug, since, Meanwhile)))
      BY SoldFinite DEF Meanwhile
    <3> QED
      BY <3>1, <3>2, BetweenSets
  <2>4. CASE slug \in Surfacing(has)
    <3>1. /\ slug \in DOMAIN rows
          /\ rows[slug] = [layers |-> [layer \in Layers |->
                                         Cardinality(has["events"][slug][layer])],
                           paid |-> Cardinality(has["paid"][slug]),
                           channels |-> AggregateChannelRows(slug, has)]
      BY <2>4 DEF AggregateFunnelRows
    <3>2. /\ \A layer \in Layers : Seen(slug, layer) = Cardinality(has["events"][slug][layer])
          /\ Bought(slug) = Cardinality(has["paid"][slug])
      BY <3>1
    <3>3. \A key \in DOMAIN rows[slug].channels :
            /\ rows[slug].channels[key].paid = Cardinality(Under(key, has["channelPaid"][slug]))
            /\ \A layer \in Layers :
                 rows[slug].channels[key].layers[layer]
                   = Cardinality(Under(key, has["channelEvents"][slug][layer]))
      BY <3>1 DEF AggregateChannelRows
    <3> HIDE DEF rows, has
    <3>4. Rest(slug)
      BY <2>2, <2>3, <3>3
    <3> HIDE DEF Seen, Bought, Rest
    <3> QED
      BY <2>2, <2>3, <3>2, <3>4
  <2>5. CASE slug \notin Surfacing(has)
    <3>1. slug \notin DOMAIN rows
      BY <2>5 DEF AggregateFunnelRows
    <3>2. /\ has["paid"][slug] = {}
          /\ \A layer \in Layers : has["events"][slug][layer] = {}
      BY <2>5 DEF Surfacing
    <3>3. Cardinality({}) = 0
      BY FS_EmptySet
    <3>4. Bought(slug) = Cardinality(has["paid"][slug])
          /\ \A layer \in Layers : Seen(slug, layer) = Cardinality(has["events"][slug][layer])
      BY <3>1, <3>2, <3>3
    <3>5. Rest(slug)
      BY <3>1
    <3> HIDE DEF Seen, Bought, Rest
    <3> QED
      BY <2>2, <2>3, <3>4, <3>5
  <2> QED
    BY <2>4, <2>5
<1> QED
  BY FunnelInductive, <1>1, PTL

-----------------------------------------------------------------------------
(* Both *)

\* Each component takes its own steps, or rests.
LEMMA VisitorParts == VisitorSpec => Spec /\ FunnelSpec
<1>1. VisitorInit => Init /\ FunnelInit
  BY DEF VisitorInit
<1>2. [VisitorNext]_<<part, vars, funnelVars>> => [Next]_vars
  BY DEF VisitorNext
<1>3. [VisitorNext]_<<part, vars, funnelVars>> => [FunnelNext]_funnelVars
  BY DEF VisitorNext
<1> QED
  BY <1>1, <1>2, <1>3, PTL DEF VisitorSpec, Spec, FunnelSpec

\* The two inductive invariants hold together.
THEOREM VisitorInductive == VisitorSpec => []VisitorIInv
BY VisitorParts, Inductive, FunnelInductive, PTL DEF VisitorIInv

\* What the run of the instance checks holds of every instance.
THEOREM VisitorSafe ==
  VisitorSpec => /\ [](LockEarned /\ FailuresCounted /\ SecondFactorRequired /\ LoginsAudited)
                 /\ [](BackupCodesCurrent /\ EnrolmentConfirmed /\ ReportTrue)
                 /\ LockHolds
BY VisitorParts, LockIsEarned, FailuresAreCounted, SecondFactorIsRequired, LoginsAreAudited,
   CodesAreCurrent, EnrolmentIsConfirmed, ReportsAreTrue, LockIsHeld, PTL
=============================================================================
