---------------------------- MODULE ShopReports ----------------------------
(***************************************************************************)
(* What the dashboards and the activity log say about a shop               *)
(* (app/modules/dashboard, app/modules/changelog, the stock summary of     *)
(* app/modules/items) and the rows they say it from: the items, their      *)
(* history, the sales, the metal rates and their history.                  *)
(*                                                                         *)
(* A transaction has three times.  PostgreSQL's now(), which stamps sales, *)
(* log entries and first rates, is when it began; the history of an item   *)
(* and a later rate carry the clock at the moment they were written, under *)
(* the row's lock; and readers see all of it only when it commits.         *)
(*                                                                         *)
(* Definitions whose name ends in _Mutant are plausible bugs of the one    *)
(* that follows them; the runs' properties are shown to reject them.       *)
(***************************************************************************)
EXTENDS Integers, FiniteSets, Functions

CONSTANTS
  Clerks,    \* requests at work at the same time
  Items,
  Weighed,   \* the items sold by weight; the others are counted
  Metal,     \* Metal[i]: what item i is made of
  Orders,    \* what a request may be for
  Opening,   \* the items there when the run begins, and how much of each
  Rates,     \* the rates set when it begins
  Analysed,  \* the materials the analytics page shows (ANALYTICS_MATERIALS)
  TopLimit,  \* the best sellers it lists (TOP_SELLING_ITEM_LIMIT)
  Place,     \* Place[i]: where item i comes among names and SKUs; of two items that share
             \* both, where the database happens to put it
  DayLength, \* hours of a day
  Offset,    \* hours Asia/Kolkata is ahead of UTC
  Session,   \* so the time zone of the database's sessions
  Zones,     \* and the offsets a request's dates may carry
  MaxClock   \* bound: the hours of the run

Metals == {Metal[i] : i \in Items}
Hours == 0..MaxClock

\* What the routes may be asked for.
Order(o) ==
  \/ /\ o.kind \in {"create", "update"}
     /\ o.item \in Items /\ o.amount \in Nat
  \/ o.kind = "archive" /\ o.item \in Items
  \/ /\ o.kind = "sell"
     /\ o.lines = [i \in DOMAIN o.lines |-> o.lines[i]]
     /\ DOMAIN o.lines \subseteq Items /\ \A i \in DOMAIN o.lines : o.lines[i] \in Nat \ {0}
  \/ o.kind = "rate" /\ o.metal \in Metals /\ o.rate \in Nat \ {0}

ASSUME ConstantsAssumption ==
  /\ IsFiniteSet(Items) /\ Weighed \subseteq Items
  /\ \A o \in Orders : Order(o)
  /\ DOMAIN Opening \subseteq Items /\ \A i \in DOMAIN Opening : Opening[i] \in Nat
  /\ DOMAIN Rates \subseteq Metals /\ \A m \in DOMAIN Rates : Rates[m] \in Nat \ {0}
  /\ TopLimit \in Nat \ {0}
  /\ Place \in [Items -> Nat] /\ \A i, j \in Items : Place[i] = Place[j] => i = j
  /\ DayLength \in Nat \ {0} /\ Offset \in 0..DayLength /\ MaxClock \in Nat
  /\ Session \in Int /\ Zones \subseteq Int

VARIABLES
  clock,
  row,         \* items: status, quantity and stock_weight of each
  history,     \* item_history
  rate,        \* metal_rates, 0 where none is set
  rateHistory, \* metal_rate_history
  sales,       \* sales with their lines
  log,         \* change_log, the events of sales
  txn          \* each clerk's transaction: how far, for what, since when, what it wrote

tables == <<row, history, rate, rateHistory, sales, log>>
vars == <<clock, tables, txn>>

Idle == [phase |-> "idle"]
Missing == [status |-> "none", quantity |-> 0, weight |-> 0]

Total(f) == SumFunction(f)

Left(i, r) == IF i \in Weighed THEN r.weight ELSE r.quantity

\* A row with n units, or n grams, of an item.
Holding(i, n, status) ==
  [status |-> status,
   quantity |-> IF i \in Weighed /\ n > 0 THEN 1 ELSE n,
   weight |-> IF i \in Weighed THEN n ELSE 0]

Init ==
  /\ clock = 0
  /\ row = [i \in Items |-> IF i \in DOMAIN Opening THEN Holding(i, Opening[i], "in_stock")
                            ELSE Missing]
  /\ rate = [m \in Metals |-> IF m \in DOMAIN Rates THEN Rates[m] ELSE 0]
  /\ history = {[item |-> i, at |-> 0, sale |-> 0, quantity |-> row[i].quantity,
                 weight |-> row[i].weight] : i \in DOMAIN Opening}
  /\ rateHistory = {[metal |-> m, at |-> 0, rate |-> Rates[m]] : m \in DOMAIN Rates}
  /\ sales = {} /\ log = {}
  /\ txn = [c \in Clerks |-> Idle]

-----------------------------------------------------------------------------
(* The transactions.                                                        *)

Open == {c \in Clerks : txn[c].phase # "idle"}
Writing == {c \in Clerks : txn[c].phase = "wrote"}

\* The items an order locks, and the transactions that hold one of them.
Touched(o) == IF o.kind = "sell" THEN DOMAIN o.lines
              ELSE IF o.kind = "rate" THEN {} ELSE {o.item}
Holders(o) ==
  {c \in Writing :
     LET p == txn[c].order
     IN \/ Touched(o) \cap Touched(p) # {}
        \/ o.kind = "sell" /\ p.kind = "sell"
        \/ o.kind = "rate" /\ p.kind = "rate" /\ o.metal = p.metal}

\* What a request is for matters only once it has its locks.
Begin(c) ==
  /\ txn[c] = Idle
  /\ txn' = [txn EXCEPT ![c] = [phase |-> "begun", at |-> clock]]
  /\ UNCHANGED <<clock, tables>>

\* The row an order makes of an item's: create_item, update_item, a sale, _archive_item.
After(o, i) ==
  LET left == Left(i, row[i])
  IN CASE o.kind = "create" -> Holding(i, o.amount, "in_stock")
       [] o.kind = "update" ->
            Holding(i, o.amount, IF i \in Weighed /\ o.amount = 0 THEN "sold" ELSE "in_stock")
       [] o.kind = "archive" -> [row[i] EXCEPT !.quantity = 0, !.status = "archived"]
       [] o.kind = "sell" ->
            LET rest == left - o.lines[i]
            IN Holding(i, rest, IF rest = 0 THEN "sold" ELSE "in_stock")

Allowed(o) ==
  CASE o.kind = "create" -> row[o.item] = Missing
    [] o.kind \in {"update", "archive"} -> row[o.item].status = "in_stock"
    [] o.kind = "sell" ->
         \A i \in DOMAIN o.lines : /\ row[i].status = "in_stock"
                                   /\ Left(i, row[i]) >= o.lines[i]
                                   /\ rate[Metal[i]] > 0
    [] OTHER -> TRUE

\* The clock moves between two changes of one row.
Later(o) ==
  /\ \A h \in history : h.item \in Touched(o) => h.at < clock
  /\ o.kind = "rate" => \A h \in rateHistory : h.metal = o.metal => h.at < clock

\* record_item_history stamps the snapshot with the clock.
Stamp_Mutant(c) == txn[c].at
Stamp(c) == clock

\* A request reads its rows under their locks and writes what becomes of them.
Write(c, o) ==
  /\ txn[c].phase = "begun"
  /\ Holders(o) = {} /\ Allowed(o) /\ Later(o)
  /\ txn' = [txn EXCEPT ![c] =
       [phase |-> "wrote", order |-> o, at |-> txn[c].at, when |-> Stamp(c),
        rows |-> [i \in Touched(o) |-> After(o, i)],
        prices |-> [i \in (IF o.kind = "sell" THEN Touched(o) ELSE {}) |-> rate[Metal[i]]]]]
  /\ UNCHANGED <<clock, tables>>

\* price_breakdown of a sale's line: for a counted item, what one of them costs.
Breakdown(i, n, t) == IF i \in Weighed THEN n * t.prices[i] ELSE t.prices[i]

\* What a sale comes to.
Value(s) == Total([i \in DOMAIN s.lines |-> s.lines[i].price])

\* A snapshot of each row written, the sale with its lines, and its entries in the log.
NewSnapshots(t, sale) ==
  {[item |-> i, at |-> t.when, sale |-> sale,
    quantity |-> t.rows[i].quantity, weight |-> t.rows[i].weight] : i \in DOMAIN t.rows}
NewSale(t, sale) ==
  [id |-> sale, at |-> t.at,
   lines |-> [i \in DOMAIN t.rows |-> [amount |-> t.order.lines[i],
                                        price |-> t.order.lines[i] * t.prices[i]]]]
NewEntries(t, s) ==
  {[event |-> "sale_completed", at |-> t.at, sale |-> s.id, total |-> Value(s)]} \cup
  {[event |-> "item_sold", at |-> t.at, sale |-> s.id, item |-> i, amount |-> s.lines[i].amount,
    pricing |-> Breakdown(i, s.lines[i].amount, t)] : i \in DOMAIN s.lines}

Publish(t) ==
  LET sale == IF t.order.kind = "sell" THEN Cardinality(sales) + 1 ELSE 0
      s == NewSale(t, sale)
  IN /\ row' = [i \in Items |-> IF i \in DOMAIN t.rows THEN t.rows[i] ELSE row[i]]
     /\ history' = history \cup NewSnapshots(t, sale)
     /\ sales' = IF sale # 0 THEN sales \cup {s} ELSE sales
     /\ log' = IF sale # 0 THEN log \cup NewEntries(t, s) ELSE log

\* add_metal_rate: the first rate takes effect as of now(), a later one as of the clock;
\* the trigger appends either to the history.
PublishRate(t) ==
  LET o == t.order
      from == IF rate[o.metal] = 0 THEN t.at ELSE t.when
  IN /\ rate' = [rate EXCEPT ![o.metal] = o.rate]
     /\ rateHistory' = rateHistory \cup {[metal |-> o.metal, at |-> from, rate |-> o.rate]}

Commit(c) ==
  LET t == txn[c]
  IN /\ t.phase = "wrote"
     /\ \/ t.order.kind = "rate" /\ PublishRate(t) /\ UNCHANGED <<row, history, sales, log>>
        \/ t.order.kind # "rate" /\ Publish(t) /\ UNCHANGED <<rate, rateHistory>>
     /\ txn' = [txn EXCEPT ![c] = Idle]
     /\ UNCHANGED clock

\* A request is refused - nothing to sell or change, no rate, another request just set the
\* first rate of its metal (uq_metal_rates_shop_metal_purity) - or fails.
Abort(c) ==
  /\ txn[c] # Idle
  /\ txn' = [txn EXCEPT ![c] = Idle]
  /\ UNCHANGED <<clock, tables>>

Tick == clock < MaxClock /\ clock' = clock + 1 /\ UNCHANGED <<tables, txn>>

Next ==
  \/ \E c \in Clerks :
       \/ Begin(c)
       \/ \E o \in Orders : Write(c, o)
       \/ Commit(c)
       \/ Abort(c)
  \/ Tick

Spec == Init /\ [][Next]_vars

-----------------------------------------------------------------------------
(* The reports.                                                             *)

\* The latest snapshot of an item, and rate of a metal, as of t.
Latest(past) == CHOOSE h \in past : \A g \in past : g.at <= h.at
Snapshots(i, t) == {h \in history : h.item = i /\ h.at <= t}
RatesSet(m, t) == {h \in rateHistory : h.metal = m /\ h.at <= t}

AsOf(i, t) == IF Snapshots(i, t) = {} THEN Missing ELSE Latest(Snapshots(i, t))
RateAt(m, t) == IF RatesSet(m, t) = {} THEN 0 ELSE Latest(RatesSet(m, t)).rate

\* _inventory_metrics over some rows: the pieces there are and what their metal is worth.
Pieces(rows) == Total([i \in DOMAIN rows |-> rows[i].quantity])
Worth(rows, rates) == Total([i \in DOMAIN rows |-> Left(i, rows[i]) * rates[Metal[i]]])

\* The rows it takes: for the analytics page the snapshots as of t, for the summary the
\* items that are not archived.
RowsAt(t) == [i \in Items |-> AsOf(i, t)]
RatesAt(t) == [m \in Metals |-> RateAt(m, t)]
CurrentRows == [i \in {j \in Items : row[j].status # "archived"} |-> row[i]]

\* What get_items_summary counts as in stock.
InStock == Total([i \in {j \in Items : row[j].status = "in_stock"} |-> row[i].quantity])

\* The sales a report as of t counts, and what of an item they sold.
SalesBy_Mutant(t) == {s \in sales : s.at < t}
SalesBy(t) == {s \in sales : s.at <= t}

Amount(i, s) == IF i \in DOMAIN s.lines THEN s.lines[i].amount ELSE 0
SoldBy(i, t) == Total([s \in SalesBy(t) |-> Amount(i, s)])

\* The sold count as of t: units of counted items, and the weighed items that were sold
\* from by then and are marked sold now.
SoldCount(t) ==
  LET out == {i \in Weighed : row[i].status = "sold" /\ \E s \in SalesBy(t) : i \in DOMAIN s.lines}
  IN Total([i \in Items \ Weighed |-> SoldBy(i, t)]) + Cardinality(out)

\* Management periods hold both their ends, a cashier's day only its start.
Period(start, end) == {s \in sales : s.at \in start..end}
Before(start, length) == {s \in sales : s.at < start /\ s.at >= start - length}
Takings(S) == Total([s \in S |-> Value(s)])

\* The overview: the days from the start's to the end's as the request's dates have them,
\* each with the sales of that day in the session's time zone; and the sales of no such day.
Day(t, zone) == (t + zone) \div DayLength
DaysShown_Mutant(start, end, zone) == Day(start, zone)..(Day(end, zone) - 1)
DaysShown(start, end, zone) == Day(start, zone)..Day(end, zone)
DaySales(start, end, day) == Takings({s \in Period(start, end) : Day(s.at, Session) = day})
OffDays(start, end, zone) ==
  {s \in Period(start, end) : Day(s.at, Session) \notin DaysShown(start, end, zone)}

\* By material: of those sold the page keeps the ones it analyses.
MaterialLines(s, m) == {i \in DOMAIN s.lines : Metal[i] = m}
MaterialSales(S, m) ==
  Total([s \in S |-> Total([i \in MaterialLines(s, m) |-> s.lines[i].price])])
MaterialsShown == Metals \cap Analysed

\* By item: the best sellers are the first TopLimit of those sold, the most taken first,
\* then by name and SKU.
SoldItems(S) == UNION {DOMAIN s.lines : s \in S}
ItemSales(S, i) == Total([s \in {q \in S : i \in DOMAIN q.lines} |-> s.lines[i].price])
Ahead(S, i) ==
  {j \in SoldItems(S) :
     \/ ItemSales(S, j) > ItemSales(S, i)
     \/ ItemSales(S, j) = ItemSales(S, i) /\ Place[j] < Place[i]}
BestSellers(S) == {i \in SoldItems(S) : Cardinality(Ahead(S, i)) < TopLimit}

\* A cashier's page is about today in India.
IndiaDay(t) == (t + Offset) \div DayLength
IndiaHour(t) == (t + Offset) % DayLength
Today(now) == {s \in sales : IndiaDay(s.at) = IndiaDay(now)}
HourSales(now, hour) == Takings({s \in Today(now) : IndiaHour(s.at) = hour})

\* Units: the pieces of a counted line, one for a weighed line.
Units(i, amount) == IF i \in Weighed THEN 1 ELSE amount
UnitsOf(s) == Total([i \in DOMAIN s.lines |-> Units(i, s.lines[i].amount)])
UnitsSold(S) == Total([s \in S |-> UnitsOf(s)])

\* The activity log's pages: what was sold today, and a sale's lines in the audit trail.
SoldHistory(now) == {e \in log : e.event = "item_sold" /\ IndiaDay(e.at) = IndiaDay(now)}
AuditTrail == {e \in log : e.event # "item_sold"}
SaleItems(e) == {f \in log : f.event = "item_sold" /\ f.sale = e.sale}

\* _price_from_payload: the amount a page shows for a line.
PriceFromPayload(e) == e.pricing

-----------------------------------------------------------------------------
(* Properties.                                                              *)

TypeOK ==
  /\ clock \in Hours
  /\ row \in [Items -> [status : {"none", "in_stock", "sold", "archived"},
                        quantity : Nat, weight : Nat]]
  /\ rate \in [Metals -> Nat]
  /\ \A h \in history : h.item \in Items /\ h.at \in Hours
  /\ \A h \in rateHistory : h.metal \in Metals /\ h.at \in Hours
  /\ \A s \in sales : s.at \in Hours /\ DOMAIN s.lines \subseteq Items
  /\ \A c \in Clerks : txn[c].phase \in {"idle", "begun", "wrote"}

\* The analytics page as of now and the dashboard's summary agree on the pieces in stock,
\* the rates and the worth of the stock, although one reads snapshots and the other rows,
\* however transactions overlapped - but the snapshots of archived weighed items still
\* count their weight (dashboard/service.py:97-126, 217-225; items/service.py:359-362).
HistoryIsCurrent ==
  LET archived == {i \in Weighed : row[i].status = "archived"}
  IN /\ TypeOK
     /\ RatesAt(clock) = rate
     /\ Pieces(RowsAt(clock)) = Pieces(CurrentRows)
     /\ Pieces(CurrentRows) = InStock
     /\ Worth(RowsAt(clock), RatesAt(clock)) =
          Worth(CurrentRows, rate)
          + Total([i \in archived |-> row[i].weight * rate[Metal[i]]])

\* What a snapshot says was taken since the one before it.
Taken(h) == Left(h.item, AsOf(h.item, h.at - 1)) - Left(h.item, h)

\* A report as of any moment counts a sold unit in stock, as sold, or - only while its
\* checkout was running - as both, and never as neither: a sale is stamped when its
\* transaction begins, the stock it takes when it is taken.
CountedOnce ==
  \A i \in Items, t \in 0..clock :
    LET sold == {h \in history : h.item = i /\ h.sale # 0 /\ h.at <= t}
        running == {s \in sales : /\ s.at <= t
                                  /\ \E h \in history : h.item = i /\ h.sale = s.id /\ h.at > t}
    IN SoldBy(i, t) = Total([h \in sold |-> Taken(h)]) + Total([s \in running |-> Amount(i, s)])

\* The days of the overview and the sales of no day it shows come to the period's takings,
\* and such a sale is of another day in the request's time zone than in the session's.
DaysAddUp(start, end) ==
  \A zone \in Zones :
    LET off == OffDays(start, end, zone)
    IN /\ Total([d \in DaysShown(start, end, zone) |-> DaySales(start, end, d)]) + Takings(off)
            = Takings(Period(start, end))
       /\ \A s \in off : Day(s.at, zone) # Day(s.at, Session)

\* The materials shown and the items of others come to the takings.
MaterialsAddUp(S) ==
  LET others == {i \in Items : Metal[i] \notin Analysed}
  IN Total([m \in MaterialsShown |-> MaterialSales(S, m)])
       + Total([i \in others |-> ItemSales(S, i)]) = Takings(S)

\* So do the best sellers and the other items sold; none of those sold for more, and there
\* are none while no more than TopLimit items are sold.
BestSellersLead(S) ==
  LET rest == SoldItems(S) \ BestSellers(S)
  IN /\ Total([i \in BestSellers(S) |-> ItemSales(S, i)])
          + Total([i \in rest |-> ItemSales(S, i)]) = Takings(S)
     /\ \A i \in BestSellers(S), j \in rest : ItemSales(S, j) <= ItemSales(S, i)
     /\ Cardinality(SoldItems(S)) <= TopLimit => rest = {}

\* The figures of a page add up.  The days, materials and best sellers of a period, each
\* with what the page leaves out of it - sales of a day that is another one in the
\* database's time zone, materials it does not analyse, all but TopLimit items - come to
\* its takings, and so all that it shows does where nothing is left out; a period and the
\* one it is compared with come to both, a cashier's hours to the day; and the log tells
\* the same day the sales do, line by line (dashboard/service.py:20-21, 355-400, 445-450,
\* 575-640, 811-820).
TotalsAddUp ==
  /\ \A start \in Hours : \A end \in start..MaxClock :
       LET S == Period(start, end)
           length == end - start
       IN /\ DaysAddUp(start, end)
          /\ MaterialsAddUp(S)
          /\ BestSellersLead(S)
          /\ Takings(Before(start, length)) + Takings(S) = Takings(Period(start - length, end))
  /\ \A now \in Hours :
       LET S == Today(now)
       IN /\ Total([h \in 0..(DayLength - 1) |-> HourSales(now, h)]) = Takings(S)
          /\ Total([e \in SoldHistory(now) |-> Units(e.item, e.amount)]) = UnitsSold(S)
  /\ \A e \in AuditTrail : e.event = "sale_completed" =>
       \E s \in sales : /\ s.id = e.sale /\ s.at = e.at
                        /\ e.total = Value(s)
                        /\ {<<f.item, f.amount>> : f \in SaleItems(e)} =
                             {<<i, s.lines[i].amount>> : i \in DOMAIN s.lines}

\* History.tsx:243-273 lists the lines' amounts under the sale's total, and History.test.tsx
\* has a line of 12500 in a sale of 12500.
LinesMakeTheTotal ==
  \A e \in AuditTrail : e.event = "sale_completed" =>
    Total([f \in SaleItems(e) |-> PriceFromPayload(f)]) = e.total

\* A report as of a moment that every transaction begun by then has outlived stays as it
\* is: .ai/ARCHITECTURE.md has snapshots take part in valuation "without requiring later
\* inventory state".
Settled(t) == t < clock /\ \A c \in Open : txn[c].at > t
Report(t) == <<Pieces(RowsAt(t)), Worth(RowsAt(t), RatesAt(t)), RatesAt(t), SoldCount(t)>>
PastReportsStand == [][\A t \in Hours : Settled(t) => Report(t)' = Report(t)]_vars
=============================================================================
