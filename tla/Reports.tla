-------------------------------- MODULE Reports --------------------------------
(***************************************************************************)
(* GET /api/reports/cashflow over the sales: one request resolves its plan *)
(* from one reading of the clock and then makes its aggregations, which    *)
(* run side by side while sales are made, edited and voided.  The series   *)
(* comes from one of them and the total it is compared with from another;  *)
(* /analytics counts the same sales over the same period.                  *)
(*                                                                         *)
(* Entries and validated expenses are added up by the same code with their *)
(* amount in place of the revenue; profits, categories, products and       *)
(* customers are left out.                                                 *)
(***************************************************************************)
EXTENDS SaleShares, ReportCalendar

CONSTANTS
  Sale,           \* ids of sales
  Basket,         \* the lines that requests carry: sequences of an item with
                  \* a region and a price * quantity
  Discount,       \* discounts that requests carry
  Added,          \* the same for tax, transport and other charges
  OldLines,       \* lines of sales older than the region codes
  OfflineWindow,  \* how far clientOccurredAt may lie in the past
  FutureTolerance, \* and how far in the future
  MaxTime         \* bound on the clock

Item == [region : Regions, subtotal : Nat \ {0}]

ReportsAssumption ==
  /\ Basket \subseteq Seq(Item)
  /\ <<>> \notin Basket
  /\ Discount \subseteq Nat
  /\ Added \subseteq Nat
  /\ OldLines \subseteq Seq(Line)
  /\ OfflineWindow \in Nat
  /\ FutureTolerance \in Nat
  /\ IsFiniteSet(Sale)
  /\ MaxTime \in Instant

ASSUME ReportsAssumption

VARIABLES
  clock,   \* Date.now()
  sale,    \* sale[s]: the document
  report   \* the request, its plan and what its aggregations returned

vars == <<clock, sale, report>>

-------------------------------------------------------------------------------

NoSale == [status |-> "none"]

\* old: made before lines carried a region code.
Doc == [status : {"completed", "voided"}, at : Instant, lines : Seq(Line),
        total : Nat, old : BOOLEAN]

\* frame, elapsed: plan.frame and plan.current.  todo: the aggregations that have
\* not returned.  rows[b]: the amount of bucket b.  calm: has no sale changed
\* since the report began?
NoReport == [phase |-> "idle"]

OldTotal(lines) == Round(Lines(DOMAIN lines, LAMBDA i : lines[i].subtotal))

Init ==
  /\ clock = 0
  /\ sale \in [Sale -> {NoSale}
                       \cup {[status |-> "completed", at |-> 0, lines |-> lines,
                              total |-> OldTotal(lines), old |-> TRUE] :
                               lines \in OldLines}]
  /\ report = NoReport

-------------------------------------------------------------------------------
(* Sales.                                                                  *)

Disturbed == IF report = NoReport THEN report
             ELSE [report EXCEPT !.calm = FALSE]

\* buildCanonicalSaleItem gives a line the region of its product, and
\* allocateSaleFinancialsToItems its part of the charges.
Priced(basket, discount, added) ==
  [i \in DOMAIN basket |->
     [code |-> basket[i].region, name |-> basket[i].region, kept |-> TRUE,
      subtotal |-> basket[i].subtotal,
      net |-> NetOf(basket, discount, added)[i]]]

\* The schema keeps netTotal from being negative, which the rounding of charges
\* that nearly cancel the subtotal could make it.
Storable(lines) == \A i \in DOMAIN lines : lines[i].net >= 0

\* POST /api/sales, or /sync with the instant of an offline sale.
Sell(s, basket, discount, added, at) ==
  /\ sale[s] = NoSale
  /\ Total(basket, discount, added) >= 0
  /\ Storable(Priced(basket, discount, added))
  /\ at \in Instant
  /\ at <= clock + FutureTolerance /\ at >= clock - OfflineWindow
  /\ sale' = [sale EXCEPT ![s] = [status |-> "completed", at |-> at,
                                  lines |-> Priced(basket, discount, added),
                                  total |-> Total(basket, discount, added),
                                  old |-> FALSE]]
  /\ report' = Disturbed
  /\ UNCHANGED clock

\* PUT /api/sales/:id
Edit(s, basket, discount, added) ==
  /\ sale[s].status = "completed"
  /\ Total(basket, discount, added) >= 0
  /\ Storable(Priced(basket, discount, added))
  /\ sale' = [sale EXCEPT ![s].lines = Priced(basket, discount, added),
                          ![s].total = Total(basket, discount, added),
                          ![s].old = FALSE]
  /\ report' = Disturbed
  /\ UNCHANGED clock

\* PATCH /api/sales/:id/void: it no longer matches REPORTABLE_SALE_MATCH.
Void(s) ==
  /\ sale[s].status = "completed"
  /\ sale' = [sale EXCEPT ![s].status = "voided"]
  /\ report' = Disturbed
  /\ UNCHANGED clock

Tick ==
  /\ clock < MaxTime
  /\ clock' = clock + 1
  /\ UNCHANGED <<sale, report>>

-------------------------------------------------------------------------------
(* The report.                                                             *)

\* $match: the sales between two instants that have a line of the region.
Matching(f, g) ==
  {s \in Sale : /\ sale[s].status = "completed"
                /\ sale[s].at >= f.start /\ sale[s].at <= f.end
                /\ g = "all" \/ SomeIn(sale[s].lines, g)}

\* { $sum: revenue }
Revenue(S, g) ==
  Lines(S, LAMBDA s : TotalReported(sale[s].total, sale[s].lines, g))

\* resolveSeriesPlan, at the start of the handler.
Ask(q, g) ==
  LET f == Frame(q, clock) IN
  /\ report = NoReport
  /\ f.start <= f.end
  /\ report' = [phase |-> "reading", frame |-> f,
                elapsed |-> Elapsed(f, clock), region |-> g,
                todo |-> {"rows", "current"}, rows |-> <<>>, current |-> 0,
                calm |-> TRUE]
  /\ UNCHANGED <<clock, sale>>

\* The aggregation by bucket over the whole period; mergeSeries gives the
\* buckets without a row a zero, and leaves out rows without a bucket.
ReadRows ==
  LET f == report.frame
      grain == Granularity(f)
      in(b) == {s \in Matching(f, report.region) : BucketOf(sale[s].at, grain) = b}
  IN
  /\ report # NoReport
  /\ "rows" \in report.todo
  /\ report' = [report EXCEPT
       !.todo = @ \ {"rows"},
       !.rows = [b \in Keys(f, grain) |-> Revenue(in(b), report.region)]]
  /\ UNCHANGED <<clock, sale>>

\* totalsFor(plan.current)
ReadCurrent ==
  /\ report # NoReport
  /\ "current" \in report.todo
  /\ report' = [report EXCEPT
       !.todo = @ \ {"current"},
       !.current = Revenue(Matching(report.elapsed, report.region),
                           report.region)]
  /\ UNCHANGED <<clock, sale>>

SaleStep ==
  \E s \in Sale :
    \/ \E basket \in Basket, discount \in Discount, added \in Added :
         \/ \E at \in Instant : Sell(s, basket, discount, added, at)
         \/ Edit(s, basket, discount, added)
    \/ Void(s)

ReportStep ==
  \/ \E q \in Query, g \in Regions \cup {"all"} : Ask(q, g)
  \/ ReadRows
  \/ ReadCurrent

Next == SaleStep \/ ReportStep \/ Tick

Spec == Init /\ [][Next]_vars

-------------------------------------------------------------------------------
(* Properties.                                                             *)

Made(s) == sale[s] # NoSale

\* The documents and the report have the shapes of their schemas, and neither
\* the period nor what has elapsed of it is empty.
TypeOK ==
  /\ clock \in Instant
  /\ sale \in [Sale -> {NoSale} \cup Doc]
  /\ report # NoReport =>
       /\ report.todo \subseteq {"rows", "current"}
       /\ report.region \in Regions \cup {"all"}
       /\ \A f \in {report.frame, report.elapsed} :
            f.start \in Instant /\ f.end \in f.start..MonthStart[Len(MonthDays) + 1]
       /\ report.current \in Nat
       /\ DOMAIN report.rows \subseteq Instant
       /\ \A b \in DOMAIN report.rows : report.rows[b] \in Nat

\* A line with the name of a region has its code, and one without a subtotal has
\* a price and a quantity that make whole cents.
Coded(s) ==
  \A i \in DOMAIN sale[s].lines :
    /\ sale[s].lines[i].code = "none" => sale[s].lines[i].name = "none"
    /\ sale[s].lines[i].kept \/ sale[s].lines[i].subtotal % Cent = 0

\* The lines whose net is rounded.
Broken(lines) == {i \in DOMAIN lines : lines[i].subtotal % Cent # 0}

Nets(lines) == Lines(DOMAIN lines, LAMBDA i : lines[i].net)

\* No charge is lost or counted twice when a sale is divided: the shares of the two
\* regions that the reports count of a new sale add up to its total, and its net
\* lines do so up to half a cent for each line whose price * quantity is not whole
\* cents: exactly, when all are.
SharesAddUp ==
  \A s \in Sale : Made(s) /\ ~sale[s].old =>
    /\ 2 * (Nets(sale[s].lines) - sale[s].total)
         \in (-Cardinality(Broken(sale[s].lines)))..Cardinality(Broken(sale[s].lines))
    /\ sale[s].total = TotalReported(sale[s].total, sale[s].lines, "Bbbb")
                       + TotalReported(sale[s].total, sale[s].lines, "Cnnn")

\* regionScope.js:97 "the same share every report uses": what an account of one
\* region is shown of a sale is what the reports of that region count for it,
\* unless a legacy line has the name of a region and not its code, or no subtotal
\* and a price * quantity that is not whole cents.
ShownIsReported ==
  \A s \in Sale, g \in Regions :
    Made(s) /\ Coded(s) /\ SomeIn(sale[s].lines, g) =>
      TotalShown(sale[s].total, sale[s].lines, g)
        = TotalReported(sale[s].total, sale[s].lines, g)

\* saleIntegrity.test.js:67 "item-level discount, charge, cost, net, and profit
\* snapshots reconcile": the net lines of a new sale add up to its total.
NetsReconcile ==
  \A s \in Sale : Made(s) /\ ~sale[s].old => Nets(sale[s].lines) = sale[s].total

Answered == report # NoReport /\ report.todo = {}

SeriesTotal == Lines(DOMAIN report.rows, LAMBDA b : report.rows[b])

\* The sales of the period that are dated after what has elapsed of it.
DatedAhead == {s \in Matching(report.frame, report.region) :
                 sale[s].at > report.elapsed.end}

\* reports.js:141 "Uses exactly the same matchers as /analytics so totals always
\* agree": when no sale changed while the report was made, its series adds up to
\* the revenue of its period, whatever the query and its buckets, as long as the
\* list of buckets is complete.  It is the total of the comparison as well, but
\* for the sales that a till dated ahead of the clock (saleCreation.js:108), which
\* lie in the tolerance.
TotalsAgree ==
  Answered /\ report.calm /\ ~Truncated(report.frame, Granularity(report.frame)) =>
    /\ SeriesTotal = Revenue(Matching(report.frame, report.region), report.region)
    /\ SeriesTotal = report.current + Revenue(DatedAhead, report.region)
    /\ \A s \in DatedAhead : sale[s].at <= report.elapsed.end + FutureTolerance

===============================================================================
