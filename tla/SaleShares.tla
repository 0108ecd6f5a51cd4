------------------------------ MODULE SaleShares ------------------------------
(***************************************************************************)
(* utils/saleIntegrity.js and the region part of reportingPipelines.js and *)
(* regionScope.js: how the charges of a sale are spread over its lines, and*)
(* what share of a sale belongs to a region.  The share is computed twice, *)
(* in JavaScript for what a scoped account is shown and in an aggregation  *)
(* pipeline for the reports.                                               *)
(*                                                                         *)
(* Totals, charges and net lines are whole cents.  The subtotal of a line  *)
(* is price * quantity, which is not rounded: it is a number of fractions  *)
(* of a cent, Cent of them to one.  The code divides in binary floating    *)
(* point; here a quotient is its integer part and the remainder of the     *)
(* division, which the code compares as a fraction.  tax, transportCost    *)
(* and otherCharges are treated alike: one amount, added, stands for them. *)
(***************************************************************************)
EXTENDS Integers, Sequences, FiniteSets, Sums

CONSTANT Cent   \* how finely the subtotals divide a cent

SharesAssumption == Cent \in Nat \ {0}

ASSUME SharesAssumption

Regions == {"Bbbb", "Cnnn"}    \* VALID_REGION_CODES

Codes == Regions \cup {"Unknown"}

\* The order in which both computations name the codes.
Place == [c \in Codes |-> CASE c = "Bbbb" -> 1
                            [] c = "Cnnn" -> 2
                            [] c = "Unknown" -> 3]

\* subtotal: price * quantity; kept: is it a field of the document?  A legacy line
\* may lack it, and may have the name of its region only ("none" for a field that
\* is missing); lines of the sales made today have all.
Line == [code : Regions \cup {"none"}, name : Regions \cup {"none"},
         kept : BOOLEAN, subtotal : Nat, net : Nat]

Lines(I, S(_)) == SumOver([i \in I |-> S(i)], I)

\* Math.round of an amount to whole cents: halves go up.
Round(u) == (2 * u + Cent) \div (2 * Cent)

-------------------------------------------------------------------------------
(* The region of a line and the weights of a sale.                         *)

\* calculateRegionTotal: the code, whatever the name says.
CodeInTotal(l) == IF l.code \in Regions THEN l.code ELSE "Unknown"

\* itemRegion, and itemCode: the code, or the name when there is no code.
CodeInReports(l) == IF l.code \in Regions THEN l.code
                    ELSE IF l.name \in Regions THEN l.name ELSE "Unknown"

CodesInTotal(lines) == [i \in DOMAIN lines |-> CodeInTotal(lines[i])]

CodesInReports(lines) == [i \in DOMAIN lines |-> CodeInReports(lines[i])]

\* The amount of a line: calculateRegionTotal rounds price * quantity for want of
\* a subtotal, itemSubtotal does not.
PartsInTotal(lines) ==
  [i \in DOMAIN lines |-> IF lines[i].kept THEN lines[i].subtotal
                          ELSE Cent * Round(lines[i].subtotal)]

PartsInReports(lines) == [i \in DOMAIN lines |-> lines[i].subtotal]

Weights(parts, codes) ==
  [c \in Codes |-> Lines({i \in DOMAIN parts : codes[i] = c}, LAMBDA i : parts[i])]

Whole(w) == w["Bbbb"] + w["Cnnn"] + w["Unknown"]

-------------------------------------------------------------------------------
(* The share of a region: largest remainders, ties in the order of Place.  *)

Base(total, w, c) == (total * w[c]) \div Whole(w)
Rest(total, w, c) == (total * w[c]) % Whole(w)

\* The cents that truncation leaves.
Remaining(total, w) ==
  total - (Base(total, w, "Bbbb") + Base(total, w, "Cnnn")
           + Base(total, w, "Unknown"))

\* The codes that the stable sort by decreasing fraction puts before c.
Preceding(total, w, c) ==
  {d \in Codes : \/ Rest(total, w, d) > Rest(total, w, c)
                 \/ Rest(total, w, d) = Rest(total, w, c) /\ Place[d] < Place[c]}

\* allocated[code], after the loop over the sorted codes.
Allocated(total, w, c) ==
  Base(total, w, c)
  + (IF Cardinality(Preceding(total, w, c)) < Remaining(total, w) THEN 1 ELSE 0)

\* calculateRegionTotal
RegionTotal(total, w, g) ==
  IF Whole(w) <= 0 \/ w[g] <= 0 THEN 0 ELSE Allocated(total, w, g)

\* Mutant: ties are not broken by the order of the codes.
RankUntied(total, w, c) ==
  Cardinality({d \in Codes \ {c} : Rest(total, w, d) > Rest(total, w, c)})

\* rank: a sum of conditions, $gte for the codes before c and $gt after it.
Rank(total, w, c) ==
  Cardinality({d \in Codes \ {c} :
                 IF Place[d] < Place[c]
                 THEN Rest(total, w, d) >= Rest(total, w, c)
                 ELSE Rest(total, w, d) > Rest(total, w, c)})

\* regionRevenueExpression
RegionRevenue(total, w, g) ==
  IF Whole(w) <= 0 \/ w[g] <= 0 THEN 0
  ELSE Base(total, w, g)
       + (IF Rank(total, w, g) < Remaining(total, w) THEN 1 ELSE 0)

-------------------------------------------------------------------------------
(* The charges of a sale.                                                  *)

Subtotal(basket) == Lines(DOMAIN basket, LAMBDA i : basket[i].subtotal)

\* calculateSaleFinancials
Total(basket, discount, added) == Round(Subtotal(basket)) - discount + added

\* allocate: the part of each line in amount.
Spread(amount, basket) ==
  LET whole == Subtotal(basket)
      base(i) == (amount * basket[i].subtotal) \div whole
      rest(i) == (amount * basket[i].subtotal) % whole
      remaining == amount - Lines(DOMAIN basket, base)
      before(i) == {j \in DOMAIN basket :
                      rest(j) > rest(i) \/ (rest(j) = rest(i) /\ j < i)}
  IN [i \in DOMAIN basket |->
        IF whole <= 0 THEN 0
        ELSE base(i) + (IF Cardinality(before(i)) < remaining THEN 1 ELSE 0)]

\* Mutant: the remainders of the charges are dropped.
NetOfTruncated(basket, discount, added) ==
  LET whole == Subtotal(basket) IN
  [i \in DOMAIN basket |->
     Round(basket[i].subtotal - Cent * ((discount * basket[i].subtotal) \div whole)
                              + Cent * ((added * basket[i].subtotal) \div whole))]

\* allocateSaleFinancialsToItems: netTotal of each line.
NetOf(basket, discount, added) ==
  [i \in DOMAIN basket |-> Round(basket[i].subtotal
                                 - Cent * Spread(discount, basket)[i]
                                 + Cent * Spread(added, basket)[i])]

-------------------------------------------------------------------------------
(* What a viewer of region g is shown of a sale with these lines.          *)

AllIn(lines, g) == \A i \in DOMAIN lines : CodeInReports(lines[i]) = g

SomeIn(lines, g) == \E i \in DOMAIN lines : CodeInReports(lines[i]) = g

\* projectSaleForScope
TotalShown(total, lines, g) ==
  IF AllIn(lines, g) THEN total
  ELSE RegionTotal(total, Weights(PartsInTotal(lines), CodesInTotal(lines)), g)

\* scopedRevenueExpression of a sale that regionReceiptFilter lets through.
TotalReported(total, lines, g) ==
  IF g = "all" THEN total
  ELSE RegionRevenue(total, Weights(PartsInReports(lines), CodesInReports(lines)), g)
===============================================================================
