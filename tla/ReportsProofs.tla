---------------------------- MODULE ReportsProofs -----------------------------
(***************************************************************************)
(* Proofs about SaleShares, ReportCalendar and Reports, for any calendar,  *)
(* any number of sales and any baskets, discounts and charges.             *)
(*                                                                         *)
(* Shares.  The remainders of the divisions add up to a multiple of the    *)
(* whole (RemaindersLeft), so one cent each for the first in the ranking   *)
(* uses up exactly what truncation left, and none of it reaches a code     *)
(* without a line.  The same holds of the charges over the lines of a      *)
(* basket, however many they are (SpreadIsTheAmount).                      *)
(*                                                                         *)
(* Calendar.  The cursor of listBucketKeys has its recursion unfolded      *)
(* (CursorSteps): a list that is not cut short has the bucket of every     *)
(* instant of the period (KeysCover).                                      *)
(*                                                                         *)
(* Reports.  IInv says that no sale is dated further ahead than tills may,  *)
(* that totals are what the lines say, and that what was read stands until *)
(* a sale changes.                                                         *)
(***************************************************************************)
EXTENDS Reports, SumsProofs, TLAPS

Weighing == [Codes -> Nat]

-------------------------------------------------------------------------------
(* Arithmetic.                                                             *)

\* A division, and what it leaves.
LEMMA Division ==
  ASSUME NEW n \in Nat, NEW d \in Nat, d > 0
  PROVE  /\ n \div d \in Nat
         /\ n % d \in Nat
         /\ n = d * (n \div d) + (n % d)
         /\ n % d < d
  BY SMT

LEMMA ProductIsNat ==
  ASSUME NEW m \in Nat, NEW n \in Nat
  PROVE  m * n \in Nat
  BY SMT

LEMMA CodesAre ==
  /\ Codes = {"Bbbb", "Cnnn", "Unknown"}
  /\ "Bbbb" \in Codes /\ "Cnnn" \in Codes /\ "Unknown" \in Codes
  /\ Place["Bbbb"] = 1 /\ Place["Cnnn"] = 2 /\ Place["Unknown"] = 3
BY DEF Codes, Regions, Place

LEMMA WholeType ==
  ASSUME NEW w \in Weighing
  PROVE  /\ Whole(w) \in Nat
         /\ \A c \in Codes : w[c] \in Nat
         /\ \A c \in Codes : w[c] > 0 => Whole(w) > 0
BY CodesAre DEF Weighing, Whole

\* What each code gets before the remaining cents, and what its division leaves.
LEMMA PartsOf ==
  ASSUME NEW total \in Nat, NEW w \in Weighing, Whole(w) > 0, NEW c \in Codes
  PROVE  /\ Base(total, w, c) \in Nat
         /\ Rest(total, w, c) \in Nat
         /\ Rest(total, w, c) < Whole(w)
         /\ total * w[c] = Whole(w) * Base(total, w, c) + Rest(total, w, c)
         /\ w[c] = 0 => Base(total, w, c) = 0 /\ Rest(total, w, c) = 0
<1>1. Whole(w) \in Nat /\ w[c] \in Nat
  BY WholeType
<1>2. PICK n \in Nat : n = total * w[c]
  BY <1>1, ProductIsNat
<1>3. Base(total, w, c) = n \div Whole(w) /\ Rest(total, w, c) = n % Whole(w)
  BY <1>2 DEF Base, Rest
<1>4. PICK W \in Nat : W = Whole(w) /\ W > 0
  BY <1>1
<1>5. /\ n \div W \in Nat /\ n % W \in Nat
      /\ n = W * (n \div W) + (n % W) /\ n % W < W
  BY <1>4, Division
<1>6. PICK b \in Nat, r \in Nat : b = n \div W /\ r = n % W
  BY <1>5
<1>7. /\ b = Base(total, w, c) /\ r = Rest(total, w, c)
      /\ n = W * b + r /\ r < W
  BY <1>3, <1>4, <1>5, <1>6
<1>8. ASSUME w[c] = 0 PROVE b = 0 /\ r = 0
  <2>1. n = 0
    BY <1>2, <1>8
  <2>2. W * b \in Nat
    BY ProductIsNat
  <2>3. r = 0 /\ W * b = 0
    BY <1>7, <2>1, <2>2
  <2>4. ~(b > 0)
    BY <1>4, <2>3
  <2> QED
    BY <2>3, <2>4
<1> QED
  BY <1>2, <1>4, <1>7, <1>8

\* The remainders are the remaining cents, in units of the whole: none, one or two.
LEMMA RemaindersLeft ==
  ASSUME NEW total \in Nat, NEW w \in Weighing, Whole(w) > 0
  PROVE  /\ Remaining(total, w) \in 0..2
         /\ Remaining(total, w) * Whole(w)
              = Rest(total, w, "Bbbb") + Rest(total, w, "Cnnn")
                + Rest(total, w, "Unknown")
<1>1. PICK W \in Nat : W = Whole(w) /\ W > 0
  BY WholeType
<1>2. PICK x \in Nat, y \in Nat, z \in Nat :
        /\ x = w["Bbbb"] /\ y = w["Cnnn"] /\ z = w["Unknown"] /\ W = x + y + z
  BY <1>1, WholeType, CodesAre DEF Whole
<1>3. PICK b1 \in Nat, r1 \in Nat :
        /\ b1 = Base(total, w, "Bbbb") /\ r1 = Rest(total, w, "Bbbb")
        /\ r1 < W /\ total * x = W * b1 + r1
  <2>1. /\ Base(total, w, "Bbbb") \in Nat /\ Rest(total, w, "Bbbb") \in Nat
        /\ Rest(total, w, "Bbbb") < Whole(w)
        /\ total * w["Bbbb"]
             = Whole(w) * Base(total, w, "Bbbb") + Rest(total, w, "Bbbb")
    BY PartsOf, CodesAre
  <2> QED
    BY <1>1, <1>2, <2>1
<1>4. PICK b2 \in Nat, r2 \in Nat :
        /\ b2 = Base(total, w, "Cnnn") /\ r2 = Rest(total, w, "Cnnn")
        /\ r2 < W /\ total * y = W * b2 + r2
  <2>1. /\ Base(total, w, "Cnnn") \in Nat /\ Rest(total, w, "Cnnn") \in Nat
        /\ Rest(total, w, "Cnnn") < Whole(w)
        /\ total * w["Cnnn"]
             = Whole(w) * Base(total, w, "Cnnn") + Rest(total, w, "Cnnn")
    BY PartsOf, CodesAre
  <2> QED
    BY <1>1, <1>2, <2>1
<1>5. PICK b3 \in Nat, r3 \in Nat :
        /\ b3 = Base(total, w, "Unknown") /\ r3 = Rest(total, w, "Unknown")
        /\ r3 < W /\ total * z = W * b3 + r3
  <2>1. /\ Base(total, w, "Unknown") \in Nat /\ Rest(total, w, "Unknown") \in Nat
        /\ Rest(total, w, "Unknown") < Whole(w)
        /\ total * w["Unknown"]
             = Whole(w) * Base(total, w, "Unknown") + Rest(total, w, "Unknown")
    BY PartsOf, CodesAre
  <2> QED
    BY <1>1, <1>2, <2>1
<1>6. PICK m \in Int : m = Remaining(total, w) /\ m = total - (b1 + b2 + b3)
  BY <1>3, <1>4, <1>5 DEF Remaining
<1>7. m * W = r1 + r2 + r3
  <2>1. total * W = total * x + total * y + total * z
    <3>1. total * (x + y + z) = total * x + total * y + total * z
      BY SMT
    <3> QED
      BY <1>2, <3>1
  <2>2. m * W = total * W - (W * b1 + W * b2 + W * b3)
    BY <1>6
  <2>3. PICK t1 \in Nat, t2 \in Nat, t3 \in Nat :
          t1 = total * x /\ t2 = total * y /\ t3 = total * z
    BY ProductIsNat
  <2>4. PICK p1 \in Nat, p2 \in Nat, p3 \in Nat :
          p1 = W * b1 /\ p2 = W * b2 /\ p3 = W * b3
    BY ProductIsNat
  <2>5. t1 = p1 + r1 /\ t2 = p2 + r2 /\ t3 = p3 + r3
    BY <1>3, <1>4, <1>5, <2>3, <2>4
  <2>6. m * W = (t1 + t2 + t3) - (p1 + p2 + p3)
    BY <2>1, <2>2, <2>3, <2>4
  <2> QED
    BY <2>5, <2>6
<1>8. m * W >= 0 /\ m * W < 3 * W
  BY <1>3, <1>4, <1>5, <1>7
<1>9. m >= 0
  <2>1. ASSUME m < 0 PROVE m * W < 0
    BY <1>1, <2>1
  <2> QED
    BY <1>8, <2>1
<1>10. m < 3
  <2>1. ASSUME m >= 3 PROVE m * W >= 3 * W
    BY <1>1, <2>1
  <2> QED
    BY <1>8, <2>1
<1>11. m \in 0..2
  BY <1>9, <1>10
<1>12. Remaining(total, w) * Whole(w) = m * W
  BY <1>1, <1>6
<1> QED
  BY <1>3, <1>4, <1>5, <1>6, <1>7, <1>11, <1>12

-------------------------------------------------------------------------------
(* The ranking.                                                            *)

\* How many of two values are in a set that has no others.
LEMMA HowManyOfTwo ==
  ASSUME NEW S, NEW a, NEW b, a # b, S \subseteq {a, b}
  PROVE  Cardinality(S) = (IF a \in S THEN 1 ELSE 0) + (IF b \in S THEN 1 ELSE 0)
<1>1. CASE a \notin S /\ b \notin S
  <2>1. S = {}
    BY <1>1
  <2> QED
    BY <1>1, <2>1, FS_EmptySet
<1>2. CASE a \in S /\ b \notin S
  <2>1. S = {a}
    BY <1>2
  <2>2. Cardinality(S) = 1
    BY <2>1, FS_Singleton
  <2> QED
    BY <1>2, <2>2
<1>3. CASE a \notin S /\ b \in S
  <2>1. S = {b}
    BY <1>3
  <2>2. Cardinality(S) = 1
    BY <2>1, FS_Singleton
  <2> QED
    BY <1>3, <2>2
<1>4. CASE a \in S /\ b \in S
  <2>1. S = {a} \cup {b} /\ b \notin {a}
    BY <1>4
  <2>2. IsFiniteSet({a}) /\ Cardinality({a}) = 1
    BY FS_Singleton
  <2>3. Cardinality(S) = 2
    BY <2>1, <2>2, FS_AddElement
  <2> QED
    BY <1>4, <2>3
<1> QED
  BY <1>1, <1>2, <1>3, <1>4

\* The rank of a code counts the codes that the sort puts before it.
LEMMA RankCountsPreceding ==
  ASSUME NEW total \in Nat, NEW w \in Weighing, Whole(w) > 0, NEW c \in Codes
  PROVE  Cardinality(Preceding(total, w, c)) = Rank(total, w, c)
<1>1. \A d \in Codes : Rest(total, w, d) \in Nat
  BY PartsOf
<1>2. \A d \in Codes : Place[d] \in Nat
  BY CodesAre
<1>3. \A d \in Codes \ {c} : Place[d] # Place[c]
  BY CodesAre
<1>4. Preceding(total, w, c)
        = {d \in Codes \ {c} :
             IF Place[d] < Place[c]
             THEN Rest(total, w, d) >= Rest(total, w, c)
             ELSE Rest(total, w, d) > Rest(total, w, c)}
  BY <1>1, <1>2, <1>3 DEF Preceding
<1> QED
  BY <1>4 DEF Rank

\* The ranks of the three codes, comparison by comparison.
LEMMA RanksAre ==
  ASSUME NEW total \in Nat, NEW w \in Weighing, Whole(w) > 0
  PROVE  /\ Rank(total, w, "Bbbb")
              = (IF Rest(total, w, "Cnnn") > Rest(total, w, "Bbbb") THEN 1 ELSE 0)
                + (IF Rest(total, w, "Unknown") > Rest(total, w, "Bbbb") THEN 1 ELSE 0)
         /\ Rank(total, w, "Cnnn")
              = (IF Rest(total, w, "Bbbb") >= Rest(total, w, "Cnnn") THEN 1 ELSE 0)
                + (IF Rest(total, w, "Unknown") > Rest(total, w, "Cnnn") THEN 1 ELSE 0)
         /\ Rank(total, w, "Unknown")
              = (IF Rest(total, w, "Bbbb") >= Rest(total, w, "Unknown") THEN 1 ELSE 0)
                + (IF Rest(total, w, "Cnnn") >= Rest(total, w, "Unknown") THEN 1 ELSE 0)
<1> DEFINE r1 == Rest(total, w, "Bbbb")
           r2 == Rest(total, w, "Cnnn")
           r3 == Rest(total, w, "Unknown")
<1> DEFINE Before(c) == {d \in Codes \ {c} :
                           IF Place[d] < Place[c]
                           THEN Rest(total, w, d) >= Rest(total, w, c)
                           ELSE Rest(total, w, d) > Rest(total, w, c)}
<1>1. \A c \in Codes : Rank(total, w, c) = Cardinality(Before(c))
  BY DEF Rank
<1>2. /\ Before("Bbbb") \subseteq {"Cnnn", "Unknown"}
      /\ "Cnnn" \in Before("Bbbb") <=> r2 > r1
      /\ "Unknown" \in Before("Bbbb") <=> r3 > r1
  BY CodesAre
<1>3. /\ Before("Cnnn") \subseteq {"Bbbb", "Unknown"}
      /\ "Bbbb" \in Before("Cnnn") <=> r1 >= r2
      /\ "Unknown" \in Before("Cnnn") <=> r3 > r2
  BY CodesAre
<1>4. /\ Before("Unknown") \subseteq {"Bbbb", "Cnnn"}
      /\ "Bbbb" \in Before("Unknown") <=> r1 >= r3
      /\ "Cnnn" \in Before("Unknown") <=> r2 >= r3
  BY CodesAre
<1>5. Cardinality(Before("Bbbb"))
        = (IF r2 > r1 THEN 1 ELSE 0) + (IF r3 > r1 THEN 1 ELSE 0)
  <2> HIDE DEF Before
  <2>1. Cardinality(Before("Bbbb"))
          = (IF "Cnnn" \in Before("Bbbb") THEN 1 ELSE 0)
            + (IF "Unknown" \in Before("Bbbb") THEN 1 ELSE 0)
    BY <1>2, HowManyOfTwo
  <2> QED
    BY <1>2, <2>1
<1>6. Cardinality(Before("Cnnn"))
        = (IF r1 >= r2 THEN 1 ELSE 0) + (IF r3 > r2 THEN 1 ELSE 0)
  <2> HIDE DEF Before
  <2>1. Cardinality(Before("Cnnn"))
          = (IF "Bbbb" \in Before("Cnnn") THEN 1 ELSE 0)
            + (IF "Unknown" \in Before("Cnnn") THEN 1 ELSE 0)
    BY <1>3, HowManyOfTwo
  <2> QED
    BY <1>3, <2>1
<1>7. Cardinality(Before("Unknown"))
        = (IF r1 >= r3 THEN 1 ELSE 0) + (IF r2 >= r3 THEN 1 ELSE 0)
  <2> HIDE DEF Before
  <2>1. Cardinality(Before("Unknown"))
          = (IF "Bbbb" \in Before("Unknown") THEN 1 ELSE 0)
            + (IF "Cnnn" \in Before("Unknown") THEN 1 ELSE 0)
    BY <1>4, HowManyOfTwo
  <2> QED
    BY <1>4, <2>1
<1> HIDE DEF Before
<1> QED
  BY <1>1, <1>5, <1>6, <1>7, CodesAre

\* One cent each for the codes ranked before n, with three remainders that add up
\* to n wholes: n cents in all, and none for a remainder of zero.
LEMMA CentsGiven ==
  ASSUME NEW W \in Nat, W > 0, NEW n \in 0..2,
         NEW r1 \in Nat, NEW r2 \in Nat, NEW r3 \in Nat,
         r1 < W, r2 < W, r3 < W, n * W = r1 + r2 + r3,
         NEW k1 \in Nat, NEW k2 \in Nat, NEW k3 \in Nat,
         k1 = (IF r2 > r1 THEN 1 ELSE 0) + (IF r3 > r1 THEN 1 ELSE 0),
         k2 = (IF r1 >= r2 THEN 1 ELSE 0) + (IF r3 > r2 THEN 1 ELSE 0),
         k3 = (IF r1 >= r3 THEN 1 ELSE 0) + (IF r2 >= r3 THEN 1 ELSE 0)
  PROVE  /\ (IF k1 < n THEN 1 ELSE 0) + (IF k2 < n THEN 1 ELSE 0)
            + (IF k3 < n THEN 1 ELSE 0) = n
         /\ r1 = 0 => ~(k1 < n)
         /\ r2 = 0 => ~(k2 < n)
         /\ r3 = 0 => ~(k3 < n)
<1>1. CASE n = 0
  BY <1>1
<1>2. CASE n = 1
  <2>1. W = r1 + r2 + r3
    BY <1>2
  <2> QED
    BY <1>2, <2>1
<1>3. CASE n = 2
  <2>1. 2 * W = r1 + r2 + r3
    BY <1>3
  <2> QED
    BY <1>3, <2>1
<1> QED
  BY <1>1, <1>2, <1>3

-------------------------------------------------------------------------------
(* The shares of a sale.                                                   *)

\* calculateRegionTotal, which sorts the codes by their fractions, and
\* regionRevenueExpression, which counts the codes ranked before the region, give
\* the same cents for every total and all weights: two programs, one in
\* JavaScript and one in the database, cannot drift apart on a tie.
THEOREM SameShare ==
  ASSUME NEW total \in Nat, NEW w \in Weighing, NEW g \in Codes
  PROVE  RegionTotal(total, w, g) = RegionRevenue(total, w, g)
<1>1. CASE Whole(w) <= 0 \/ w[g] <= 0
  BY <1>1 DEF RegionTotal, RegionRevenue
<1>2. CASE ~(Whole(w) <= 0 \/ w[g] <= 0)
  <2>1. Whole(w) > 0
    BY <1>2, WholeType
  <2>2. Cardinality(Preceding(total, w, g)) = Rank(total, w, g)
    BY <2>1, RankCountsPreceding
  <2> QED
    BY <1>2, <2>2 DEF RegionTotal, RegionRevenue, Allocated
<1> QED
  BY <1>1, <1>2

\* The shares of the codes of a sale with a line that costs something are its
\* whole total: regional reports neither lose a cent of it nor count one twice,
\* however the divisions round.
THEOREM SharesAreTheTotal ==
  ASSUME NEW total \in Nat, NEW w \in Weighing, Whole(w) > 0
  PROVE  RegionRevenue(total, w, "Bbbb") + RegionRevenue(total, w, "Cnnn")
           + RegionRevenue(total, w, "Unknown") = total
<1>1. PICK W \in Nat : W = Whole(w) /\ W > 0
  BY WholeType
<1>2. PICK n \in 0..2 : n = Remaining(total, w)
  BY RemaindersLeft
<1>3. PICK b1 \in Nat, r1 \in Nat :
        b1 = Base(total, w, "Bbbb") /\ r1 = Rest(total, w, "Bbbb")
  BY PartsOf, CodesAre
<1>4. PICK b2 \in Nat, r2 \in Nat :
        b2 = Base(total, w, "Cnnn") /\ r2 = Rest(total, w, "Cnnn")
  BY PartsOf, CodesAre
<1>5. PICK b3 \in Nat, r3 \in Nat :
        b3 = Base(total, w, "Unknown") /\ r3 = Rest(total, w, "Unknown")
  BY PartsOf, CodesAre
<1>6. r1 < W /\ r2 < W /\ r3 < W
  BY <1>1, <1>3, <1>4, <1>5, PartsOf, CodesAre
<1>7. n * W = r1 + r2 + r3
  BY <1>1, <1>2, <1>3, <1>4, <1>5, RemaindersLeft
<1>8. PICK k1 \in Nat, k2 \in Nat, k3 \in Nat :
        /\ k1 = (IF r2 > r1 THEN 1 ELSE 0) + (IF r3 > r1 THEN 1 ELSE 0)
        /\ k2 = (IF r1 >= r2 THEN 1 ELSE 0) + (IF r3 > r2 THEN 1 ELSE 0)
        /\ k3 = (IF r1 >= r3 THEN 1 ELSE 0) + (IF r2 >= r3 THEN 1 ELSE 0)
  OBVIOUS
<1>9. /\ Rank(total, w, "Bbbb") = k1 /\ Rank(total, w, "Cnnn") = k2
      /\ Rank(total, w, "Unknown") = k3
  <2>1. /\ Rank(total, w, "Bbbb")
             = (IF r2 > r1 THEN 1 ELSE 0) + (IF r3 > r1 THEN 1 ELSE 0)
        /\ Rank(total, w, "Cnnn")
             = (IF r1 >= r2 THEN 1 ELSE 0) + (IF r3 > r2 THEN 1 ELSE 0)
        /\ Rank(total, w, "Unknown")
             = (IF r1 >= r3 THEN 1 ELSE 0) + (IF r2 >= r3 THEN 1 ELSE 0)
    BY <1>3, <1>4, <1>5, RanksAre
  <2> QED
    BY <1>8, <2>1
<1>10. /\ (IF k1 < n THEN 1 ELSE 0) + (IF k2 < n THEN 1 ELSE 0)
          + (IF k3 < n THEN 1 ELSE 0) = n
       /\ r1 = 0 => ~(k1 < n)
       /\ r2 = 0 => ~(k2 < n)
       /\ r3 = 0 => ~(k3 < n)
  BY <1>1, <1>6, <1>7, <1>8, CentsGiven
<1>11. RegionRevenue(total, w, "Bbbb") = b1 + (IF k1 < n THEN 1 ELSE 0)
  <2>1. CASE w["Bbbb"] > 0
    <3>1. ~(Whole(w) <= 0) /\ ~(w["Bbbb"] <= 0)
      BY <1>1, <2>1, WholeType, CodesAre
    <3>2. RegionRevenue(total, w, "Bbbb")
            = b1 + (IF Rank(total, w, "Bbbb") < Remaining(total, w) THEN 1 ELSE 0)
      BY <1>3, <3>1 DEF RegionRevenue
    <3> QED
      BY <1>2, <1>9, <3>2
  <2>2. CASE w["Bbbb"] = 0
    <3>1. b1 = 0 /\ r1 = 0
      BY <1>3, <2>2, PartsOf, CodesAre
    <3> QED
      BY <1>10, <2>2, <3>1 DEF RegionRevenue
  <2> QED
    BY <2>1, <2>2, WholeType, CodesAre
<1>12. RegionRevenue(total, w, "Cnnn") = b2 + (IF k2 < n THEN 1 ELSE 0)
  <2>1. CASE w["Cnnn"] > 0
    <3>1. ~(Whole(w) <= 0) /\ ~(w["Cnnn"] <= 0)
      BY <1>1, <2>1, WholeType, CodesAre
    <3>2. RegionRevenue(total, w, "Cnnn")
            = b2 + (IF Rank(total, w, "Cnnn") < Remaining(total, w) THEN 1 ELSE 0)
      BY <1>4, <3>1 DEF RegionRevenue
    <3> QED
      BY <1>2, <1>9, <3>2
  <2>2. CASE w["Cnnn"] = 0
    <3>1. b2 = 0 /\ r2 = 0
      BY <1>4, <2>2, PartsOf, CodesAre
    <3> QED
      BY <1>10, <2>2, <3>1 DEF RegionRevenue
  <2> QED
    BY <2>1, <2>2, WholeType, CodesAre
<1>13. RegionRevenue(total, w, "Unknown") = b3 + (IF k3 < n THEN 1 ELSE 0)
  <2>1. CASE w["Unknown"] > 0
    <3>1. ~(Whole(w) <= 0) /\ ~(w["Unknown"] <= 0)
      BY <1>1, <2>1, WholeType, CodesAre
    <3>2. RegionRevenue(total, w, "Unknown")
            = b3 + (IF Rank(total, w, "Unknown") < Remaining(total, w) THEN 1 ELSE 0)
      BY <1>5, <3>1 DEF RegionRevenue
    <3> QED
      BY <1>2, <1>9, <3>2
  <2>2. CASE w["Unknown"] = 0
    <3>1. b3 = 0 /\ r3 = 0
      BY <1>5, <2>2, PartsOf, CodesAre
    <3> QED
      BY <1>10, <2>2, <3>1 DEF RegionRevenue
  <2> QED
    BY <2>1, <2>2, WholeType, CodesAre
<1>14. n = total - (b1 + b2 + b3)
  BY <1>2, <1>3, <1>4, <1>5 DEF Remaining
<1>15. PICK c1 \in Nat, c2 \in Nat, c3 \in Nat :
         /\ c1 = (IF k1 < n THEN 1 ELSE 0)
         /\ c2 = (IF k2 < n THEN 1 ELSE 0)
         /\ c3 = (IF k3 < n THEN 1 ELSE 0)
  OBVIOUS
<1> QED
  BY <1>10, <1>11, <1>12, <1>13, <1>14, <1>15

\* A share is a natural.
LEMMA RevenueType ==
  ASSUME NEW total \in Nat, NEW w \in Weighing, NEW g \in Codes
  PROVE  RegionRevenue(total, w, g) \in Nat
<1>1. CASE Whole(w) <= 0 \/ w[g] <= 0
  BY <1>1 DEF RegionRevenue
<1>2. CASE ~(Whole(w) <= 0 \/ w[g] <= 0)
  <2>1. Whole(w) > 0
    BY <1>2, WholeType
  <2>2. PICK b \in Nat : b = Base(total, w, g)
    BY <2>1, PartsOf
  <2>3. RegionRevenue(total, w, g)
          = b + (IF Rank(total, w, g) < Remaining(total, w) THEN 1 ELSE 0)
    BY <1>2, <2>2 DEF RegionRevenue
  <2> QED
    BY <2>3
<1> QED
  BY <1>1, <1>2

-------------------------------------------------------------------------------
(* Largest remainders over any number of lines.                            *)

\* R orders S, as the comparator of allocate does the lines.
Orders(R, S) ==
  /\ \A x \in S : <<x, x>> \notin R
  /\ \A x, y \in S : x # y => (<<x, y>> \in R <=> <<y, x>> \notin R)
  /\ \A x, y, z \in S : <<x, y>> \in R /\ <<y, z>> \in R => <<x, z>> \in R

Ahead(R, T, x) == {y \in T : <<y, x>> \in R}

\* Of the elements of a finite set one comes last.
LEMMA LastOne ==
  ASSUME NEW S, IsFiniteSet(S), NEW R, Orders(R, S), S # {}
  PROVE  \E m \in S : \A y \in S \ {m} : <<y, m>> \in R
<1> DEFINE G == {T \in SUBSET S : T # {} => \E m \in T : \A y \in T \ {m} : <<y, m>> \in R}
<1>1. ASSUME NEW T \in SUBSET S, \A x \in T : T \ {x} \in G
      PROVE  T \in G
  <2> SUFFICES ASSUME T # {} PROVE \E m \in T : \A y \in T \ {m} : <<y, m>> \in R
    OBVIOUS
  <2>1. PICK x : x \in T
    OBVIOUS
  <2>2. CASE T \ {x} = {}
    BY <2>1, <2>2
  <2>3. CASE T \ {x} # {}
    <3>1. PICK m \in T \ {x} : \A y \in (T \ {x}) \ {m} : <<y, m>> \in R
      BY <1>1, <2>1, <2>3
    <3>2. CASE <<x, m>> \in R
      BY <3>1, <3>2
    <3>3. CASE <<x, m>> \notin R
      <4>1. <<m, x>> \in R
        BY <2>1, <3>1, <3>3 DEF Orders
      <4>2. \A y \in T \ {x} : <<y, x>> \in R
        BY <2>1, <3>1, <4>1 DEF Orders
      <4> QED
        BY <2>1, <4>2
    <3> QED
      BY <3>2, <3>3
  <2> QED
    BY <2>2, <2>3
<1> HIDE DEF G
<1>2. \A T \in SUBSET S : T \in G
  BY <1>1, SetInduction
<1> QED
  BY <1>2 DEF G

\* One cent for each element with fewer than n ahead of it is n cents.
LEMMA FirstOnesAre ==
  ASSUME NEW S, IsFiniteSet(S), NEW R, Orders(R, S),
         NEW n \in Nat, n <= Cardinality(S)
  PROVE  SumOver([x \in S |-> IF Cardinality(Ahead(R, S, x)) < n THEN 1 ELSE 0], S) = n
<1> DEFINE cents(T, k) == [x \in T |-> IF Cardinality(Ahead(R, T, x)) < k THEN 1 ELSE 0]
           G == {T \in SUBSET S : \A k \in Nat :
                   SumOver(cents(T, k), T)
                     = IF k <= Cardinality(T) THEN k ELSE Cardinality(T)}
<1>1. ASSUME NEW T \in SUBSET S, \A x \in T : T \ {x} \in G
      PROVE  T \in G
  <2> SUFFICES ASSUME NEW k \in Nat
               PROVE  SumOver(cents(T, k), T)
                        = IF k <= Cardinality(T) THEN k ELSE Cardinality(T)
    OBVIOUS
  <2>1. IsFiniteSet(T)
    BY FS_Subset
  <2>2. CASE T = {}
    <3>1. Cardinality(T) = 0 /\ SumOver(cents(T, k), T) = 0
      BY <2>2, SumEmpty, FS_EmptySet
    <3> QED
      BY <3>1
  <2>3. CASE T # {}
    <3>1. Orders(R, T)
      BY DEF Orders
    <3>2. PICK m \in T : \A y \in T \ {m} : <<y, m>> \in R
      BY <2>1, <2>3, <3>1, LastOne
    <3>3. PICK V : V = T \ {m}
      OBVIOUS
    <3>4. IsFiniteSet(V) /\ Cardinality(V) = Cardinality(T) - 1
      BY <2>1, <3>2, <3>3, FS_RemoveElement
    <3>5. PICK c \in Nat : c = Cardinality(V)
      BY <3>4, FS_CardinalityType
    <3>6. Cardinality(T) = c + 1
      BY <2>1, <3>4, <3>5, FS_CardinalityType
    <3>7. Ahead(R, T, m) = V
      BY <3>1, <3>2, <3>3 DEF Ahead, Orders
    <3>8. ASSUME NEW x \in V PROVE Ahead(R, T, x) = Ahead(R, V, x)
      <4>1. <<x, m>> \in R /\ x # m /\ x \in T
        BY <3>2, <3>3
      <4>2. <<m, x>> \notin R
        BY <3>1, <3>2, <4>1 DEF Orders
      <4> QED
        BY <3>3, <4>2 DEF Ahead
    <3>9. PICK f, g : f = cents(T, k) /\ g = cents(V, k)
      OBVIOUS
    <3>10. \A x \in T : f[x] \in Int
      BY <3>9
    <3>11. \A x \in V : f[x] = g[x]
      BY <3>3, <3>8, <3>9
    <3>12. f[m] = IF c < k THEN 1 ELSE 0
      BY <3>5, <3>7, <3>9
    <3>13. SumOver(f, T) = f[m] + SumOver(f, V)
      BY <2>1, <3>2, <3>3, <3>10, SumRemove
    <3>14. SumOver(f, V) = SumOver(g, V)
      BY <3>4, <3>11, SumSame
    <3>15. SumOver(g, V) = IF k <= c THEN k ELSE c
      BY <1>1, <3>2, <3>3, <3>5, <3>9
    <3>16. SumOver(f, T) = IF k <= c + 1 THEN k ELSE c + 1
      BY <3>5, <3>12, <3>13, <3>14, <3>15
    <3> QED
      BY <3>6, <3>9, <3>16
  <2> QED
    BY <2>2, <2>3
<1> HIDE DEF G
<1>2. \A T \in SUBSET S : T \in G
  BY <1>1, SetInduction
<1> QED
  BY <1>2 DEF G

-------------------------------------------------------------------------------
(* Rounding to whole cents.                                                *)

\* The quotient is the only integer that leaves a remainder.
LEMMA DivisionIs ==
  ASSUME NEW n \in Int, NEW d \in Nat, d > 0
  PROVE  /\ n \div d \in Int /\ n % d \in Nat /\ n % d < d
         /\ n = d * (n \div d) + (n % d)
         /\ \A q \in Int, r \in Nat : n = d * q + r /\ r < d => n \div d = q
<1>1. PICK c \in Int, m \in Nat :
        c = n \div d /\ m = n % d /\ m < d /\ n = d * c + m
  BY SMT
<1>2. ASSUME NEW q \in Int, NEW r \in Nat, n = d * q + r, r < d PROVE c = q
  <2>1. PICK k \in Int : k = c - q
    OBVIOUS
  <2>2. d * k = d * c - d * q
    BY <2>1, SMT
  <2>3. PICK x \in Int, y \in Int, z \in Int : x = d * c /\ y = d * q /\ z = d * k
    OBVIOUS
  <2>4. z = r - m
    BY <1>1, <1>2, <2>2, <2>3
  <2>5. z < d /\ z > -d
    BY <1>1, <1>2, <2>4
  <2>6. ASSUME k >= 1 PROVE z >= d
    BY <2>3, <2>6, SMT
  <2>7. ASSUME k <= -1 PROVE z <= -d
    BY <2>3, <2>7, SMT
  <2>8. k = 0
    BY <2>1, <2>5, <2>6, <2>7
  <2> QED
    BY <2>1, <2>8
<1> QED
  BY <1>1, <1>2

\* Rounding is off by half a cent at most, and not at all for whole cents.
LEMMA RoundIs ==
  ASSUME NEW u \in Int
  PROVE  /\ Round(u) \in Int
         /\ Cent * Round(u) \in Int
         /\ 2 * (Cent * Round(u)) - 2 * u <= Cent
         /\ 2 * (Cent * Round(u)) - 2 * u >= 1 - Cent
         /\ \A k \in Int : Round(u + Cent * k) = Round(u) + k
         /\ \A k \in Int : u = Cent * k => Round(u) = k
<1>1. PICK c \in Nat : c = Cent /\ c > 0
  BY SharesAssumption DEF SharesAssumption
<1>2. PICK n \in Int, d \in Nat : n = 2 * u + c /\ d = 2 * c /\ d > 0
  BY <1>1
<1>3. Round(u) = n \div d
  BY <1>1, <1>2 DEF Round
<1>4. PICK q \in Int, r \in Nat :
        /\ q = n \div d /\ r = n % d /\ r < d /\ n = d * q + r
  BY <1>2, DivisionIs
<1>5. PICK p \in Int : p = c * q /\ d * q = 2 * p
  <2>1. (2 * c) * q = 2 * (c * q)
    BY SMT
  <2> QED
    BY <1>2, <2>1
<1>6. 2 * p - 2 * u = c - r
  BY <1>2, <1>4, <1>5
<1>7. 2 * p - 2 * u <= c /\ 2 * p - 2 * u >= 1 - c
  BY <1>2, <1>4, <1>6
<1>8. ASSUME NEW k \in Int PROVE Round(u + c * k) = q + k
  <2>1. PICK m \in Int, y \in Int : y = c * k /\ m = 2 * (u + y) + c
    BY <1>1
  <2>2. d * (q + k) = d * q + 2 * y
    <3>1. (2 * c) * (q + k) = (2 * c) * q + 2 * (c * k)
      BY SMT
    <3> QED
      BY <1>2, <2>1, <3>1
  <2>3. PICK x \in Int : x = d * q
    BY <1>2
  <2>4. m = d * (q + k) + r
    BY <1>2, <1>4, <2>1, <2>2, <2>3
  <2>5. q + k \in Int
    OBVIOUS
  <2>6. m \div d = q + k
    BY <1>2, <1>4, <2>4, <2>5, DivisionIs
  <2>7. Round(u + y) = m \div d
    BY <1>1, <1>2, <2>1 DEF Round
  <2> QED
    BY <2>1, <2>6, <2>7
<1>9. ASSUME NEW k \in Int, u = c * k PROVE q = k
  <2>1. PICK y \in Int : y = c * k
    BY <1>1
  <2>2. d * k = 2 * y
    <3>1. (2 * c) * k = 2 * (c * k)
      BY SMT
    <3> QED
      BY <1>2, <2>1, <3>1
  <2>3. n = d * k + c
    BY <1>2, <1>9, <2>1, <2>2
  <2>4. c < d
    BY <1>1, <1>2
  <2> QED
    BY <1>1, <1>2, <1>4, <2>3, <2>4, DivisionIs
<1> QED
  BY <1>1, <1>3, <1>4, <1>5, <1>7, <1>8, <1>9

LEMMA RoundNear ==
  ASSUME NEW u \in Int, NEW q, q = Round(u), NEW p, p = Cent * q
  PROVE  /\ q \in Int /\ p \in Int
         /\ 2 * p - 2 * u <= Cent /\ 2 * p - 2 * u >= 1 - Cent
BY RoundIs

\* An amount of whole cents is rounded to itself.
LEMMA RoundWhole ==
  ASSUME NEW u \in Nat, u % Cent = 0
  PROVE  Cent * Round(u) = u
<1>1. PICK c \in Nat : c = Cent /\ c > 0
  BY SharesAssumption DEF SharesAssumption
<1>2. PICK q \in Int : q = u \div c /\ u = c * q + (u % c)
  BY <1>1, DivisionIs
<1>3. PICK p \in Int : p = c * q
  OBVIOUS
<1>4. u = c * q
  BY <1>1, <1>2, <1>3
<1>5. Round(u) = q
  BY <1>1, <1>4, RoundIs
<1> QED
  BY <1>1, <1>4, <1>5

\* Less of a positive factor is less.
LEMMA FactorLess ==
  ASSUME NEW a \in Int, NEW b \in Int, NEW c \in Nat, c * a < c * b
  PROVE  a < b
<1>1. ASSUME a >= b PROVE c * a >= c * b
  BY <1>1, SMT
<1>2. PICK x \in Int, y \in Int : x = c * a /\ y = c * b
  OBVIOUS
<1> QED
  BY <1>1, <1>2

\* Rounding the terms of a sum, or the sum: half a cent at most for each term that
\* is not whole cents.
LEMMA RoundsAreNear ==
  ASSUME NEW f, NEW S, IsFiniteSet(S), \A i \in S : f[i] \in Nat,
         NEW x, \A i \in S : x[i] = Round(f[i]),
         NEW B, B = {i \in S : f[i] % Cent # 0}
  PROVE  /\ SumOver(x, S) \in Int /\ Round(SumOver(f, S)) \in Int
         /\ Cardinality(B) \in Nat
         /\ 2 * (SumOver(x, S) - Round(SumOver(f, S)))
              \in (-Cardinality(B))..Cardinality(B)
<1>1. PICK c \in Nat : c = Cent /\ c > 0
  BY SharesAssumption DEF SharesAssumption
<1>2. ASSUME NEW i \in S PROVE x[i] \in Int /\ f[i] \in Int
  <2>1. f[i] \in Int
    OBVIOUS
  <2> QED
    BY <2>1, RoundIs
<1>3. PICK X \in Int, F \in Nat : X = SumOver(x, S) /\ F = SumOver(f, S)
  BY <1>2, SumType, SumNat
<1>4. PICK R \in Int : R = Round(F)
  BY RoundIs
<1>5. B \in SUBSET S /\ IsFiniteSet(B)
  BY FS_Subset
<1>6. PICK k \in Nat : k = Cardinality(B)
  BY <1>5, FS_CardinalityType
<1>7. PICK z : z = [i \in S |-> 0]
  OBVIOUS
<1>8. (\A i \in S : z[i] = 0 /\ z[i] \in Int) /\ SumOver(z, S) = 0
  BY <1>7, SumZero
<1>9. PICK g : g = [i \in S |-> (-2) * f[i]]
  OBVIOUS
<1>10. \A i \in S : f[i] \in Int /\ z[i] \in Int /\ g[i] \in Int /\ g[i] = (-2) * f[i] + z[i]
  BY <1>2, <1>8, <1>9
<1>11. SumOver(g, S) = (-2) * F
  <2>1. SumOver(g, S) = (-2) * SumOver(f, S) + SumOver(z, S)
    BY <1>10, SumAdd
  <2> QED
    BY <1>3, <1>8, <2>1
<1>12. PICK e : e = [i \in S |-> 2 * (c * x[i]) - 2 * f[i]]
  OBVIOUS
<1>13. ASSUME NEW i \in S
       PROVE  /\ e[i] \in Int /\ e[i] <= c /\ e[i] >= 1 - c
              /\ i \notin B => e[i] = 0 /\ f[i] = c * x[i]
              /\ e[i] = (2 * c) * x[i] + g[i]
  <2>1. PICK u \in Nat, q \in Int : u = f[i] /\ q = x[i] /\ q = Round(u)
    BY <1>2
  <2>2. PICK p \in Int : p = c * q
    BY <1>1
  <2>3. 2 * p - 2 * u <= c /\ 2 * p - 2 * u >= 1 - c
    BY <1>1, <2>1, <2>2, RoundNear
  <2>4. e[i] = 2 * p - 2 * u
    BY <1>12, <2>1, <2>2
  <2>5. i \notin B => p = u
    BY <1>1, <2>1, <2>2, RoundWhole
  <2>6. (2 * c) * q = 2 * p
    BY <2>2, SMT
  <2>7. g[i] = (-2) * u
    BY <1>9, <2>1
  <2> QED
    BY <2>1, <2>2, <2>3, <2>4, <2>5, <2>6, <2>7
<1>14. PICK E \in Int : E = SumOver(e, S)
  BY <1>13, SumType
<1>15. PICK P \in Int : P = c * X
  BY <1>1
<1>16. E = 2 * P - 2 * F
  <2>1. 2 * c \in Int
    OBVIOUS
  <2>2. \A i \in S : x[i] \in Int /\ g[i] \in Int /\ e[i] = (2 * c) * x[i] + g[i]
    BY <1>2, <1>10, <1>13
  <2>3. SumOver(e, S) = (2 * c) * SumOver(x, S) + SumOver(g, S)
    BY <2>1, <2>2, SumAdd
  <2>4. (2 * c) * X = 2 * (c * X)
    BY SMT
  <2> QED
    BY <1>3, <1>11, <1>14, <1>15, <2>3, <2>4
<1>17. SumOver(e, B) = E
  BY <1>5, <1>13, <1>14, SumSupport
<1>18. E <= k * c
  <2>1. \A i \in B : e[i] \in Int /\ e[i] <= c
    BY <1>5, <1>13
  <2> QED
    BY <1>5, <1>6, <1>17, <2>1, SumBound
<1>19. -E <= k * (c - 1)
  <2>1. PICK h : h = [i \in B |-> (-1) * e[i]]
    OBVIOUS
  <2>2. \A i \in B : /\ e[i] \in Int /\ z[i] \in Int /\ h[i] = (-1) * e[i] + z[i]
                     /\ h[i] \in Int /\ h[i] <= c - 1
    BY <1>5, <1>8, <1>13, <2>1
  <2>3. c - 1 \in Nat
    BY <1>1
  <2>4. SumOver(h, B) <= k * (c - 1)
    BY <1>5, <1>6, <2>2, <2>3, SumBound
  <2>5. SumOver(h, B) = (-1) * SumOver(e, B) + SumOver(z, B)
    BY <1>5, <2>2, SumAdd
  <2>6. SumOver(z, B) = 0
    BY <1>5, <1>8, SumZero
  <2>7. SumOver(h, B) = -E
    BY <1>17, <2>5, <2>6
  <2> QED
    BY <2>4, <2>7
<1>20. PICK Q \in Int : Q = c * R /\ 2 * Q - 2 * F <= c /\ 2 * Q - 2 * F >= 1 - c
  <2>1. PICK Q \in Int : Q = c * R
    BY <1>1
  <2> QED
    BY <1>1, <1>3, <1>4, <2>1, RoundNear
<1>21. PICK D \in Int : D = 2 * (X - R)
  OBVIOUS
<1>22. c * D = 2 * P - 2 * Q
  <2>1. c * (2 * (X - R)) = 2 * (c * X) - 2 * (c * R)
    BY SMT
  <2> QED
    BY <1>15, <1>20, <1>21, <2>1
<1>23. D <= k /\ D >= -k
  <2>1. CASE k = 0
    <3>1. B = {}
      BY <1>5, <1>6, <2>1, FS_EmptySet
    <3>2. \A i \in S : x[i] \in Int /\ z[i] \in Int /\ f[i] = c * x[i] + z[i]
      BY <1>2, <1>8, <1>13, <3>1
    <3>3. SumOver(f, S) = c * SumOver(x, S) + SumOver(z, S)
      BY <3>2, SumAdd
    <3>4. F = c * X
      BY <1>3, <1>8, <1>15, <3>3
    <3>5. R = X
      BY <1>1, <1>4, <3>4, RoundIs
    <3> QED
      BY <1>21, <2>1, <3>5
  <2>2. CASE k > 0
    <3>1. PICK K \in Int : K = c * k
      OBVIOUS
    <3>2. E <= K /\ -E <= K - k
      <4>1. k * c = c * k /\ k * (c - 1) = c * k - k
        BY SMT
      <4> QED
        BY <1>18, <1>19, <3>1, <4>1
    <3>3. c * D = E - (2 * Q - 2 * F)
      BY <1>16, <1>22
    <3>4. c * D < K + c /\ c * D > -K - c
      <4>1. PICK y \in Int, w \in Int : y = c * D /\ w = 2 * Q - 2 * F
        <5>1. c * D \in Int /\ 2 * Q - 2 * F \in Int
          BY SMT
        <5> QED
          BY <5>1
      <4> QED
        BY <1>1, <1>20, <2>2, <3>2, <3>3, <4>1
    <3>5. c * (k + 1) = K + c /\ c * (-k - 1) = -K - c
      <4>1. c * (k + 1) = c * k + c /\ c * (-k - 1) = -(c * k) - c
        BY SMT
      <4> QED
        BY <3>1, <4>1
    <3>6. D < k + 1 /\ -k - 1 < D
      <4>1. k + 1 \in Int /\ -k - 1 \in Int
        OBVIOUS
      <4>2. c * D < c * (k + 1) /\ c * (-k - 1) < c * D
        BY <3>4, <3>5
      <4> QED
        BY <4>1, <4>2, FactorLess
    <3> QED
      BY <3>6
  <2> QED
    BY <2>1, <2>2
<1> QED
  BY <1>3, <1>4, <1>6, <1>21, <1>23

-------------------------------------------------------------------------------
(* The charges of a sale.                                                  *)

\* A basket that a request can carry.
LEMMA BasketIs ==
  ASSUME NEW basket \in Basket
  PROVE  /\ basket \in Seq(Item) /\ basket # <<>>
         /\ IsFiniteSet(DOMAIN basket)
         /\ DOMAIN basket \subseteq Nat
         /\ 1 \in DOMAIN basket
         /\ \A i \in DOMAIN basket :
              /\ basket[i].region \in Regions
              /\ basket[i].subtotal \in Nat /\ basket[i].subtotal > 0
<1>1. basket \in Seq(Item) /\ basket # <<>>
  BY ReportsAssumption DEF ReportsAssumption
<1>2. Len(basket) \in Nat /\ DOMAIN basket = 1..Len(basket) /\ Len(basket) > 0
  BY <1>1
<1>3. IsFiniteSet(1..Len(basket))
  BY <1>2, FS_Interval
<1>4. \A i \in DOMAIN basket : basket[i] \in Item
  BY <1>1, <1>2
<1> QED
  BY <1>1, <1>2, <1>3, <1>4 DEF Item

\* Its subtotal is positive.
LEMMA SubtotalIs ==
  ASSUME NEW basket \in Basket
  PROVE  Subtotal(basket) \in Nat /\ Subtotal(basket) > 0
<1>1. PICK f : f = [i \in DOMAIN basket |-> basket[i].subtotal]
  OBVIOUS
<1>2. \A i \in DOMAIN basket : f[i] \in Nat
  BY <1>1, BasketIs
<1>3. SumOver(f, DOMAIN basket) \in Nat /\ f[1] <= SumOver(f, DOMAIN basket)
  BY <1>2, BasketIs, SumNat
<1>4. f[1] \in Nat /\ f[1] > 0
  BY <1>1, BasketIs
<1> QED
  BY <1>1, <1>3, <1>4 DEF Subtotal, Lines

\* allocate spreads the whole amount: what the divisions leave is less than a cent
\* a line, and the lines that get one more cent are as many as there are cents left.
LEMMA SpreadIsTheAmount ==
  ASSUME NEW basket \in Basket, NEW amount \in Nat
  PROVE  /\ \A i \in DOMAIN basket : Spread(amount, basket)[i] \in Int
         /\ SumOver(Spread(amount, basket), DOMAIN basket) = amount
<1> DEFINE I == DOMAIN basket
           whole == Subtotal(basket)
<1>1. whole \in Nat /\ whole > 0
  BY SubtotalIs
<1> HIDE DEF whole
<1> USE <1>1
<1>2. IsFiniteSet(I) /\ I \subseteq Nat
  BY BasketIs
<1>3. PICK f : f = [i \in I |-> basket[i].subtotal]
  OBVIOUS
<1>4. \A i \in I : f[i] \in Nat
  BY <1>3, BasketIs
<1>5. whole = SumOver(f, I)
  BY <1>3 DEF whole, Subtotal, Lines
<1>6. PICK b, r : /\ b = [i \in I |-> (amount * basket[i].subtotal) \div whole]
                  /\ r = [i \in I |-> (amount * basket[i].subtotal) % whole]
  OBVIOUS
<1>7. ASSUME NEW i \in I
      PROVE  /\ b[i] \in Nat /\ r[i] \in Nat /\ r[i] < whole
             /\ amount * f[i] = whole * b[i] + r[i]
  <2>1. PICK n \in Nat : n = amount * f[i]
    BY <1>4, ProductIsNat
  <2>2. b[i] = n \div whole /\ r[i] = n % whole
    BY <1>3, <1>6, <2>1
  <2>3. /\ n \div whole \in Nat /\ n % whole \in Nat
        /\ n = whole * (n \div whole) + (n % whole) /\ n % whole < whole
    BY <1>1, Division
  <2> QED
    BY <2>1, <2>2, <2>3
<1>8. SumOver(b, I) \in Int /\ SumOver(r, I) \in Nat
  BY <1>2, <1>7, SumType, SumNat
<1>9. PICK left \in Int : left = amount - SumOver(b, I)
  BY <1>8
<1>10. left * whole = SumOver(r, I)
  <2>1. PICK h, z : /\ h = [i \in I |-> amount * f[i]]
                    /\ z = [i \in I |-> 0]
    OBVIOUS
  <2>2. ASSUME NEW i \in I
        PROVE  f[i] \in Int /\ z[i] \in Int /\ h[i] = amount * f[i] + z[i]
    <3>1. h[i] \in Nat
      BY <1>4, <2>1, ProductIsNat
    <3> QED
      BY <1>4, <2>1, <3>1
  <2>3. SumOver(h, I) = amount * SumOver(f, I) + SumOver(z, I)
    BY <1>2, <2>2, SumAdd
  <2>4. SumOver(z, I) = 0
    BY <1>2, <2>1, SumZero
  <2>5. ASSUME NEW i \in I
        PROVE  b[i] \in Int /\ r[i] \in Int /\ h[i] = whole * b[i] + r[i]
    BY <1>7, <2>1
  <2>6. SumOver(h, I) = whole * SumOver(b, I) + SumOver(r, I)
    BY <1>2, <2>5, SumAdd
  <2>7. PICK B \in Int, Q \in Int : B = SumOver(b, I) /\ Q = SumOver(r, I)
    BY <1>8
  <2>8. amount * whole = whole * B + Q
    <3>1. amount * whole \in Nat
      BY ProductIsNat
    <3> QED
      BY <1>5, <2>3, <2>4, <2>6, <2>7, <3>1
  <2>9. (amount - B) * whole = amount * whole - whole * B
    OBVIOUS
  <2> QED
    BY <1>9, <2>7, <2>8, <2>9
<1>11. left >= 0
  <2>1. ASSUME left < 0 PROVE left * whole < 0
    BY <1>1, <2>1
  <2> QED
    BY <1>8, <1>10, <2>1
<1>12. PICK n \in Nat : n = Cardinality(I)
  BY <1>2, FS_CardinalityType
<1>13. left <= n
  <2>1. SumOver(r, I) <= n * whole
    <3>1. \A i \in I : r[i] \in Int /\ r[i] <= whole
      BY <1>7
    <3> QED
      BY <1>2, <1>12, <3>1, SumBound
  <2>2. ASSUME left > n PROVE left * whole > n * whole
    BY <1>1, <2>2
  <2>3. PICK p \in Int, q \in Int : p = left * whole /\ q = n * whole
    OBVIOUS
  <2> QED
    BY <1>8, <1>10, <2>1, <2>2, <2>3
<1>14. PICK R : R = {p \in I \X I : \/ r[p[1]] > r[p[2]]
                                    \/ r[p[1]] = r[p[2]] /\ p[1] < p[2]}
  OBVIOUS
<1>15. \A x, y \in I : <<x, y>> \in R <=> (r[x] > r[y] \/ (r[x] = r[y] /\ x < y))
  BY <1>14
<1>16. Orders(R, I)
  <2>1. \A x \in I : r[x] \in Nat /\ x \in Nat
    BY <1>2, <1>7
  <2> QED
    BY <1>15, <2>1 DEF Orders
<1>17. PICK c : c = [i \in I |-> IF Cardinality(Ahead(R, I, i)) < left THEN 1 ELSE 0]
  OBVIOUS
<1>18. SumOver(c, I) = left
  BY <1>2, <1>11, <1>12, <1>13, <1>16, <1>17, FirstOnesAre
<1>19. PICK s : s = Spread(amount, basket)
  OBVIOUS
<1>20. ASSUME NEW i \in I PROVE s[i] = 1 * b[i] + c[i]
  <2> DEFINE part(j) == (amount * basket[j].subtotal) \div whole
             rest(j) == (amount * basket[j].subtotal) % whole
             ahead == {j \in I : rest(j) > rest(i) \/ (rest(j) = rest(i) /\ j < i)}
             given == SumOver([j \in I |-> part(j)], I)
  <2>1. Ahead(R, I, i) = {j \in I : r[j] > r[i] \/ (r[j] = r[i] /\ j < i)}
    BY <1>15 DEF Ahead
  <2>2. left = amount - given
    BY <1>6, <1>9
  <2>3. Ahead(R, I, i) = ahead
    BY <1>6, <2>1
  <2>4. s[i] = IF whole <= 0 THEN 0
               ELSE (amount * basket[i].subtotal) \div whole
                    + (IF Cardinality(ahead) < amount - given THEN 1 ELSE 0)
    BY <1>19 DEF Spread, Lines, whole
  <2> HIDE DEF ahead, given
  <2>5. s[i] = (amount * basket[i].subtotal) \div whole
               + (IF Cardinality(Ahead(R, I, i)) < left THEN 1 ELSE 0)
    BY <2>2, <2>3, <2>4
  <2> QED
    BY <1>6, <1>7, <1>17, <2>5
<1>21. \A i \in I : b[i] \in Int /\ c[i] \in Int /\ s[i] = 1 * b[i] + c[i]
  BY <1>7, <1>17, <1>20
<1>22. SumOver(s, I) = 1 * SumOver(b, I) + SumOver(c, I)
  BY <1>2, <1>21, SumAdd
<1>23. SumOver(s, I) = amount
  BY <1>8, <1>9, <1>18, <1>22
<1> QED
  BY <1>19, <1>21, <1>23

\* The lines of a basket whose net is rounded.
BrokenIn(basket) == {i \in DOMAIN basket : basket[i].subtotal % Cent # 0}

\* The net lines add up to the total but for the rounding of each: the charges are
\* whole cents and are spread without a loss.
LEMMA NetsAreNear ==
  ASSUME NEW basket \in Basket, NEW discount \in Discount, NEW added \in Added
  PROVE  /\ Total(basket, discount, added) \in Int
         /\ \A i \in DOMAIN basket : NetOf(basket, discount, added)[i] \in Int
         /\ 2 * (SumOver(NetOf(basket, discount, added), DOMAIN basket)
                 - Total(basket, discount, added))
              \in (-Cardinality(BrokenIn(basket)))..Cardinality(BrokenIn(basket))
<1> DEFINE I == DOMAIN basket
<1>1. discount \in Nat /\ added \in Nat
  BY ReportsAssumption DEF ReportsAssumption
<1>2. IsFiniteSet(I)
  BY BasketIs
<1>3. PICK f, d, a, n, x : /\ f = [i \in I |-> basket[i].subtotal]
                           /\ d = Spread(discount, basket)
                           /\ a = Spread(added, basket)
                           /\ n = NetOf(basket, discount, added)
                           /\ x = [i \in I |-> Round(basket[i].subtotal)]
  OBVIOUS
<1>4. /\ \A i \in I : d[i] \in Int /\ a[i] \in Int
      /\ SumOver(d, I) = discount /\ SumOver(a, I) = added
  BY <1>1, <1>3, SpreadIsTheAmount
<1>5. \A i \in I : f[i] \in Nat /\ f[i] = basket[i].subtotal /\ x[i] = Round(f[i])
  BY <1>3, BasketIs
<1>6. SumOver(f, I) = Subtotal(basket)
  BY <1>3 DEF Subtotal, Lines
<1>7. PICK B : B = {i \in I : f[i] % Cent # 0}
  OBVIOUS
<1>8. B = BrokenIn(basket)
  BY <1>5, <1>7 DEF BrokenIn
<1>9. PICK X \in Int, R \in Int, k \in Nat :
        /\ X = SumOver(x, I) /\ R = Round(SumOver(f, I)) /\ k = Cardinality(B)
        /\ 2 * (X - R) \in (-k)..k
  BY <1>2, <1>5, <1>7, RoundsAreNear
<1>10. PICK e : e = [i \in I |-> (-1) * d[i] + x[i]]
  OBVIOUS
<1>11. ASSUME NEW i \in I
       PROVE  /\ x[i] \in Int /\ n[i] \in Int
              /\ e[i] \in Int /\ e[i] = (-1) * d[i] + x[i] /\ n[i] = 1 * a[i] + e[i]
  <2>1. PICK u \in Nat, p \in Int, q \in Int, m \in Int :
          u = f[i] /\ p = d[i] /\ q = a[i] /\ m = q - p
    <3>1. f[i] \in Nat
      BY <1>5
    <3>2. d[i] \in Int /\ a[i] \in Int
      BY <1>4
    <3>3. a[i] - d[i] \in Int
      BY <3>2
    <3> QED
      BY <3>1, <3>2, <3>3
  <2>2. n[i] = Round(u - Cent * p + Cent * q)
    BY <1>3, <1>5, <2>1 DEF NetOf
  <2>3. u - Cent * p + Cent * q = u + Cent * m
    <3>1. Cent \in Nat
      BY SharesAssumption DEF SharesAssumption
    <3>2. Cent * (q - p) = Cent * q - Cent * p
      BY <3>1, SMT
    <3>3. PICK y \in Int, z \in Int : y = Cent * p /\ z = Cent * q
      BY <3>1
    <3> QED
      BY <2>1, <3>2, <3>3
  <2>4. Round(u) \in Int /\ Round(u + Cent * m) = Round(u) + m
    BY RoundIs
  <2>5. x[i] = Round(u)
    BY <1>5, <2>1
  <2>6. e[i] = (-1) * p + x[i]
    BY <1>10, <2>1
  <2> QED
    BY <2>1, <2>2, <2>3, <2>4, <2>5, <2>6
<1>12. SumOver(e, I) = X - discount
  <2>1. SumOver(e, I) = (-1) * SumOver(d, I) + SumOver(x, I)
    BY <1>2, <1>4, <1>11, SumAdd
  <2> QED
    BY <1>1, <1>4, <1>9, <2>1
<1>13. SumOver(n, I) = 1 * SumOver(a, I) + SumOver(e, I)
  BY <1>2, <1>4, <1>11, SumAdd
<1>14. SumOver(n, I) = X - discount + added
  BY <1>1, <1>4, <1>9, <1>12, <1>13
<1>15. Total(basket, discount, added) = R - discount + added
  BY <1>6, <1>9 DEF Total
<1>16. SumOver(n, I) - Total(basket, discount, added) = X - R
  BY <1>1, <1>9, <1>14, <1>15
<1>17. Total(basket, discount, added) \in Int
  BY <1>1, <1>9, <1>15
<1> QED
  BY <1>3, <1>8, <1>9, <1>11, <1>16, <1>17

-------------------------------------------------------------------------------
(* A sale and its regions.                                                 *)

\* The lines of a sale made since lines have a region code, and its total.
Divided(total, lines) ==
  /\ lines # <<>>
  /\ \A i \in DOMAIN lines : /\ lines[i].code \in Regions
                             /\ lines[i].kept /\ lines[i].subtotal > 0
  /\ 2 * (Nets(lines) - total)
       \in (-Cardinality(Broken(lines)))..Cardinality(Broken(lines))

\* The lines of a sale are finitely many.
LEMMA LinesAre ==
  ASSUME NEW lines \in Seq(Line)
  PROVE  /\ IsFiniteSet(DOMAIN lines)
         /\ \A i \in DOMAIN lines :
              /\ lines[i] \in Line
              /\ lines[i].subtotal \in Nat /\ lines[i].net \in Nat
         /\ lines # <<>> => 1 \in DOMAIN lines
<1>1. Len(lines) \in Nat /\ DOMAIN lines = 1..Len(lines)
  OBVIOUS
<1>2. IsFiniteSet(1..Len(lines))
  BY <1>1, FS_Interval
<1>3. \A i \in DOMAIN lines : lines[i] \in Line
  BY <1>1
<1>4. lines # <<>> => 1 \in DOMAIN lines
  BY <1>1
<1> QED
  BY <1>1, <1>2, <1>3, <1>4 DEF Line

\* The lines that POST and PUT store.
LEMMA PricedIs ==
  ASSUME NEW basket \in Basket, NEW discount \in Discount, NEW added \in Added,
         Storable(Priced(basket, discount, added))
  PROVE  /\ Priced(basket, discount, added) \in Seq(Line)
         /\ Divided(Total(basket, discount, added), Priced(basket, discount, added))
<1>1. PICK lines, net : /\ lines = Priced(basket, discount, added)
                        /\ net = NetOf(basket, discount, added)
  OBVIOUS
<1>2. DOMAIN lines = DOMAIN basket
  BY <1>1 DEF Priced
<1>3. \A i \in DOMAIN basket :
        lines[i] = [code |-> basket[i].region, name |-> basket[i].region, kept |-> TRUE,
                    subtotal |-> basket[i].subtotal, net |-> net[i]]
  BY <1>1 DEF Priced
<1>4. ASSUME NEW i \in DOMAIN basket
      PROVE  /\ lines[i] \in Line /\ lines[i].code \in Regions /\ lines[i].kept
             /\ lines[i].subtotal = basket[i].subtotal
             /\ lines[i].subtotal > 0 /\ lines[i].net = net[i]
  <2>1. net[i] \in Int
    BY <1>1, NetsAreNear
  <2>2. lines[i].net >= 0
    BY <1>1, <1>2 DEF Storable
  <2>3. PICK g, b, m : g = basket[i].region /\ b = basket[i].subtotal /\ m = net[i]
    OBVIOUS
  <2>4. lines[i] = [code |-> g, name |-> g, kept |-> TRUE, subtotal |-> b, net |-> m]
    BY <1>3, <2>3
  <2>5. lines[i].net = m
    BY <2>4
  <2>6. g \in Regions /\ b \in Nat /\ b > 0
    BY <2>3, BasketIs
  <2>7. m \in Nat
    BY <2>1, <2>2, <2>3, <2>5
  <2> QED
    BY <2>3, <2>4, <2>6, <2>7 DEF Line
<1>5. lines \in Seq(Line) /\ lines # <<>>
  <2>1. basket \in Seq(Item) /\ basket # <<>>
    BY BasketIs
  <2>2. Len(basket) \in Nat /\ DOMAIN basket = 1..Len(basket) /\ Len(basket) > 0
    BY <2>1
  <2>3. PICK k \in Nat : k = Len(basket) /\ DOMAIN basket = 1..k /\ k > 0
    BY <2>2
  <2>4. lines = [i \in 1..k |-> lines[i]]
    <3>1. lines = [i \in DOMAIN basket |-> lines[i]]
      BY <1>1 DEF Priced
    <3> QED
      BY <2>3, <3>1
  <2>5. \A i \in 1..k : lines[i] \in Line
    BY <1>4, <2>3
  <2>6. lines \in [1..k -> Line]
    BY <2>4, <2>5
  <2> QED
    BY <2>3, <2>6
<1>6. Nets(lines) = SumOver(net, DOMAIN basket)
  <2>1. PICK f : f = [i \in DOMAIN lines |-> lines[i].net]
    OBVIOUS
  <2>2. \A i \in DOMAIN basket : f[i] = net[i]
    BY <1>2, <1>4, <2>1
  <2>3. SumOver(f, DOMAIN basket) = SumOver(net, DOMAIN basket)
    BY <2>2, BasketIs, SumSame
  <2>4. Nets(lines) = SumOver(f, DOMAIN lines)
    BY <2>1 DEF Nets, Lines
  <2> QED
    BY <1>2, <2>3, <2>4
<1>7. Broken(lines) = BrokenIn(basket)
  BY <1>2, <1>4 DEF Broken, BrokenIn
<1>8. 2 * (Nets(lines) - Total(basket, discount, added))
        \in (-Cardinality(Broken(lines)))..Cardinality(Broken(lines))
  BY <1>1, <1>6, <1>7, NetsAreNear
<1> QED
  BY <1>1, <1>2, <1>4, <1>5, <1>8 DEF Divided

\* The amounts of lines, by either computation.
Amounts(lines) == [DOMAIN lines -> Nat]

LEMMA PartsAre ==
  ASSUME NEW lines \in Seq(Line)
  PROVE  /\ PartsInReports(lines) \in Amounts(lines)
         /\ \A i \in DOMAIN lines : PartsInReports(lines)[i] = lines[i].subtotal
         /\ (\A i \in DOMAIN lines : lines[i].kept \/ lines[i].subtotal % Cent = 0)
              => PartsInTotal(lines) = PartsInReports(lines)
<1>1. \A i \in DOMAIN lines : lines[i].subtotal \in Nat
  BY LinesAre
<1>2. PICK p : p = PartsInReports(lines)
  OBVIOUS
<1>3. p = [i \in DOMAIN lines |-> lines[i].subtotal]
  BY <1>2 DEF PartsInReports
<1>4. ASSUME \A i \in DOMAIN lines : lines[i].kept \/ lines[i].subtotal % Cent = 0
      PROVE  PartsInTotal(lines) = p
  <2>1. ASSUME NEW i \in DOMAIN lines, ~lines[i].kept
        PROVE  Cent * Round(lines[i].subtotal) = lines[i].subtotal
    BY <1>1, <1>4, <2>1, RoundWhole
  <2>2. \A i \in DOMAIN lines :
          (IF lines[i].kept THEN lines[i].subtotal ELSE Cent * Round(lines[i].subtotal))
            = lines[i].subtotal
    BY <2>1
  <2> QED
    BY <1>3, <2>2 DEF PartsInTotal
<1> QED
  BY <1>1, <1>2, <1>3, <1>4 DEF Amounts

\* The weight of a code is the sum of the amounts of its lines.
WithCode(lines, codes, c) == {i \in DOMAIN lines : codes[i] = c}

WeightsOf(lines, codes) == Weights(PartsInReports(lines), codes)

LEMMA WeightsAre ==
  ASSUME NEW lines \in Seq(Line), NEW codes
  PROVE  /\ WeightsOf(lines, codes) \in Weighing
         /\ \A c \in Codes :
              /\ WithCode(lines, codes, c) = {} => WeightsOf(lines, codes)[c] = 0
              /\ \A i \in WithCode(lines, codes, c) :
                   lines[i].subtotal <= WeightsOf(lines, codes)[c]
              /\ WithCode(lines, codes, c) = DOMAIN lines =>
                   OldTotal(lines) = Round(WeightsOf(lines, codes)[c])
<1>1. PICK w, p : w = WeightsOf(lines, codes) /\ p = PartsInReports(lines)
  OBVIOUS
<1>2. p = [i \in DOMAIN lines |-> lines[i].subtotal]
  BY <1>1 DEF PartsInReports
<1>3. ASSUME NEW c \in Codes
      PROVE  /\ w[c] \in Nat
             /\ WithCode(lines, codes, c) = {} => w[c] = 0
             /\ \A i \in WithCode(lines, codes, c) : lines[i].subtotal <= w[c]
             /\ WithCode(lines, codes, c) = DOMAIN lines => OldTotal(lines) = Round(w[c])
  <2> DEFINE I == WithCode(lines, codes, c)
  <2>1. I \subseteq DOMAIN lines
    BY DEF WithCode
  <2>2. IsFiniteSet(I)
    BY <2>1, LinesAre, FS_Subset
  <2>3. I = {i \in DOMAIN p : codes[i] = c}
    BY <1>2 DEF WithCode
  <2>4. w[c] = SumOver([i \in I |-> p[i]], I)
    BY <1>1, <2>3 DEF WeightsOf, Weights, Lines
  <2> HIDE DEF I
  <2>5. PICK f : f = [i \in I |-> lines[i].subtotal]
    OBVIOUS
  <2>6. \A i \in I : f[i] = lines[i].subtotal /\ f[i] \in Nat
    BY <2>1, <2>5, LinesAre
  <2>7. SumOver(f, I) \in Nat /\ \A i \in I : f[i] <= SumOver(f, I)
    BY <2>2, <2>6, SumNat
  <2>8. [i \in I |-> p[i]] = f
    BY <1>2, <2>1, <2>5
  <2>9. w[c] = SumOver(f, I)
    BY <2>4, <2>8
  <2>10. I = {} => w[c] = 0
    BY <2>9, SumEmpty
  <2>11. I = DOMAIN lines => OldTotal(lines) = Round(w[c])
    BY <2>5, <2>9 DEF OldTotal, Lines
  <2> QED
    BY <2>6, <2>7, <2>9, <2>10, <2>11 DEF I
<1>4. w = [c \in Codes |-> w[c]]
  BY <1>1 DEF WeightsOf, Weights
<1> QED
  BY <1>1, <1>3, <1>4 DEF Weighing

\* A sale with lines that cost something and a code each is divided between the
\* two regions: no cent of its total is left for an unknown one.
LEMMA RegionsShareTheTotal ==
  ASSUME NEW total \in Nat, NEW lines \in Seq(Line), Divided(total, lines)
  PROVE  total = TotalReported(total, lines, "Bbbb") + TotalReported(total, lines, "Cnnn")
<1>1. PICK codes : codes = CodesInReports(lines)
  OBVIOUS
<1>2. PICK w \in Weighing : w = WeightsOf(lines, codes)
  BY WeightsAre
<1>3. \A i \in DOMAIN lines : codes[i] = lines[i].code /\ codes[i] \in Regions
  BY <1>1 DEF Divided, CodesInReports, CodeInReports
<1>4. w["Unknown"] = 0
  <2>1. WithCode(lines, codes, "Unknown") = {}
    BY <1>3 DEF WithCode, Regions
  <2> QED
    BY <1>2, <2>1, WeightsAre, CodesAre
<1>5. Whole(w) > 0
  <2>1. PICK c \in Codes : c = codes[1] /\ 1 \in DOMAIN lines
    BY <1>3, LinesAre DEF Divided, Codes
  <2>2. 1 \in WithCode(lines, codes, c)
    BY <2>1 DEF WithCode
  <2>3. lines[1].subtotal <= w[c]
    BY <1>2, <2>2, WeightsAre
  <2>4. lines[1].subtotal \in Nat /\ lines[1].subtotal > 0
    BY <2>1, LinesAre DEF Divided
  <2>5. w[c] \in Nat
    BY WholeType
  <2>6. w[c] > 0
    BY <2>3, <2>4, <2>5
  <2> QED
    BY <2>6, WholeType
<1>6. RegionRevenue(total, w, "Bbbb") + RegionRevenue(total, w, "Cnnn")
        + RegionRevenue(total, w, "Unknown") = total
  BY <1>5, SharesAreTheTotal
<1>7. RegionRevenue(total, w, "Unknown") = 0
  BY <1>4 DEF RegionRevenue
<1>8. \A g \in {"Bbbb", "Cnnn"} : RegionRevenue(total, w, g) \in Nat
  BY RevenueType, CodesAre
<1>9. \A g \in {"Bbbb", "Cnnn"} : TotalReported(total, lines, g) = RegionRevenue(total, w, g)
  BY <1>1, <1>2 DEF TotalReported, WeightsOf
<1> QED
  BY <1>6, <1>7, <1>8, <1>9

\* What an account of a region is shown of a sale is what its reports count.
LEMMA ShownAsReported ==
  ASSUME NEW total \in Nat, NEW lines \in Seq(Line), NEW g \in Regions,
         SomeIn(lines, g),
         \A i \in DOMAIN lines :
           /\ lines[i].code = "none" => lines[i].name = "none"
           /\ lines[i].kept \/ lines[i].subtotal % Cent = 0,
         Divided(total, lines) \/ total = OldTotal(lines)
  PROVE  TotalShown(total, lines, g) = TotalReported(total, lines, g)
<1>1. PICK codes : codes = CodesInReports(lines)
  OBVIOUS
<1>2. PICK w \in Weighing : w = WeightsOf(lines, codes)
  BY WeightsAre
<1>3. g \in Codes /\ g # "all"
  BY DEF Codes, Regions
<1>4. TotalReported(total, lines, g) = RegionRevenue(total, w, g)
  BY <1>1, <1>2, <1>3 DEF TotalReported, WeightsOf
<1>5. CASE ~AllIn(lines, g)
  <2>1. \A i \in DOMAIN lines : CodeInTotal(lines[i]) = CodeInReports(lines[i])
    <3>1. ASSUME NEW i \in DOMAIN lines
          PROVE  CodeInTotal(lines[i]) = CodeInReports(lines[i])
      <4>1. lines[i].code \in Regions \/ lines[i].code = "none"
        BY LinesAre DEF Line
      <4> QED
        BY <4>1 DEF CodeInTotal, CodeInReports, Regions
    <3> QED
      BY <3>1
  <2>2. CodesInTotal(lines) = codes
    BY <1>1, <2>1 DEF CodesInTotal, CodesInReports
  <2>3. PartsInTotal(lines) = PartsInReports(lines)
    BY PartsAre
  <2>4. TotalShown(total, lines, g) = RegionTotal(total, w, g)
    BY <1>2, <1>5, <2>2, <2>3 DEF TotalShown, WeightsOf
  <2> QED
    BY <1>3, <1>4, <2>4, SameShare
<1>6. CASE AllIn(lines, g)
  <2>1. TotalShown(total, lines, g) = total
    BY <1>6 DEF TotalShown
  <2>2. \A i \in DOMAIN lines : codes[i] = g
    BY <1>1, <1>6 DEF AllIn, CodesInReports
  <2>3. \A c \in Codes \ {g} : w[c] = 0
    <3>1. \A c \in Codes \ {g} : WithCode(lines, codes, c) = {}
      BY <2>2 DEF WithCode
    <3> QED
      BY <1>2, <3>1, WeightsAre
  <2>4. \A c \in Codes \ {g} : RegionRevenue(total, w, c) = 0
    BY <2>3 DEF RegionRevenue
  <2>5. w[g] \in Nat /\ (w[g] > 0 => Whole(w) > 0)
    BY <1>3, WholeType
  <2>6. CASE w[g] > 0
    <3>1. RegionRevenue(total, w, "Bbbb") + RegionRevenue(total, w, "Cnnn")
            + RegionRevenue(total, w, "Unknown") = total
      BY <2>5, <2>6, SharesAreTheTotal
    <3>2. \A c \in Codes : RegionRevenue(total, w, c) \in Nat
      BY RevenueType
    <3>3. RegionRevenue(total, w, g) = total
      BY <1>3, <2>4, <3>1, <3>2, CodesAre
    <3> QED
      BY <1>4, <2>1, <3>3
  <2>7. CASE w[g] = 0
    <3>1. WithCode(lines, codes, g) = DOMAIN lines
      BY <2>2 DEF WithCode
    <3>2. OldTotal(lines) = 0
      <4>1. OldTotal(lines) = Round(w[g])
        BY <1>2, <1>3, <3>1, WeightsAre
      <4>2. Cent \in Nat /\ 0 = Cent * 0
        BY SharesAssumption DEF SharesAssumption
      <4>3. Round(0) = 0
        BY <4>2, RoundIs
      <4> QED
        BY <2>7, <4>1, <4>3
    <3>3. ~Divided(total, lines)
      <4> SUFFICES ASSUME Divided(total, lines) PROVE FALSE
        OBVIOUS
      <4>1. 1 \in WithCode(lines, codes, g)
        BY <3>1, LinesAre DEF Divided
      <4>2. lines[1].subtotal <= w[g]
        BY <1>2, <1>3, <4>1, WeightsAre
      <4>3. lines[1].subtotal \in Nat /\ lines[1].subtotal > 0
        BY <3>1, <4>1, LinesAre DEF Divided
      <4> QED
        BY <2>7, <4>2, <4>3
    <3>4. total = 0
      BY <3>2, <3>3
    <3>5. RegionRevenue(total, w, g) = 0
      BY <2>7 DEF RegionRevenue
    <3> QED
      BY <1>4, <2>1, <3>4, <3>5
  <2> QED
    BY <2>5, <2>6, <2>7
<1> QED
  BY <1>5, <1>6

-------------------------------------------------------------------------------
(* The calendar.                                                           *)

Grain == {"hour", "day", "month"}

CalendarEnd == MonthStart[Len(MonthDays) + 1]

LEMMA CalendarIs ==
  /\ HourLen \in Nat /\ HourLen > 0
  /\ DayLen \in Nat /\ DayLen > 0
  /\ Len(MonthDays) \in Nat /\ Month = 1..Len(MonthDays)
  /\ \A m \in Month : MonthDays[m] \in Nat /\ MonthDays[m] > 0
  /\ MaxDailySpan \in Nat /\ MaxKeys \in Nat
<1>1. MonthDays \in Seq(Nat \ {0})
  BY CalendarAssumption DEF CalendarAssumption
<1>2. Len(MonthDays) \in Nat /\ DOMAIN MonthDays = 1..Len(MonthDays)
  BY <1>1
<1>3. \A m \in 1..Len(MonthDays) : MonthDays[m] \in Nat \ {0}
  BY <1>1
<1> QED
  BY <1>2, <1>3, CalendarAssumption DEF CalendarAssumption, Month

\* A larger factor, a larger product.
LEMMA ProductGrows ==
  ASSUME NEW a \in Nat, NEW b \in Nat, a <= b, NEW c \in Nat
  PROVE  a * c <= b * c
<1>1. PICK d \in Nat : b = a + d
  <2>1. b - a \in Nat /\ b = a + (b - a)
    OBVIOUS
  <2> QED
    BY <2>1
<1>2. (a + d) * c = a * c + d * c
  OBVIOUS
<1>3. a * c \in Nat /\ d * c \in Nat
  BY ProductIsNat
<1> QED
  BY <1>1, <1>2, <1>3

\* The months follow each other, each of whole days.
LEMMA MonthStarts ==
  /\ MonthStart[1] = 0
  /\ \A m \in 1..(Len(MonthDays) + 1) :
       MonthStart[m] \in Nat /\ \E k \in Nat : MonthStart[m] = k * DayLen
  /\ \A m, n \in 1..(Len(MonthDays) + 1) : m < n => MonthStart[m] < MonthStart[n]
<1>1. PICK L \in Nat, D \in Nat : L = Len(MonthDays) /\ D = DayLen /\ D > 0
  BY CalendarIs
<1> DEFINE days(m) == SumOver(MonthDays, 1..(m - 1))
<1>2. ASSUME NEW m \in 1..(L + 1)
      PROVE  /\ IsFiniteSet(1..(m - 1))
             /\ \A i \in 1..(m - 1) : MonthDays[i] \in Nat /\ MonthDays[i] > 0
             /\ days(m) \in Nat
             /\ MonthStart[m] = days(m) * D
  <2>1. IsFiniteSet(1..(m - 1))
    BY FS_Interval
  <2>2. \A i \in 1..(m - 1) : MonthDays[i] \in Nat /\ MonthDays[i] > 0
    BY <1>1, CalendarIs
  <2>3. days(m) \in Nat
    BY <2>1, <2>2, SumNat
  <2>4. MonthStart[m] = days(m) * D
    BY <1>1 DEF MonthStart
  <2> QED
    BY <2>1, <2>2, <2>3, <2>4
<1>3. MonthStart[1] = 0
  <2>1. 1..(1 - 1) = {}
    OBVIOUS
  <2>2. days(1) = 0
    BY <2>1, SumEmpty
  <2>3. MonthStart[1] = days(1) * D
    BY <1>2
  <2>4. 0 * D = 0
    OBVIOUS
  <2> QED
    BY <2>2, <2>3, <2>4
<1>4. ASSUME NEW m \in 1..(L + 1) PROVE MonthStart[m] \in Nat
  BY <1>2, ProductIsNat
<1>5. ASSUME NEW m \in 1..(L + 1), NEW n \in 1..(L + 1), m < n
      PROVE  MonthStart[m] < MonthStart[n]
  <2>1. m + 1 \in 1..(L + 1)
    BY <1>5
  <2>2. days(m + 1) = days(m) + MonthDays[m]
    <3>1. (1..(m - 1)) \cup {m} = 1..((m + 1) - 1) /\ m \notin 1..(m - 1)
      OBVIOUS
    <3>2. \A i \in (1..(m - 1)) \cup {m} : MonthDays[i] \in Int
      <4>1. (1..(m - 1)) \cup {m} \subseteq 1..L
        BY <1>5
      <4> QED
        BY <1>1, <4>1, CalendarIs
    <3>3. SumOver(MonthDays, (1..(m - 1)) \cup {m})
            = SumOver(MonthDays, 1..(m - 1)) + MonthDays[m]
      BY <1>2, <3>1, <3>2, SumInsert
    <3> QED
      BY <3>1, <3>3
  <2>3. MonthDays[m] \in Nat /\ MonthDays[m] > 0
    BY <1>1, <1>5, CalendarIs
  <2>4. days(m + 1) <= days(n)
    <3>1. 1..((m + 1) - 1) \in SUBSET (1..(n - 1))
      BY <1>5
    <3>2. IsFiniteSet(1..(n - 1)) /\ \A i \in 1..(n - 1) : MonthDays[i] \in Nat
      BY <1>2
    <3> QED
      BY <3>1, <3>2, SumSubset
  <2>5. PICK a \in Nat, b \in Nat : a = days(m) /\ b = days(n)
    BY <1>2
  <2>6. a + 1 <= b
    BY <1>2, <2>1, <2>2, <2>3, <2>4, <2>5
  <2>7. (a + 1) * D <= b * D
    BY <2>6, ProductGrows
  <2>8. (a + 1) * D = a * D + D
    OBVIOUS
  <2>9. a * D \in Nat /\ b * D \in Nat
    BY ProductIsNat
  <2>10. MonthStart[m] = a * D /\ MonthStart[n] = b * D
    BY <1>2, <2>5
  <2> QED
    BY <1>1, <2>7, <2>8, <2>9, <2>10
<1>6. \A m \in 1..(L + 1) : \E k \in Nat : MonthStart[m] = k * D
  BY <1>2
<1> QED
  BY <1>1, <1>3, <1>4, <1>5, <1>6

\* The instants of the calendar.
LEMMA InstantsAre ==
  /\ CalendarEnd \in Nat /\ CalendarEnd > 0
  /\ 0 \in Instant
  /\ \A t : t \in Instant <=> t \in Nat /\ t < CalendarEnd
<1>1. CalendarEnd \in Nat
  BY MonthStarts, CalendarIs DEF CalendarEnd
<1>2. \A t : t \in Instant <=> t \in Nat /\ t < CalendarEnd
  BY <1>1 DEF Instant, CalendarEnd
<1>3. MaxTime \in Instant
  BY ReportsAssumption DEF ReportsAssumption
<1> QED
  BY <1>1, <1>2, <1>3

\* The month of an instant is the one it lies in.
LEMMA MonthOfIs ==
  ASSUME NEW t \in Instant
  PROVE  /\ MonthOf(t) \in Month
         /\ MonthStart[MonthOf(t)] <= t /\ t < MonthStart[MonthOf(t) + 1]
         /\ \A m \in Month :
              MonthStart[m] <= t /\ t < MonthStart[m + 1] => MonthOf(t) = m
<1>1. PICK L \in Nat : L = Len(MonthDays) /\ Month = 1..L
  BY CalendarIs
<1>2. t \in Nat /\ t < MonthStart[L + 1]
  BY <1>1, InstantsAre DEF CalendarEnd
<1>3. \A m \in 1..(L + 1) : MonthStart[m] \in Nat
  BY <1>1, MonthStarts
<1> DEFINE in(m) == MonthStart[m] <= t /\ t < MonthStart[m + 1]
           G == {n \in Nat : n <= L /\ t < MonthStart[n + 1] => \E m \in 1..n : in(m)}
<1>4. 0 \in G
  BY <1>2, MonthStarts
<1>5. ASSUME NEW n \in Nat, n \in G PROVE n + 1 \in G
  <2> SUFFICES ASSUME n + 1 <= L, t < MonthStart[(n + 1) + 1]
               PROVE  \E m \in 1..(n + 1) : in(m)
    OBVIOUS
  <2>1. CASE t < MonthStart[n + 1]
    <3>1. PICK m \in 1..n : in(m)
      BY <1>5, <2>1
    <3> QED
      BY <3>1
  <2>2. CASE ~(t < MonthStart[n + 1])
    <3>1. n + 1 \in 1..(L + 1) /\ n + 1 \in 1..(n + 1)
      OBVIOUS
    <3>2. in(n + 1)
      BY <1>2, <1>3, <2>2, <3>1
    <3> QED
      BY <3>1, <3>2
  <2> QED
    BY <2>1, <2>2
<1> HIDE DEF G
<1>6. L \in G
  BY <1>4, <1>5, NatInductionSet
<1>7. \E m \in Month : in(m)
  BY <1>1, <1>2, <1>6 DEF G
<1>8. MonthOf(t) \in Month /\ in(MonthOf(t))
  BY <1>7 DEF MonthOf
<1>9. ASSUME NEW m \in Month, NEW n \in Month, in(m), in(n), m < n PROVE FALSE
  <2>1. m + 1 \in 1..(L + 1) /\ n \in 1..(L + 1)
    BY <1>1
  <2>2. m + 1 = n \/ m + 1 < n
    BY <1>1, <1>9
  <2>3. MonthStart[m + 1] <= MonthStart[n]
    BY <1>1, <1>3, <2>1, <2>2, MonthStarts
  <2> QED
    BY <1>2, <1>3, <1>9, <2>1, <2>3
<1>10. \A m \in Month : in(m) => MonthOf(t) = m
  <2>1. PICK n \in Month : n = MonthOf(t) /\ in(n)
    BY <1>8
  <2>2. ASSUME NEW m \in Month, in(m), n # m PROVE FALSE
    <3>1. m < n \/ n < m
      BY <1>1, <2>2
    <3> QED
      BY <1>9, <2>1, <2>2, <3>1
  <2> QED
    BY <2>1, <2>2
<1> QED
  BY <1>8, <1>10

\* A day that has begun ends in the calendar.
LEMMA DaysAre ==
  ASSUME NEW t \in Instant
  PROVE  DayStart(t \div DayLen) \in Instant /\ DayEnd(t \div DayLen) \in Instant
<1>1. PICK D \in Nat : D = DayLen /\ D > 0
  BY CalendarIs
<1>2. PICK k \in Nat : CalendarEnd = k * D
  <2>1. Len(MonthDays) + 1 \in 1..(Len(MonthDays) + 1)
    BY CalendarIs
  <2>2. \E k \in Nat : MonthStart[Len(MonthDays) + 1] = k * DayLen
    BY <2>1, MonthStarts
  <2> QED
    BY <1>1, <2>2 DEF CalendarEnd
<1>3. PICK d \in Nat, r \in Nat : d = t \div D /\ t = D * d + r /\ r < D
  BY <1>1, Division, InstantsAre
<1>4. d * D \in Nat /\ D * d = d * D
  BY ProductIsNat
<1>5. d * D <= t
  BY <1>3, <1>4
<1>6. d + 1 <= k
  <2>1. ASSUME k <= d PROVE FALSE
    <3>1. k * D <= d * D
      BY <2>1, ProductGrows
    <3>2. CalendarEnd <= t
      BY <1>2, <1>3, <1>4, <1>5, <3>1, InstantsAre
    <3> QED
      BY <3>2, InstantsAre
  <2> QED
    BY <2>1
<1>7. (d + 1) * D <= k * D
  BY <1>6, ProductGrows
<1>8. (d + 1) * D = d * D + D
  OBVIOUS
<1>9. DayStart(t \div DayLen) = d * D /\ DayEnd(t \div DayLen) = (d + 1) * D - 1
  BY <1>1, <1>3 DEF DayStart, DayEnd
<1> QED
  BY <1>1, <1>2, <1>4, <1>5, <1>7, <1>8, <1>9, InstantsAre

\* The period of a query that is not empty lies in the calendar.
LEMMA FrameIs ==
  ASSUME NEW q \in Query, NEW now \in Instant, Frame(q, now).start <= Frame(q, now).end
  PROVE  /\ Frame(q, now) \in [start : Instant, end : Instant]
<1>1. CASE q.kind = "range"
  <2>1. q \in [kind : {"range"}, from : Day \cup {NoDay}, to : Day \cup {NoDay}]
    BY <1>1 DEF Query
  <2>2. q.from \in Day \cup {NoDay} /\ q.to \in Day \cup {NoDay}
    BY <2>1
  <2>3. (IF q.from = NoDay THEN 0 ELSE DayStart(q.from)) \in Instant
    BY <2>2, DaysAre, InstantsAre DEF Day
  <2>4. (IF q.to = NoDay THEN now ELSE DayEnd(q.to)) \in Instant
    BY <2>2, DaysAre DEF Day
  <2> QED
    BY <1>1, <2>3, <2>4 DEF Frame
<1>2. CASE q.kind = "months"
  <2>1. q \in [kind : {"months"}, first : Month, last : Month]
    BY <1>2 DEF Query
  <2>0. PICK L \in Nat : L = Len(MonthDays) /\ Month = 1..L
    BY CalendarIs
  <2>2. PICK m \in 1..L, n \in 1..L : m = q.first /\ n = q.last /\ L = Len(MonthDays)
    BY <2>0, <2>1
  <2>3. Frame(q, now) = [start |-> MonthStart[m], end |-> MonthStart[n + 1] - 1]
    BY <1>2, <2>2 DEF Frame
  <2>4. m \in 1..(L + 1) /\ n + 1 \in 1..(L + 1) /\ 1 \in 1..(L + 1) /\ m < L + 1
    BY <2>2
  <2>5. MonthStart[m] \in Nat /\ MonthStart[m] < MonthStart[L + 1]
    BY <2>2, <2>4, MonthStarts
  <2>6. MonthStart[n + 1] \in Nat /\ MonthStart[n + 1] > 0
    <3>1. MonthStart[1] < MonthStart[n + 1]
      BY <2>2, <2>4, MonthStarts
    <3> QED
      BY <2>2, <2>4, <3>1, MonthStarts
  <2>7. MonthStart[n + 1] <= MonthStart[L + 1]
    <3>1. CASE n = L
      BY <2>6, <3>1, SMTT(20)
    <3>2. CASE n < L
      BY <2>2, <2>4, <3>2, MonthStarts
    <3> QED
      BY <2>4, <3>1, <3>2
  <2> QED
    BY <2>2, <2>3, <2>5, <2>6, <2>7, InstantsAre DEF CalendarEnd
<1>3. CASE q.kind = "today"
  <2>1. Frame(q, now) = [start |-> DayStart(now \div DayLen),
                         end |-> DayEnd(now \div DayLen)]
    BY <1>3 DEF Frame
  <2> QED
    BY <2>1, DaysAre
<1> QED
  BY <1>1, <1>2, <1>3 DEF Query

\* What has elapsed of it begins with it and ends no later.
LEMMA ElapsedIs ==
  ASSUME NEW f \in [start : Instant, end : Instant], f.start <= f.end, NEW now \in Instant
  PROVE  /\ Elapsed(f, now) \in [start : Instant, end : Instant]
         /\ Elapsed(f, now).start = f.start
         /\ f.start <= Elapsed(f, now).end
         /\ Elapsed(f, now).end <= f.end
         /\ Elapsed(f, now).end < f.end => Elapsed(f, now).end = now
<1>1. PICK a \in Instant, b \in Instant : a = f.start /\ b = f.end
  OBVIOUS
<1>2. a \in Nat /\ b \in Nat /\ now \in Nat
  BY InstantsAre
<1>3. CASE now >= a /\ now < b
  <2>1. Elapsed(f, now) = [start |-> a, end |-> now]
    BY <1>1, <1>3 DEF Elapsed, IsPartial
  <2> QED
    BY <1>1, <1>2, <1>3, <2>1
<1>4. CASE ~(now >= a /\ now < b)
  <2>1. Elapsed(f, now) = [start |-> a, end |-> b]
    BY <1>1, <1>4 DEF Elapsed, IsPartial
  <2> QED
    BY <1>1, <1>2, <2>1
<1> QED
  BY <1>3, <1>4

\* There is always a granularity.
LEMMA GranularityIs ==
  ASSUME NEW f \in [start : Instant, end : Instant]
  PROVE  Granularity(f) \in Grain
<1>1. PICK n \in Int : n = Length(f)
  BY InstantsAre DEF Length
<1>2. PICK d \in Nat, m \in Nat : d = DayLen /\ m = MaxDailySpan * DayLen
  BY CalendarIs, ProductIsNat
<1>3. n <= d \/ (n > d /\ n <= m) \/ (n > d /\ n > m)
  OBVIOUS
<1> QED
  BY <1>1, <1>2, <1>3 DEF Granularity, Grain

-------------------------------------------------------------------------------
(* Buckets.                                                                *)

\* Where buckets start.
IsStart(b, g) ==
  CASE g = "hour"  -> \E k \in Nat : b = k * HourLen
    [] g = "day"   -> \E k \in Nat : b = k * DayLen
    [] g = "month" -> \E m \in 1..(Len(MonthDays) + 1) : b = MonthStart[m]

\* Buckets of one length.
LEMMA EqualBuckets ==
  ASSUME NEW D \in Nat, D > 0, NEW t \in Nat
  PROVE  /\ \E k \in Nat : (t \div D) * D = k * D
         /\ (t \div D) * D \in Nat /\ (t \div D) * D <= t
         /\ \A k \in Nat : k * D <= t /\ t < k * D + D => (t \div D) * D = k * D
<1>1. PICK d \in Nat, r \in Nat : d = t \div D /\ t = D * d + r /\ r < D
  BY Division
<1>2. PICK n \in Nat : n = d * D /\ n = D * d
  BY ProductIsNat
<1>3. n <= t /\ t < n + D
  BY <1>1, <1>2
<1>4. ASSUME NEW k \in Nat, k * D <= t, t < k * D + D
      PROVE  d = k
  <2>1. PICK m \in Nat : m = k * D
    BY ProductIsNat
  <2>2. ASSUME NEW a \in Nat, NEW b \in Nat, a < b PROVE a * D + D <= b * D
    <3>1. (a + 1) * D <= b * D
      BY <2>2, ProductGrows
    <3>2. (a + 1) * D = a * D + D
      OBVIOUS
    <3> QED
      BY <3>1, <3>2
  <2>3. ~(d < k)
    <3> SUFFICES ASSUME d < k PROVE FALSE
      OBVIOUS
    <3>1. n + D <= m
      BY <1>2, <2>1, <2>2
    <3> QED
      BY <1>3, <1>4, <2>1, <3>1
  <2>4. ~(k < d)
    <3> SUFFICES ASSUME k < d PROVE FALSE
      OBVIOUS
    <3>1. m + D <= n
      BY <1>2, <2>1, <2>2
    <3> QED
      BY <1>3, <1>4, <2>1, <3>1
  <2> QED
    BY <2>3, <2>4
<1> QED
  BY <1>1, <1>2, <1>3, <1>4

\* The bucket of an instant starts no later.
LEMMA BucketIs ==
  ASSUME NEW t \in Instant, NEW g \in Grain
  PROVE  /\ BucketOf(t, g) \in Nat /\ BucketOf(t, g) <= t
         /\ IsStart(BucketOf(t, g), g)
<1>1. t \in Nat
  BY InstantsAre
<1>2. CASE g = "hour"
  <2>1. BucketOf(t, g) = (t \div HourLen) * HourLen
    BY <1>2 DEF BucketOf
  <2>2. /\ \E k \in Nat : (t \div HourLen) * HourLen = k * HourLen
        /\ (t \div HourLen) * HourLen \in Nat /\ (t \div HourLen) * HourLen <= t
    BY <1>1, EqualBuckets, CalendarIs
  <2> QED
    BY <1>2, <2>1, <2>2 DEF IsStart
<1>3. CASE g = "day"
  <2>1. BucketOf(t, g) = (t \div DayLen) * DayLen
    BY <1>3 DEF BucketOf
  <2>2. /\ \E k \in Nat : (t \div DayLen) * DayLen = k * DayLen
        /\ (t \div DayLen) * DayLen \in Nat /\ (t \div DayLen) * DayLen <= t
    BY <1>1, EqualBuckets, CalendarIs
  <2> QED
    BY <1>3, <2>1, <2>2 DEF IsStart
<1>4. CASE g = "month"
  <2>1. PICK m \in Month : m = MonthOf(t) /\ MonthStart[m] <= t
    BY MonthOfIs
  <2>2. BucketOf(t, g) = MonthStart[m]
    BY <1>4, <2>1 DEF BucketOf
  <2>3. m \in 1..(Len(MonthDays) + 1)
    BY CalendarIs
  <2> QED
    BY <1>4, <2>1, <2>2, <2>3, MonthStarts DEF IsStart
<1> QED
  BY <1>2, <1>3, <1>4 DEF Grain

\* The next bucket starts later, and what lies between is in this one.
LEMMA NextBucketIs ==
  ASSUME NEW b \in Instant, NEW g \in Grain, IsStart(b, g)
  PROVE  /\ NextBucketStart(b, g) \in Nat
         /\ IsStart(NextBucketStart(b, g), g)
         /\ \A t \in Instant :
              b <= t /\ t < NextBucketStart(b, g) => BucketOf(t, g) = b
<1>1. b \in Nat
  BY InstantsAre
<1>2. ASSUME NEW D \in Nat, D > 0, NEW k \in Nat, b = k * D
      PROVE  /\ b + D \in Nat
             /\ \E j \in Nat : b + D = j * D
             /\ \A t \in Instant : b <= t /\ t < b + D => (t \div D) * D = b
  <2>1. (k + 1) * D = k * D + D /\ k + 1 \in Nat
    OBVIOUS
  <2>2. ASSUME NEW t \in Instant, b <= t, t < b + D PROVE (t \div D) * D = b
    <3>1. t \in Nat
      BY InstantsAre
    <3> QED
      BY <1>2, <2>2, <3>1, EqualBuckets
  <2> QED
    BY <1>1, <1>2, <2>1, <2>2
<1>3. CASE g = "hour"
  <2>1. PICK k \in Nat : b = k * HourLen
    BY <1>3 DEF IsStart
  <2>2. NextBucketStart(b, g) = b + HourLen
    BY <1>3 DEF NextBucketStart
  <2>3. /\ b + HourLen \in Nat
        /\ \E j \in Nat : b + HourLen = j * HourLen
        /\ \A t \in Instant :
             b <= t /\ t < b + HourLen => (t \div HourLen) * HourLen = b
    BY <1>2, <2>1, CalendarIs
  <2>4. \A t : BucketOf(t, g) = (t \div HourLen) * HourLen
    BY <1>3 DEF BucketOf
  <2> QED
    BY <1>3, <2>2, <2>3, <2>4 DEF IsStart
<1>4. CASE g = "day"
  <2>1. PICK k \in Nat : b = k * DayLen
    BY <1>4 DEF IsStart
  <2>2. NextBucketStart(b, g) = b + DayLen
    BY <1>4 DEF NextBucketStart
  <2>3. /\ b + DayLen \in Nat
        /\ \E j \in Nat : b + DayLen = j * DayLen
        /\ \A t \in Instant :
             b <= t /\ t < b + DayLen => (t \div DayLen) * DayLen = b
    BY <1>2, <2>1, CalendarIs
  <2>4. \A t : BucketOf(t, g) = (t \div DayLen) * DayLen
    BY <1>4 DEF BucketOf
  <2> QED
    BY <1>4, <2>2, <2>3, <2>4 DEF IsStart
<1>5. CASE g = "month"
  <2>1. PICK L \in Nat : L = Len(MonthDays) /\ Month = 1..L
    BY CalendarIs
  <2>2. PICK m \in 1..(L + 1) : b = MonthStart[m]
    BY <1>5, <2>1 DEF IsStart
  <2>3. m # L + 1
    BY <2>1, <2>2, InstantsAre DEF CalendarEnd
  <2>4. m \in Month /\ m + 1 \in 1..(L + 1) /\ m < m + 1
    BY <2>1, <2>3
  <2>5. MonthStart[m] < MonthStart[m + 1] /\ MonthStart[m + 1] \in Nat
    BY <2>1, <2>4, MonthStarts
  <2>6. MonthOf(b) = m
    BY <1>1, <2>2, <2>4, <2>5, MonthOfIs
  <2>7. NextBucketStart(b, g) = MonthStart[m + 1]
    BY <1>5, <2>6 DEF NextBucketStart
  <2>8. ASSUME NEW t \in Instant, b <= t, t < MonthStart[m + 1]
        PROVE  BucketOf(t, g) = b
    <3>1. MonthOf(t) = m
      BY <2>2, <2>4, <2>8, MonthOfIs
    <3> QED
      BY <1>5, <2>2, <3>1 DEF BucketOf
  <2> QED
    BY <1>5, <2>1, <2>4, <2>5, <2>7, <2>8 DEF IsStart
<1> QED
  BY <1>3, <1>4, <1>5 DEF Grain

\* The cursor of listBucketKeys, up to n steps.
Steps(h, f, g, n) ==
  h = [i \in 0..n |-> IF i = 0 THEN BucketOf(f.start, g)
                      ELSE IF h[i - 1] > f.end THEN h[i - 1]
                      ELSE NextBucketStart(h[i - 1], g)]

\* The loop has a run, however many steps it is given.
LEMMA StepsExist ==
  ASSUME NEW f, NEW g
  PROVE  \A n \in Nat : \E h : Steps(h, f, g, n)
<1> DEFINE G == {n \in Nat : \E h : Steps(h, f, g, n)}
<1>1. 0 \in G
  <2>1. PICK h : h = [i \in 0..0 |-> BucketOf(f.start, g)]
    OBVIOUS
  <2>2. Steps(h, f, g, 0)
    BY <2>1 DEF Steps
  <2> QED
    BY <2>2
<1>2. ASSUME NEW n \in Nat, n \in G PROVE n + 1 \in G
  <2>1. PICK h : Steps(h, f, g, n)
    BY <1>2
  <2>2. PICK last : last = IF h[n] > f.end THEN h[n] ELSE NextBucketStart(h[n], g)
    OBVIOUS
  <2>3. PICK k : k = [i \in 0..(n + 1) |-> IF i = n + 1 THEN last ELSE h[i]]
    OBVIOUS
  <2>4. \A i \in 0..n : k[i] = h[i]
    BY <2>3
  <2>5. k[n + 1] = last
    BY <2>3
  <2>6. \A i \in 0..n : h[i] = IF i = 0 THEN BucketOf(f.start, g)
                               ELSE IF h[i - 1] > f.end THEN h[i - 1]
                               ELSE NextBucketStart(h[i - 1], g)
    BY <2>1 DEF Steps
  <2>7. ASSUME NEW i \in 0..(n + 1)
        PROVE  k[i] = IF i = 0 THEN BucketOf(f.start, g)
                      ELSE IF k[i - 1] > f.end THEN k[i - 1]
                      ELSE NextBucketStart(k[i - 1], g)
    <3>1. CASE i = n + 1
      <4>1. k[i - 1] = h[n] /\ i # 0
        BY <2>4, <3>1
      <4> QED
        BY <2>2, <2>5, <3>1, <4>1
    <3>2. CASE i = 0
      <4>1. i \in 0..n
        BY <3>2
      <4> QED
        BY <2>4, <2>6, <3>2, <4>1
    <3>3. CASE i # n + 1 /\ i # 0
      <4>1. i \in 0..n /\ i - 1 \in 0..n
        BY <3>3
      <4>2. k[i] = h[i] /\ k[i - 1] = h[i - 1]
        BY <2>4, <4>1
      <4> QED
        BY <2>6, <3>3, <4>1, <4>2
    <3> QED
      BY <3>1, <3>2, <3>3
  <2>8. k = [i \in 0..(n + 1) |-> k[i]]
    BY <2>3
  <2>9. Steps(k, f, g, n + 1)
    <3>1. k = [i \in 0..(n + 1) |-> IF i = 0 THEN BucketOf(f.start, g)
                                    ELSE IF k[i - 1] > f.end THEN k[i - 1]
                                    ELSE NextBucketStart(k[i - 1], g)]
      BY <2>7, <2>8
    <3> QED
      BY <3>1 DEF Steps
  <2> QED
    BY <2>9
<1> HIDE DEF G
<1>3. \A n \in Nat : n \in G
  BY <1>1, <1>2, NatInductionSet
<1> QED
  BY <1>3 DEF G

LEMMA CursorSteps ==
  ASSUME NEW f, NEW g
  PROVE  Steps(Cursor(f, g), f, g, MaxKeys)
<1>1. PICK h : Steps(h, f, g, MaxKeys)
  BY StepsExist, CalendarIs
<1> DEFINE at == CHOOSE k : Steps(k, f, g, MaxKeys)
<1>2. Steps(at, f, g, MaxKeys)
  BY <1>1
<1>3. Cursor(f, g) = at
  BY DEF Cursor, Steps
<1> QED
  BY <1>2, <1>3

\* A complete list has the bucket of every instant of the period.
LEMMA KeysCover ==
  ASSUME NEW f \in [start : Instant, end : Instant], NEW g \in Grain, ~Truncated(f, g),
         NEW t \in Instant, f.start <= t, t <= f.end
  PROVE  BucketOf(t, g) \in Keys(f, g)
<1>1. PICK N \in Nat : N = MaxKeys
  BY CalendarIs
<1>2. PICK a \in Instant, e \in Instant : a = f.start /\ e = f.end
  OBVIOUS
<1>3. a \in Nat /\ e \in Nat /\ t \in Nat /\ e < CalendarEnd /\ CalendarEnd \in Nat
  BY InstantsAre
<1>4. PICK h : h = Cursor(f, g)
  OBVIOUS
<1>5. /\ h[0] = BucketOf(a, g)
      /\ \A n \in 1..N : h[n] = IF h[n - 1] > e THEN h[n - 1]
                                ELSE NextBucketStart(h[n - 1], g)
  <2>1. h = [i \in 0..N |-> IF i = 0 THEN BucketOf(a, g)
                            ELSE IF h[i - 1] > e THEN h[i - 1]
                            ELSE NextBucketStart(h[i - 1], g)]
    BY <1>1, <1>2, <1>4, CursorSteps DEF Steps
  <2> QED
    BY <2>1
<1>6. \A n \in 0..N : h[n] \in Nat /\ IsStart(h[n], g)
  <2> DEFINE G == {n \in Nat : n <= N => h[n] \in Nat /\ IsStart(h[n], g)}
  <2>1. 0 \in G
    BY <1>2, <1>5, BucketIs
  <2>2. ASSUME NEW n \in Nat, n \in G PROVE n + 1 \in G
    <3> SUFFICES ASSUME n + 1 <= N PROVE h[n + 1] \in Nat /\ IsStart(h[n + 1], g)
      OBVIOUS
    <3>1. h[n] \in Nat /\ IsStart(h[n], g)
      BY <2>2
    <3>2. h[n + 1] = IF h[n] > e THEN h[n] ELSE NextBucketStart(h[n], g)
      <4>1. n + 1 \in 1..N /\ (n + 1) - 1 = n
        OBVIOUS
      <4> QED
        BY <1>5, <4>1
    <3>3. CASE h[n] > e
      BY <3>1, <3>2, <3>3
    <3>4. CASE ~(h[n] > e)
      <4>1. h[n] \in Instant
        BY <1>3, <3>1, <3>4, InstantsAre
      <4> QED
        BY <3>1, <3>2, <3>4, <4>1, NextBucketIs
    <3> QED
      BY <3>3, <3>4
  <2> HIDE DEF G
  <2>3. \A n \in Nat : n \in G
    BY <2>1, <2>2, NatInductionSet
  <2> QED
    BY <2>3 DEF G
<1>7. h[N] > e
  <2>1. ~(h[N] <= e)
    BY <1>1, <1>2, <1>4 DEF Truncated
  <2> QED
    BY <1>3, <1>6, <2>1
<1>8. \E k \in 0..(N - 1) : h[k] <= t /\ BucketOf(t, g) = h[k]
  <2> DEFINE found(n) == \E k \in 0..(n - 1) : h[k] <= t /\ BucketOf(t, g) = h[k]
             G == {n \in Nat : n <= N /\ t < h[n] => found(n)}
  <2>1. 0 \in G
    <3>1. h[0] <= a /\ h[0] \in Nat
      BY <1>2, <1>5, BucketIs
    <3> QED
      BY <1>2, <1>3, <3>1
  <2>2. ASSUME NEW n \in Nat, n \in G PROVE n + 1 \in G
    <3> SUFFICES ASSUME n + 1 <= N, t < h[n + 1] PROVE found(n + 1)
      OBVIOUS
    <3>1. n \in 0..N /\ n \in 0..((n + 1) - 1) /\ n <= N
      OBVIOUS
    <3>2. h[n] \in Nat /\ IsStart(h[n], g)
      BY <1>6, <3>1
    <3>3. CASE t < h[n]
      <4>1. PICK k \in 0..(n - 1) : h[k] <= t /\ BucketOf(t, g) = h[k]
        BY <2>2, <3>1, <3>3
      <4>2. k \in 0..((n + 1) - 1)
        OBVIOUS
      <4> QED
        BY <4>1, <4>2
    <3>4. CASE h[n] <= t
      <4>1. h[n] <= e /\ h[n] \in Instant
        BY <1>2, <1>3, <3>2, <3>4, InstantsAre
      <4>2. h[n + 1] = NextBucketStart(h[n], g)
        <5>1. n + 1 \in 1..N /\ (n + 1) - 1 = n
          OBVIOUS
        <5>2. ~(h[n] > e)
          BY <1>3, <3>2, <4>1
        <5> QED
          BY <1>5, <5>1, <5>2
      <4>3. BucketOf(t, g) = h[n]
        BY <3>2, <3>4, <4>1, <4>2, NextBucketIs
      <4> QED
        BY <3>1, <3>4, <4>3
    <3> QED
      BY <1>3, <3>2, <3>3, <3>4
  <2> HIDE DEF G
  <2>3. N \in G
    BY <2>1, <2>2, NatInductionSet
  <2>4. t < h[N]
    BY <1>2, <1>3, <1>6, <1>7
  <2> QED
    BY <2>3, <2>4 DEF G
<1>9. PICK k \in 0..(N - 1) : h[k] <= t /\ BucketOf(t, g) = h[k]
  BY <1>8
<1>10. h[k] \in Nat
  BY <1>6, <1>9
<1>11. h[k] \in 0..e
  BY <1>2, <1>3, <1>9, <1>10
<1> QED
  BY <1>1, <1>2, <1>4, <1>9, <1>11 DEF Keys

\* A period starts with a day.
LEMMA FrameStarts ==
  ASSUME NEW q \in Query, NEW now \in Instant
  PROVE  \E k \in Nat : Frame(q, now).start = k * DayLen
<1>1. \A d \in Day : \E k \in Nat : DayStart(d) = k * DayLen
  <2> SUFFICES ASSUME NEW t \in Instant
               PROVE  \E k \in Nat : DayStart(t \div DayLen) = k * DayLen
    BY DEF Day
  <2>1. PICK D \in Nat : D = DayLen /\ D > 0
    BY CalendarIs
  <2>2. t \in Nat
    BY InstantsAre
  <2>3. t \div D \in Nat
    BY <2>1, <2>2, Division
  <2> QED
    BY <2>1, <2>3 DEF DayStart
<1>2. \E k \in Nat : 0 = k * DayLen
  <2>1. 0 \in Nat /\ 0 * DayLen = 0
    BY CalendarIs
  <2> QED
    BY <2>1
<1>3. CASE q.kind = "range"
  <2>1. q.from \in Day \cup {NoDay}
    BY <1>3 DEF Query
  <2>2. Frame(q, now).start = IF q.from = NoDay THEN 0 ELSE DayStart(q.from)
    BY <1>3 DEF Frame
  <2> QED
    BY <1>1, <1>2, <2>1, <2>2
<1>4. CASE q.kind = "months"
  <2>1. q.first \in Month
    BY <1>4 DEF Query
  <2>2. Frame(q, now).start = MonthStart[q.first]
    BY <1>4 DEF Frame
  <2>3. q.first \in 1..(Len(MonthDays) + 1)
    BY <2>1, CalendarIs
  <2> QED
    BY <2>2, <2>3, MonthStarts
<1>5. CASE q.kind = "today"
  <2>1. Frame(q, now).start = DayStart(now \div DayLen)
    BY <1>5 DEF Frame
  <2>2. now \div DayLen \in Day
    BY DEF Day
  <2> QED
    BY <1>1, <2>1, <2>2
<1> QED
  BY <1>3, <1>4, <1>5 DEF Query

\* From a start of a bucket, the cursor moves by whole buckets of one length.
LEMMA CursorMoves ==
  ASSUME NEW f \in [start : Instant, end : Instant], NEW g, NEW D \in Nat,
         BucketOf(f.start, g) = f.start,
         \A b : NextBucketStart(b, g) = b + D
  PROVE  \A n \in 0..MaxKeys :
           Cursor(f, g)[n] <= f.end => Cursor(f, g)[n] = f.start + n * D
<1>1. PICK N \in Nat : N = MaxKeys
  BY CalendarIs
<1>2. PICK a \in Nat, e \in Nat : a = f.start /\ e = f.end
  BY InstantsAre
<1>3. PICK h : h = Cursor(f, g)
  OBVIOUS
<1>4. /\ h[0] = a
      /\ \A n \in 1..N : h[n] = IF h[n - 1] > e THEN h[n - 1] ELSE h[n - 1] + D
  <2>1. h = [i \in 0..N |-> IF i = 0 THEN BucketOf(f.start, g)
                            ELSE IF h[i - 1] > e THEN h[i - 1]
                            ELSE NextBucketStart(h[i - 1], g)]
    BY <1>1, <1>2, <1>3, CursorSteps DEF Steps
  <2> QED
    BY <1>2, <2>1
<1> DEFINE G == {n \in Nat : n <= N => /\ h[n] \in Nat
                                       /\ h[n] <= e => h[n] = a + n * D}
<1>5. 0 \in G
  BY <1>4
<1>6. ASSUME NEW n \in Nat, n \in G PROVE n + 1 \in G
  <2> SUFFICES ASSUME n + 1 <= N
               PROVE  h[n + 1] \in Nat /\ (h[n + 1] <= e => h[n + 1] = a + (n + 1) * D)
    OBVIOUS
  <2>1. h[n] \in Nat /\ (h[n] <= e => h[n] = a + n * D)
    BY <1>6
  <2>2. h[n + 1] = IF h[n] > e THEN h[n] ELSE h[n] + D
    <3>1. n + 1 \in 1..N /\ (n + 1) - 1 = n
      OBVIOUS
    <3> QED
      BY <1>4, <3>1
  <2>3. (n + 1) * D = n * D + D
    OBVIOUS
  <2>4. PICK p \in Nat : p = n * D
    BY ProductIsNat
  <2> QED
    BY <2>1, <2>2, <2>3, <2>4
<1> HIDE DEF G
<1>7. \A n \in Nat : n \in G
  BY <1>5, <1>6, NatInductionSet
<1> QED
  BY <1>1, <1>2, <1>3, <1>7 DEF G

\* The bound of the loop never cuts a series by hour or by day short, whatever the
\* query, the clock and the calendar: only a series by month can lose buckets.
THEOREM DailySeriesAreComplete ==
  ASSUME NEW q \in Query, NEW now \in Instant, NEW f, f = Frame(q, now),
         f.start <= f.end, Granularity(f) # "month"
  PROVE  ~Truncated(f, Granularity(f))
<1>1. f \in [start : Instant, end : Instant]
  BY FrameIs
<1>2. PICK a \in Nat, e \in Nat : a = f.start /\ e = f.end /\ a <= e
  BY <1>1, InstantsAre
<1>3. PICK H \in Nat, D \in Nat, M \in Nat, N \in Nat :
        H = HourLen /\ D = DayLen /\ M = MaxDailySpan /\ N = MaxKeys /\ H > 0 /\ D > 0
  BY CalendarIs
<1>4. PICK k \in Nat : a = k * D
  BY <1>2, <1>3, FrameStarts
<1>5. ASSUME NEW g, NEW L \in Nat, L > 0, \E j \in Nat : a = j * L,
             \A t : BucketOf(t, g) = (t \div L) * L,
             \A b : NextBucketStart(b, g) = b + L,
             e - a + 1 <= N * L
      PROVE  ~Truncated(f, g)
  <2>1. BucketOf(f.start, g) = f.start
    <3>1. PICK j \in Nat : a = j * L
      BY <1>5
    <3>2. j * L <= a /\ a < j * L + L
      BY <1>5, <3>1
    <3>3. (a \div L) * L = j * L
      BY <1>5, <3>2, EqualBuckets
    <3> QED
      BY <1>2, <1>5, <3>1, <3>3
  <2>2. \A n \in 0..N : Cursor(f, g)[n] <= e => Cursor(f, g)[n] = a + n * L
    <3>1. \A b : NextBucketStart(b, g) = b + L
      BY <1>5
    <3>2. \A n \in 0..MaxKeys :
            Cursor(f, g)[n] <= f.end => Cursor(f, g)[n] = f.start + n * L
      BY <1>1, <2>1, <3>1, CursorMoves
    <3> QED
      BY <1>2, <1>3, <3>2
  <2>3. Cursor(f, g)[N] <= e => Cursor(f, g)[N] = a + N * L
    <3>1. N \in 0..N
      OBVIOUS
    <3> QED
      BY <2>2, <3>1
  <2>4. PICK p \in Nat : p = N * L
    BY ProductIsNat
  <2>5. ~(a + p <= e)
    BY <1>5, <2>4
  <2> QED
    BY <1>2, <1>3, <2>3, <2>4, <2>5 DEF Truncated
<1>6. CASE Granularity(f) = "hour"
  <2>1. e - a + 1 <= D
    <3>1. Length(f) = e - a + 1
      BY <1>2 DEF Length
    <3>2. PICK y \in Nat : y = M * D
      BY ProductIsNat
    <3>3. ~(e - a + 1 <= D) => Granularity(f) # "hour"
      BY <1>2, <1>3, <3>1, <3>2 DEF Granularity
    <3> QED
      BY <1>6, <3>3
  <2>2. PICK w \in Nat : w = D \div H /\ w <= N /\ D = w * H
    <3>1. D \div H \in Nat /\ D = H * (D \div H) + (D % H) /\ D % H = 0
      BY <1>3, Division, CalendarAssumption DEF CalendarAssumption
    <3>2. PICK w \in Nat : w = D \div H
      BY <3>1
    <3>3. w <= N
      BY <1>3, <3>2, CalendarAssumption DEF CalendarAssumption
    <3>4. H * w \in Nat /\ H * w = w * H
      BY ProductIsNat
    <3>5. D = w * H
      BY <3>1, <3>2, <3>4
    <3> QED
      BY <3>2, <3>3, <3>5
  <2>3. D <= N * H
    BY <2>2, ProductGrows
  <2>4. \E j \in Nat : a = j * H
    <3>1. k * (w * H) = (k * w) * H
      OBVIOUS
    <3>2. k * w \in Nat
      BY ProductIsNat
    <3> QED
      BY <1>4, <2>2, <3>1, <3>2
  <2>5. \A t : BucketOf(t, "hour") = (t \div H) * H
    BY <1>3 DEF BucketOf
  <2>6. \A b : NextBucketStart(b, "hour") = b + H
    BY <1>3 DEF NextBucketStart
  <2>7. e - a + 1 <= N * H
    <3>1. PICK p \in Nat : p = N * H
      BY ProductIsNat
    <3> QED
      BY <2>1, <2>3, <3>1
  <2> QED
    BY <1>3, <1>5, <1>6, <2>4, <2>5, <2>6, <2>7
<1>7. CASE Granularity(f) = "day"
  <2>1. e - a + 1 <= M * D
    <3>1. Length(f) = e - a + 1
      BY <1>2 DEF Length
    <3>2. PICK y \in Nat : y = M * D
      BY ProductIsNat
    <3>3. ~(e - a + 1 <= y) => Granularity(f) # "day"
      BY <1>2, <1>3, <3>1, <3>2 DEF Granularity
    <3> QED
      BY <1>7, <3>2, <3>3
  <2>2. M <= N
    BY <1>3, CalendarAssumption DEF CalendarAssumption
  <2>3. M * D <= N * D
    BY <2>2, ProductGrows
  <2>4. \A t : BucketOf(t, "day") = (t \div D) * D
    BY <1>3 DEF BucketOf
  <2>5. \A b : NextBucketStart(b, "day") = b + D
    BY <1>3 DEF NextBucketStart
  <2>6. e - a + 1 <= N * D
    <3>1. PICK p \in Nat, y \in Nat : p = N * D /\ y = M * D
      BY ProductIsNat
    <3> QED
      BY <2>1, <2>3, <3>1
  <2> QED
    BY <1>3, <1>4, <1>5, <1>7, <2>4, <2>5, <2>6
<1> QED
  BY <1>1, <1>6, <1>7, GranularityIs DEF Grain

-------------------------------------------------------------------------------
(* The inductive invariant.  In, RevenueIn and RowsIn are Matching, Revenue *)
(* and the rows of the report over the documents S.                         *)

Period == [start : Instant, end : Instant]

Scope == Regions \cup {"all"}

In(S, f, g) ==
  {s \in Sale : /\ S[s].status = "completed"
                /\ S[s].at >= f.start /\ S[s].at <= f.end
                /\ g = "all" \/ SomeIn(S[s].lines, g)}

RevenueIn(S, P, g) ==
  Lines(P, LAMBDA s : TotalReported(S[s].total, S[s].lines, g))

BucketIn(S, f, g, b) ==
  {s \in In(S, f, g) : BucketOf(S[s].at, Granularity(f)) = b}

RowsIn(S, f, g) ==
  [b \in Keys(f, Granularity(f)) |-> RevenueIn(S, BucketIn(S, f, g, b), g)]

Rows == {<<>>} \cup UNION {[B -> Nat] : B \in SUBSET Instant}

Request == [phase : {"reading"}, frame : Period, elapsed : Period, region : Scope,
            todo : SUBSET {"rows", "current"}, rows : Rows, current : Nat,
            calm : BOOLEAN]

Documents == [Sale -> {NoSale} \cup Doc]

Shapes ==
  /\ clock \in Instant
  /\ sale \in Documents
  /\ report = NoReport \/ report \in Request

\* No sale is dated later than the clock and the tolerance.
NotFarAhead == \A s \in Sale : Made(s) => sale[s].at <= clock + FutureTolerance

\* The total of a sale is what its lines say.
LinesStand ==
  \A s \in Sale : Made(s) =>
    IF sale[s].old THEN sale[s].total = OldTotal(sale[s].lines)
    ELSE Divided(sale[s].total, sale[s].lines)

\* What has elapsed of a period begins with it and, until a sale changes, has all
\* the sales of it but those of the tolerance.
PeriodStands ==
  report # NoReport =>
    /\ report.elapsed.start = report.frame.start
    /\ report.frame.start <= report.elapsed.end
    /\ report.elapsed.end <= report.frame.end
    /\ report.calm /\ report.elapsed.end < report.frame.end =>
         \A s \in Sale : Made(s) =>
           sale[s].at <= report.elapsed.end + FutureTolerance

\* Until a sale changes, what was read is still so.
ReadingsStand ==
  report # NoReport /\ report.calm =>
    /\ "rows" \notin report.todo =>
         report.rows = RowsIn(sale, report.frame, report.region)
    /\ "current" \notin report.todo =>
         report.current = RevenueIn(sale, In(sale, report.elapsed, report.region),
                                    report.region)

IInv == Shapes /\ NotFarAhead /\ LinesStand /\ PeriodStands /\ ReadingsStand

-------------------------------------------------------------------------------
(* What a request reads.                                                   *)

\* A sale that was made is a document.
LEMMA MadeIs ==
  ASSUME NEW S \in Documents, NEW s \in Sale, S[s] # NoSale
  PROVE  /\ S[s] \in Doc
         /\ S[s].at \in Instant /\ S[s].total \in Nat /\ S[s].lines \in Seq(Line)
BY DEF Documents, Doc

\* What a report counts of a sale is an amount.
LEMMA ReportedIs ==
  ASSUME NEW total \in Nat, NEW lines \in Seq(Line), NEW g \in Scope
  PROVE  TotalReported(total, lines, g) \in Nat
<1>1. CASE g = "all"
  BY <1>1 DEF TotalReported
<1>2. CASE g # "all"
  <2>1. g \in Codes
    BY <1>2 DEF Scope, Codes
  <2>2. WeightsOf(lines, CodesInReports(lines)) \in Weighing
    BY WeightsAre
  <2>3. RegionRevenue(total, WeightsOf(lines, CodesInReports(lines)), g) \in Nat
    BY <2>1, <2>2, RevenueType
  <2> QED
    BY <1>2, <2>3 DEF TotalReported, WeightsOf
<1> QED
  BY <1>1, <1>2

\* The sales of a period are documents of it.
LEMMA InIs ==
  ASSUME NEW S \in Documents, NEW f, NEW g
  PROVE  /\ In(S, f, g) \subseteq Sale
         /\ IsFiniteSet(In(S, f, g))
         /\ \A s \in In(S, f, g) : S[s] # NoSale /\ S[s].at >= f.start /\ S[s].at <= f.end
<1>1. In(S, f, g) \subseteq Sale
  BY DEF In
<1>2. IsFiniteSet(Sale)
  BY ReportsAssumption DEF ReportsAssumption
<1>3. IsFiniteSet(In(S, f, g))
  BY <1>1, <1>2, FS_Subset
<1>4. \A s \in In(S, f, g) : /\ S[s].status = "completed"
                             /\ S[s].at >= f.start /\ S[s].at <= f.end
  BY DEF In
<1>5. NoSale.status # "completed"
  BY DEF NoSale
<1> QED
  BY <1>1, <1>3, <1>4, <1>5

\* The revenue of a set of sales is the sum of what is reported of each.
LEMMA RevenueIs ==
  ASSUME NEW S \in Documents, NEW g \in Scope, NEW P \in SUBSET Sale,
         \A s \in P : S[s] # NoSale, NEW v,
         \A s \in P : v[s] = TotalReported(S[s].total, S[s].lines, g)
  PROVE  /\ RevenueIn(S, P, g) = SumOver(v, P)
         /\ RevenueIn(S, P, g) \in Nat
         /\ \A s \in P : v[s] \in Nat
<1> DEFINE u == [s \in P |-> TotalReported(S[s].total, S[s].lines, g)]
<1>1. IsFiniteSet(P)
  BY FS_Subset, ReportsAssumption DEF ReportsAssumption
<1>2. RevenueIn(S, P, g) = SumOver(u, P)
  BY DEF RevenueIn, Lines
<1>3. \A s \in P : u[s] = v[s]
  OBVIOUS
<1>4. \A s \in P : v[s] \in Nat
  <2> TAKE s \in P
  <2>1. S[s].total \in Nat /\ S[s].lines \in Seq(Line)
    BY MadeIs
  <2>2. TotalReported(S[s].total, S[s].lines, g) \in Nat
    BY <2>1, ReportedIs
  <2> QED
    BY <2>2
<1> HIDE DEF u
<1>5. SumOver(u, P) = SumOver(v, P)
  BY <1>1, <1>3, SumSame
<1>6. SumOver(v, P) \in Nat
  BY <1>1, <1>4, SumNat
<1> QED
  BY <1>2, <1>4, <1>5, <1>6

\* The buckets of a period are finitely many, each at an instant.
LEMMA KeysAre ==
  ASSUME NEW f \in Period
  PROVE  /\ Keys(f, Granularity(f)) \subseteq Instant
         /\ IsFiniteSet(Keys(f, Granularity(f)))
<1>1. PICK e \in Instant : e = f.end
  BY DEF Period
<1>2. e \in Nat /\ e < CalendarEnd /\ CalendarEnd \in Nat
  BY <1>1, InstantsAre
<1>3. Keys(f, Granularity(f)) \subseteq 0..e
  BY <1>1 DEF Keys
<1>4. \A t \in 0..e : t \in Instant
  BY <1>2, InstantsAre
<1>5. IsFiniteSet(0..e)
  BY <1>2, FS_Interval
<1> QED
  BY <1>3, <1>4, <1>5, FS_Subset

\* The rows have an amount for every bucket.
LEMMA RowsAre ==
  ASSUME NEW S \in Documents, NEW f \in Period, NEW g \in Scope
  PROVE  /\ DOMAIN RowsIn(S, f, g) = Keys(f, Granularity(f))
         /\ \A b \in Keys(f, Granularity(f)) :
              RowsIn(S, f, g)[b] = RevenueIn(S, BucketIn(S, f, g, b), g)
         /\ RowsIn(S, f, g) \in Rows
<1>1. PICK K : K = Keys(f, Granularity(f))
  OBVIOUS
<1>2. K \in SUBSET Instant
  BY <1>1, KeysAre
<1>3. ASSUME NEW b PROVE RevenueIn(S, BucketIn(S, f, g, b), g) \in Nat
  <2>1. PICK P : P = BucketIn(S, f, g, b)
    OBVIOUS
  <2>2. P \in SUBSET Sale /\ \A s \in P : S[s] # NoSale
    BY <2>1, InIs DEF BucketIn
  <2>3. PICK v : v = [s \in P |-> TotalReported(S[s].total, S[s].lines, g)]
    OBVIOUS
  <2>4. \A s \in P : v[s] = TotalReported(S[s].total, S[s].lines, g)
    BY <2>3
  <2> QED
    BY <2>1, <2>2, <2>4, RevenueIs
<1> DEFINE r(b) == RevenueIn(S, BucketIn(S, f, g, b), g)
<1>4. RowsIn(S, f, g) = [b \in K |-> r(b)]
  BY <1>1 DEF RowsIn
<1>5. \A b : r(b) \in Nat
  BY <1>3
<1> HIDE DEF r
<1>6. [b \in K |-> r(b)] \in [K -> Nat]
  BY <1>5
<1>7. [b \in K |-> r(b)] \in Rows
  BY <1>2, <1>6 DEF Rows
<1> QED
  BY <1>1, <1>4, <1>7 DEF r

\* The rows of a complete list of buckets add up to the revenue of the period.
LEMMA RowsAddUp ==
  ASSUME NEW S \in Documents, NEW f \in Period, NEW g \in Scope,
         ~Truncated(f, Granularity(f)), NEW rows, rows = RowsIn(S, f, g)
  PROVE  SumOver([b \in DOMAIN rows |-> rows[b]], DOMAIN rows)
           = RevenueIn(S, In(S, f, g), g)
<1>1. PICK K, P : K = Keys(f, Granularity(f)) /\ P = In(S, f, g)
  OBVIOUS
<1>2. IsFiniteSet(K) /\ IsFiniteSet(P) /\ P \in SUBSET Sale
  BY <1>1, KeysAre, InIs
<1>3. \A s \in P : S[s] # NoSale
  BY <1>1, InIs
<1>4. PICK v : v = [s \in P |-> TotalReported(S[s].total, S[s].lines, g)]
  OBVIOUS
<1>5. PICK h : h = [s \in P |-> BucketOf(S[s].at, Granularity(f))]
  OBVIOUS
<1>6. \A s \in P : v[s] = TotalReported(S[s].total, S[s].lines, g)
  BY <1>4
<1>7. \A s \in P : h[s] = BucketOf(S[s].at, Granularity(f))
  BY <1>5
<1>8. \A s \in P : h[s] \in K
  <2> TAKE s \in P
  <2>1. S[s].at \in Instant /\ S[s].at >= f.start /\ S[s].at <= f.end
    BY <1>1, <1>2, <1>3, InIs, MadeIs
  <2>2. PICK t \in Instant : t = S[s].at /\ t >= f.start /\ t <= f.end
    BY <2>1
  <2>3. f.start \in Nat /\ t \in Nat
    BY InstantsAre DEF Period
  <2>4. f.start <= t
    BY <2>2, <2>3
  <2>5. Granularity(f) \in Grain /\ f \in [start : Instant, end : Instant]
    BY GranularityIs DEF Period
  <2>6. BucketOf(t, Granularity(f)) \in Keys(f, Granularity(f))
    BY <2>2, <2>4, <2>5, KeysCover
  <2> QED
    BY <1>1, <1>7, <2>2, <2>6
<1>9. RevenueIn(S, P, g) = SumOver(v, P) /\ \A s \in P : v[s] \in Nat
  BY <1>2, <1>3, <1>6, RevenueIs
<1>10. PICK w : w = [k \in K |-> SumOver(v, {s \in P : h[s] = k})]
  OBVIOUS
<1>11. SumOver(w, K) = SumOver(v, P)
  <2>1. \A s \in P : v[s] \in Int
    BY <1>9
  <2>2. SumOver([k \in K |-> SumOver(v, {s \in P : h[s] = k})], K) = SumOver(v, P)
    BY <1>2, <1>8, <2>1, SumClasses
  <2> QED
    BY <1>10, <2>2
<1>12. \A k \in K : rows[k] = w[k]
  <2> TAKE k \in K
  <2>1. PICK Q : Q = {s \in P : h[s] = k}
    OBVIOUS
  <2>2. Q = BucketIn(S, f, g, k)
    BY <1>1, <1>7, <2>1 DEF BucketIn
  <2>3. Q \in SUBSET Sale /\ \A s \in Q : S[s] # NoSale
    BY <1>2, <1>3, <2>1
  <2>4. \A s \in Q : v[s] = TotalReported(S[s].total, S[s].lines, g)
    BY <1>6, <2>1
  <2>5. RevenueIn(S, Q, g) = SumOver(v, Q)
    BY <2>3, <2>4, RevenueIs
  <2>6. rows[k] = RevenueIn(S, Q, g)
    BY <1>1, <2>2, RowsAre
  <2>7. w[k] = SumOver(v, Q)
    BY <1>10, <2>1
  <2> QED
    BY <2>5, <2>6, <2>7
<1>13. DOMAIN rows = K
  BY <1>1, RowsAre
<1>14. PICK u : u = [b \in K |-> rows[b]]
  OBVIOUS
<1>15. SumOver(u, K) = SumOver(w, K)
  <2>1. \A k \in K : u[k] = w[k]
    BY <1>12, <1>14
  <2> QED
    BY <1>2, <2>1, SumSame
<1> QED
  BY <1>1, <1>9, <1>11, <1>13, <1>14, <1>15

-------------------------------------------------------------------------------
(* The invariant holds initially and is kept by every step.                *)

\* The lines of an old sale add up to an amount.
LEMMA OldTotalIs ==
  ASSUME NEW lines \in Seq(Line)
  PROVE  OldTotal(lines) \in Nat
<1>1. PICK v : v = [i \in DOMAIN lines |-> lines[i].subtotal]
  OBVIOUS
<1>2. IsFiniteSet(DOMAIN lines) /\ \A i \in DOMAIN lines : v[i] \in Nat
  BY <1>1, LinesAre
<1>3. PICK u \in Nat : u = SumOver(v, DOMAIN lines)
  BY <1>2, SumNat
<1>4. OldTotal(lines) = Round(u)
  BY <1>1, <1>3 DEF OldTotal, Lines
<1>5. Round(u) \in Nat
  <2>1. PICK c \in Nat : c = Cent /\ c > 0
    BY SharesAssumption DEF SharesAssumption
  <2>2. PICK q \in Int : q = Round(u)
    <3>1. u \in Int
      OBVIOUS
    <3> QED
      BY <3>1, RoundIs
  <2>3. PICK p \in Int : p = c * q
    OBVIOUS
  <2>4. 2 * p - 2 * u >= 1 - c
    BY <2>1, <2>2, <2>3, RoundNear
  <2>5. c * (-1) < c * q
    BY <2>1, <2>3, <2>4
  <2>6. -1 < q
    BY <2>5, FactorLess
  <2> QED
    BY <2>2, <2>6
<1> QED
  BY <1>4, <1>5

LEMMA InvInit == Init => IInv
<1> SUFFICES ASSUME Init PROVE IInv
  OBVIOUS
<1>1. clock = 0 /\ report = NoReport
  BY DEF Init
<1>2. 0 \in Instant
  BY InstantsAre
<1>3. DOMAIN sale = Sale
  BY DEF Init
<1>4. ASSUME NEW s \in Sale
      PROVE  \/ sale[s] = NoSale
             \/ /\ sale[s] \in Doc /\ sale[s].at = 0 /\ sale[s].old
                /\ sale[s].total = OldTotal(sale[s].lines)
  <2>1. CASE sale[s] = NoSale
    BY <2>1
  <2>2. CASE sale[s] # NoSale
    <3>1. PICK lines \in OldLines :
            sale[s] = [status |-> "completed", at |-> 0, lines |-> lines,
                       total |-> OldTotal(lines), old |-> TRUE]
      BY <2>2 DEF Init
    <3>2. lines \in Seq(Line)
      BY ReportsAssumption DEF ReportsAssumption
    <3>3. OldTotal(lines) \in Nat
      BY <3>2, OldTotalIs
    <3>4. sale[s] \in Doc
      BY <1>2, <3>1, <3>2, <3>3 DEF Doc
    <3> QED
      BY <3>1, <3>4
  <2> QED
    BY <2>1, <2>2
<1>5. sale \in Documents
  <2>1. \A s \in Sale : sale[s] \in {NoSale} \cup Doc
    BY <1>4
  <2>2. sale = [s \in Sale |-> sale[s]]
    BY <1>3 DEF Init
  <2> QED
    BY <2>1, <2>2 DEF Documents
<1>6. Shapes
  BY <1>1, <1>2, <1>5 DEF Shapes
<1>7. NotFarAhead
  <2>1. FutureTolerance \in Nat
    BY ReportsAssumption DEF ReportsAssumption
  <2> QED
    BY <1>1, <1>4, <2>1 DEF NotFarAhead, Made
<1>8. LinesStand
  BY <1>4 DEF LinesStand, Made
<1>9. PeriodStands /\ ReadingsStand
  BY <1>1 DEF PeriodStands, ReadingsStand
<1> QED
  BY <1>6, <1>7, <1>8, <1>9 DEF IInv

\* A sale that is made, edited or voided: its document is one, it is dated
\* within the tolerance, its lines say its total, and the report is disturbed.
LEMMA SaleChanges ==
  ASSUME IInv, NEW s \in Sale, NEW doc \in Doc,
         sale' = [sale EXCEPT ![s] = doc],
         doc.at <= clock + FutureTolerance,
         IF doc.old THEN doc.total = OldTotal(doc.lines)
         ELSE Divided(doc.total, doc.lines),
         report' = Disturbed, clock' = clock
  PROVE  IInv'
<1>1. Shapes /\ NotFarAhead /\ LinesStand /\ PeriodStands
  BY DEF IInv
<1>2. sale \in Documents /\ clock \in Instant /\ (report = NoReport \/ report \in Request)
  BY <1>1 DEF Shapes
<1>3. /\ DOMAIN sale' = Sale /\ sale'[s] = doc
      /\ \A x \in Sale \ {s} : sale'[x] = sale[x]
  BY <1>2 DEF Documents
<1>4. sale' \in Documents
  BY <1>2 DEF Documents
<1>5. \/ report = NoReport /\ report' = NoReport
      \/ /\ report \in Request /\ report' \in Request /\ ~report'.calm
         /\ report'.frame = report.frame /\ report'.elapsed = report.elapsed
         /\ report # NoReport
  <2>1. CASE report = NoReport
    BY <2>1 DEF Disturbed
  <2>2. CASE report # NoReport
    <3>1. report \in Request /\ report' = [report EXCEPT !.calm = FALSE]
      BY <1>2, <2>2 DEF Disturbed
    <3> QED
      BY <2>2, <3>1 DEF Request
  <2> QED
    BY <2>1, <2>2
<1>6. Shapes'
  BY <1>2, <1>4, <1>5 DEF Shapes
<1>7. NotFarAhead'
  <2>1. \A x \in Sale : sale'[x] # NoSale => sale'[x].at <= clock + FutureTolerance
    BY <1>1, <1>3 DEF NotFarAhead, Made
  <2> QED
    BY <2>1 DEF NotFarAhead, Made
<1>8. LinesStand'
  <2>1. ASSUME NEW x \in Sale, sale'[x] # NoSale
        PROVE  IF sale'[x].old THEN sale'[x].total = OldTotal(sale'[x].lines)
               ELSE Divided(sale'[x].total, sale'[x].lines)
    <3>1. CASE x = s
      BY <1>3, <3>1
    <3>2. CASE x # s
      BY <1>1, <1>3, <2>1, <3>2 DEF LinesStand, Made
    <3> QED
      BY <3>1, <3>2
  <2> QED
    BY <2>1 DEF LinesStand, Made
<1>9. PeriodStands'
  BY <1>1, <1>5 DEF PeriodStands
<1>10. ReadingsStand'
  BY <1>5 DEF ReadingsStand
<1> QED
  BY <1>6, <1>7, <1>8, <1>9, <1>10 DEF IInv

LEMMA SellKeeps ==
  ASSUME IInv, NEW s \in Sale, NEW basket \in Basket, NEW discount \in Discount,
         NEW added \in Added, NEW at \in Instant, Sell(s, basket, discount, added, at)
  PROVE  IInv'
<1>1. PICK lines, total : /\ lines = Priced(basket, discount, added)
                          /\ total = Total(basket, discount, added)
  OBVIOUS
<1>2. lines \in Seq(Line) /\ Divided(total, lines)
  BY <1>1, PricedIs DEF Sell
<1>3. total \in Nat
  <2>1. total \in Int /\ total >= 0
    BY <1>1, NetsAreNear DEF Sell
  <2> QED
    BY <2>1
<1>4. PICK doc : doc = [status |-> "completed", at |-> at, lines |-> lines,
                        total |-> total, old |-> FALSE]
  OBVIOUS
<1>5. doc \in Doc
  BY <1>2, <1>3, <1>4 DEF Doc
<1>6. /\ sale' = [sale EXCEPT ![s] = doc] /\ at <= clock + FutureTolerance
      /\ report' = Disturbed /\ clock' = clock
  BY <1>1, <1>4 DEF Sell
<1>7. doc.at <= clock + FutureTolerance
  BY <1>4, <1>6
<1>8. IF doc.old THEN doc.total = OldTotal(doc.lines)
      ELSE Divided(doc.total, doc.lines)
  BY <1>2, <1>4
<1> QED
  BY <1>5, <1>6, <1>7, <1>8, SaleChanges

\* A sale that can be edited or voided is a document that the invariant is about.
LEMMA CompletedIs ==
  ASSUME IInv, NEW s \in Sale, sale[s].status = "completed"
  PROVE  /\ sale[s] \in Doc /\ sale[s].at <= clock + FutureTolerance
         /\ IF sale[s].old THEN sale[s].total = OldTotal(sale[s].lines)
            ELSE Divided(sale[s].total, sale[s].lines)
<1>1. sale[s] # NoSale
  BY DEF NoSale
<1> QED
  BY <1>1, MadeIs DEF IInv, Shapes, NotFarAhead, LinesStand, Made

LEMMA EditKeeps ==
  ASSUME IInv, NEW s \in Sale, NEW basket \in Basket, NEW discount \in Discount,
         NEW added \in Added, Edit(s, basket, discount, added)
  PROVE  IInv'
<1>1. PICK lines, total : /\ lines = Priced(basket, discount, added)
                          /\ total = Total(basket, discount, added)
  OBVIOUS
<1>2. lines \in Seq(Line) /\ Divided(total, lines)
  BY <1>1, PricedIs DEF Edit
<1>3. total \in Nat
  <2>1. total \in Int /\ total >= 0
    BY <1>1, NetsAreNear DEF Edit
  <2> QED
    BY <2>1
<1>4. PICK old : old \in Doc /\ old = sale[s] /\ old.at <= clock + FutureTolerance
  BY CompletedIs DEF Edit
<1>5. PICK doc : doc = [old EXCEPT !.lines = lines, !.total = total, !.old = FALSE]
  OBVIOUS
<1>6. doc \in Doc /\ doc.at = old.at /\ doc.lines = lines /\ doc.total = total /\ ~doc.old
  BY <1>2, <1>3, <1>4, <1>5 DEF Doc
<1>7. sale' = [sale EXCEPT ![s] = doc]
  <2>1. sale \in Documents
    BY DEF IInv, Shapes
  <2>2. sale' = [sale EXCEPT ![s].lines = lines, ![s].total = total, ![s].old = FALSE]
    BY <1>1 DEF Edit
  <2> QED
    BY <1>4, <1>5, <2>1, <2>2 DEF Documents, Doc
<1>8. report' = Disturbed /\ clock' = clock
  BY DEF Edit
<1> QED
  BY <1>2, <1>4, <1>6, <1>7, <1>8, SaleChanges

LEMMA VoidKeeps ==
  ASSUME IInv, NEW s \in Sale, Void(s)
  PROVE  IInv'
<1>1. PICK old : /\ old \in Doc /\ old = sale[s] /\ old.at <= clock + FutureTolerance
                 /\ IF old.old THEN old.total = OldTotal(old.lines)
                    ELSE Divided(old.total, old.lines)
  BY CompletedIs DEF Void
<1>2. PICK doc : doc = [old EXCEPT !.status = "voided"]
  OBVIOUS
<1>3. /\ doc \in Doc /\ doc.at = old.at /\ doc.lines = old.lines
      /\ doc.total = old.total /\ doc.old = old.old
  BY <1>1, <1>2 DEF Doc
<1>4. sale' = [sale EXCEPT ![s] = doc]
  <2>1. sale \in Documents
    BY DEF IInv, Shapes
  <2>2. sale' = [sale EXCEPT ![s].status = "voided"]
    BY DEF Void
  <2> QED
    BY <1>1, <1>2, <2>1, <2>2 DEF Documents
<1>5. report' = Disturbed /\ clock' = clock
  BY DEF Void
<1> QED
  BY <1>1, <1>3, <1>4, <1>5, SaleChanges

LEMMA TickKeeps ==
  ASSUME IInv, Tick
  PROVE  IInv'
<1>1. /\ clock \in Instant /\ clock < MaxTime /\ clock' = clock + 1
      /\ sale' = sale /\ report' = report
  BY DEF Tick, IInv, Shapes
<1>2. MaxTime \in Instant
  BY ReportsAssumption DEF ReportsAssumption
<1>3. clock' \in Instant /\ clock' >= clock
  BY <1>1, <1>2, InstantsAre
<1>4. Shapes'
  BY <1>1, <1>3 DEF IInv, Shapes
<1>5. NotFarAhead'
  <2>1. ASSUME NEW s \in Sale, sale[s] # NoSale PROVE sale[s].at <= clock' + FutureTolerance
    <3>1. sale[s].at \in Instant /\ sale[s].at <= clock + FutureTolerance
      BY <2>1, MadeIs DEF IInv, Shapes, NotFarAhead, Made
    <3>2. sale[s].at \in Nat /\ clock \in Nat /\ clock' \in Nat /\ FutureTolerance \in Nat
      BY <1>1, <1>3, <3>1, InstantsAre, ReportsAssumption DEF ReportsAssumption
    <3> QED
      BY <1>3, <3>1, <3>2
  <2> QED
    BY <1>1, <2>1 DEF NotFarAhead, Made
<1>6. LinesStand' /\ PeriodStands' /\ ReadingsStand'
  BY <1>1 DEF IInv, LinesStand, PeriodStands, ReadingsStand, Made
<1> QED
  BY <1>4, <1>5, <1>6 DEF IInv

LEMMA AskKeeps ==
  ASSUME IInv, NEW q \in Query, NEW g \in Scope, Ask(q, g)
  PROVE  IInv'
<1>1. clock \in Instant
  BY DEF IInv, Shapes
<1>2. PICK f, e : f = Frame(q, clock) /\ e = Elapsed(f, clock)
  OBVIOUS
<1>3. f.start <= f.end
  BY <1>2 DEF Ask
<1>4. f \in Period
  BY <1>1, <1>2, <1>3, FrameIs DEF Period
<1>5. /\ e \in Period /\ e.start = f.start /\ f.start <= e.end /\ e.end <= f.end
      /\ e.end < f.end => e.end = clock
  BY <1>1, <1>2, <1>3, <1>4, ElapsedIs DEF Period
<1>6. /\ report' = [phase |-> "reading", frame |-> f, elapsed |-> e, region |-> g,
                    todo |-> {"rows", "current"}, rows |-> <<>>, current |-> 0,
                    calm |-> TRUE]
      /\ sale' = sale /\ clock' = clock
  BY <1>2 DEF Ask
<1>7. report' \in Request
  <2>1. <<>> \in Rows
    BY DEF Rows
  <2> QED
    BY <1>4, <1>5, <1>6, <2>1 DEF Request
<1>8. Shapes'
  BY <1>6, <1>7 DEF IInv, Shapes
<1>9. NotFarAhead' /\ LinesStand'
  BY <1>6 DEF IInv, NotFarAhead, LinesStand, Made
<1>10. PeriodStands'
  <2>1. e.end < f.end => \A s \in Sale : sale[s] # NoSale =>
                         sale[s].at <= e.end + FutureTolerance
    BY <1>5 DEF IInv, NotFarAhead, Made
  <2>2. /\ report'.frame = f /\ report'.elapsed = e
    BY <1>6
  <2> QED
    BY <1>5, <1>6, <2>1, <2>2 DEF PeriodStands, Made
<1>11. ReadingsStand'
  <2>1. report'.todo = {"rows", "current"}
    BY <1>6
  <2> QED
    BY <2>1 DEF ReadingsStand
<1> QED
  BY <1>8, <1>9, <1>10, <1>11 DEF IInv

LEMMA ReadRowsKeeps ==
  ASSUME IInv, ReadRows
  PROVE  IInv'
<1>1. sale \in Documents /\ report \in Request
  BY DEF IInv, Shapes, ReadRows
<1>2. PICK f, g : /\ f = report.frame /\ f \in Period
                  /\ g = report.region /\ g \in Scope
  BY <1>1 DEF Request
<1>3. PICK rows : rows = RowsIn(sale, f, g) /\ rows \in Rows
  BY <1>1, <1>2, RowsAre
<1>4. /\ report' = [report EXCEPT !.todo = report.todo \ {"rows"}, !.rows = rows]
      /\ sale' = sale /\ clock' = clock
  <2>1. rows = [b \in Keys(f, Granularity(f)) |->
                  Revenue({s \in Matching(f, g) : BucketOf(sale[s].at, Granularity(f)) = b},
                          g)]
    BY <1>3 DEF RowsIn, RevenueIn, BucketIn, In, Revenue, Matching
  <2> QED
    BY <1>2, <2>1 DEF ReadRows
<1>5. /\ report' \in Request /\ report # NoReport
      /\ report'.frame = f /\ report'.elapsed = report.elapsed
      /\ report'.region = g /\ report'.calm = report.calm
      /\ report'.current = report.current /\ report'.rows = rows
      /\ report'.todo = report.todo \ {"rows"}
  <2>1. PICK todo : todo = report.todo \ {"rows"} /\ todo \in SUBSET {"rows", "current"}
    BY <1>1 DEF Request
  <2>2. report' = [report EXCEPT !.todo = todo, !.rows = rows]
    BY <1>4, <2>1
  <2>3. report # NoReport
    BY DEF ReadRows
  <2> QED
    BY <1>1, <1>2, <1>3, <2>1, <2>2, <2>3 DEF Request
<1>6. Shapes'
  BY <1>4, <1>5 DEF IInv, Shapes
<1>7. NotFarAhead' /\ LinesStand'
  BY <1>4 DEF IInv, NotFarAhead, LinesStand, Made
<1>8. PeriodStands'
  BY <1>2, <1>4, <1>5 DEF IInv, PeriodStands, Made
<1>9. ReadingsStand'
  <2>1. report'.calm /\ "current" \notin report'.todo =>
          report'.current = RevenueIn(sale, In(sale, report.elapsed, g), g)
    BY <1>2, <1>5 DEF IInv, ReadingsStand
  <2>2. report'.rows = RowsIn(sale', report'.frame, report'.region)
    BY <1>3, <1>4, <1>5
  <2> QED
    BY <1>4, <1>5, <2>1, <2>2 DEF ReadingsStand
<1> QED
  BY <1>6, <1>7, <1>8, <1>9 DEF IInv

LEMMA ReadCurrentKeeps ==
  ASSUME IInv, ReadCurrent
  PROVE  IInv'
<1>1. sale \in Documents /\ report \in Request
  BY DEF IInv, Shapes, ReadCurrent
<1>2. PICK e, g : /\ e = report.elapsed /\ e \in Period
                  /\ g = report.region /\ g \in Scope
  BY <1>1 DEF Request
<1>3. PICK P : P = In(sale, e, g)
  OBVIOUS
<1>4. PICK n : n = RevenueIn(sale, P, g) /\ n \in Nat
  <2>1. P \in SUBSET Sale /\ \A s \in P : sale[s] # NoSale
    BY <1>1, <1>3, InIs
  <2>2. PICK v : v = [s \in P |-> TotalReported(sale[s].total, sale[s].lines, g)]
    OBVIOUS
  <2>3. \A s \in P : v[s] = TotalReported(sale[s].total, sale[s].lines, g)
    BY <2>2
  <2> QED
    BY <1>1, <1>2, <2>1, <2>3, RevenueIs
<1>5. /\ report' = [report EXCEPT !.todo = report.todo \ {"current"}, !.current = n]
      /\ sale' = sale /\ clock' = clock
  <2>1. n = Revenue(Matching(e, g), g)
    BY <1>3, <1>4 DEF RevenueIn, In, Revenue, Matching
  <2> QED
    BY <1>2, <2>1 DEF ReadCurrent
<1>6. /\ report' \in Request /\ report # NoReport
      /\ report'.frame = report.frame /\ report'.elapsed = e
      /\ report'.region = g /\ report'.calm = report.calm
      /\ report'.current = n /\ report'.rows = report.rows
      /\ report'.todo = report.todo \ {"current"}
  <2>1. PICK todo : todo = report.todo \ {"current"} /\ todo \in SUBSET {"rows", "current"}
    BY <1>1 DEF Request
  <2>2. report' = [report EXCEPT !.todo = todo, !.current = n]
    BY <1>5, <2>1
  <2>3. report # NoReport
    BY DEF ReadCurrent
  <2> QED
    BY <1>1, <1>2, <1>4, <2>1, <2>2, <2>3 DEF Request
<1>7. Shapes'
  BY <1>5, <1>6 DEF IInv, Shapes
<1>8. NotFarAhead' /\ LinesStand'
  BY <1>5 DEF IInv, NotFarAhead, LinesStand, Made
<1>9. PeriodStands'
  BY <1>2, <1>5, <1>6 DEF IInv, PeriodStands, Made
<1>10. ReadingsStand'
  <2>1. report'.calm /\ "rows" \notin report'.todo =>
          report'.rows = RowsIn(sale, report.frame, g)
    BY <1>2, <1>6 DEF IInv, ReadingsStand
  <2>2. report'.current = RevenueIn(sale', In(sale', report'.elapsed, report'.region),
                                    report'.region)
    BY <1>3, <1>4, <1>5, <1>6
  <2> QED
    BY <1>5, <1>6, <2>1, <2>2 DEF ReadingsStand
<1> QED
  BY <1>7, <1>8, <1>9, <1>10 DEF IInv

LEMMA InvHolds == Spec => []IInv
<1>1. IInv /\ [Next]_vars => IInv'
  <2> SUFFICES ASSUME IInv, [Next]_vars PROVE IInv'
    OBVIOUS
  <2>1. ASSUME SaleStep PROVE IInv'
    <3>1. PICK s \in Sale :
            \/ \E basket \in Basket, discount \in Discount, added \in Added :
                 \/ \E at \in Instant : Sell(s, basket, discount, added, at)
                 \/ Edit(s, basket, discount, added)
            \/ Void(s)
      BY <2>1 DEF SaleStep
    <3> QED
      BY <3>1, SellKeeps, EditKeeps, VoidKeeps
  <2>2. ASSUME ReportStep PROVE IInv'
    BY <2>2, AskKeeps, ReadRowsKeeps, ReadCurrentKeeps DEF ReportStep, Scope
  <2>3. CASE UNCHANGED vars
    BY <2>3 DEF vars, IInv, Shapes, NotFarAhead, LinesStand, PeriodStands, ReadingsStand, Made
  <2> QED
    BY <2>1, <2>2, <2>3, TickKeeps DEF Next
<1> QED
  BY InvInit, <1>1, PTL DEF Spec

-------------------------------------------------------------------------------
(* Theorems of the reports.                                                *)

\* The documents of the sales and the running report always have the shapes of
\* their schemas, and neither the period of a report nor what has elapsed of it is
\* ever empty, whatever the query and the calendar.
THEOREM TypeCorrect == Spec => []TypeOK
<1>1. ASSUME IInv PROVE TypeOK
  <2>1. clock \in Instant /\ sale \in [Sale -> {NoSale} \cup Doc]
    BY <1>1 DEF IInv, Shapes, Documents
  <2>2. ASSUME report # NoReport
        PROVE  /\ report.todo \subseteq {"rows", "current"}
               /\ report.region \in Regions \cup {"all"}
               /\ \A f \in {report.frame, report.elapsed} :
                    f.start \in Instant /\ f.end \in f.start..CalendarEnd
               /\ report.current \in Nat
               /\ DOMAIN report.rows \subseteq Instant
               /\ \A b \in DOMAIN report.rows : report.rows[b] \in Nat
    <3>1. report \in Request
      BY <1>1, <2>2 DEF IInv, Shapes
    <3>2. PICK f \in Period, e \in Period, r \in Rows :
            f = report.frame /\ e = report.elapsed /\ r = report.rows
      BY <3>1 DEF Request
    <3>3. e.start = f.start /\ f.start <= e.end /\ e.end <= f.end
      BY <1>1, <2>2, <3>2 DEF IInv, PeriodStands
    <3>4. PICK a \in Nat, b \in Nat, c \in Nat, z \in Nat :
            /\ a = f.start /\ b = e.end /\ c = f.end /\ z = CalendarEnd
            /\ a < z /\ b < z /\ c < z
      BY InstantsAre DEF Period
    <3>5. a <= b /\ b <= c
      BY <3>3, <3>4
    <3>6. b \in a..z /\ c \in a..z
      BY <3>4, <3>5
    <3>7. DOMAIN r \subseteq Instant /\ \A b1 \in DOMAIN r : r[b1] \in Nat
      <4>1. CASE r = <<>>
        BY <4>1
      <4>2. CASE r \in UNION {[B -> Nat] : B \in SUBSET Instant}
        BY <4>2
      <4> QED
        BY <4>1, <4>2 DEF Rows
    <3>8. /\ report.todo \subseteq {"rows", "current"} /\ report.region \in Scope
          /\ report.current \in Nat
      BY <3>1 DEF Request
    <3> QED
      BY <3>2, <3>3, <3>4, <3>6, <3>7, <3>8 DEF Period, Scope
  <2> QED
    BY <2>1, <2>2 DEF TypeOK, CalendarEnd
<1> QED
  BY InvHolds, <1>1, PTL

\* No charge is lost or counted twice when a sale is divided: over every history of
\* sales and edits, for all baskets, discounts and charges, the shares of the two
\* regions add up to the total of a sale, and its net lines do so up to half a cent
\* for each that is not whole cents.
THEOREM SharesAlwaysAddUp == Spec => []SharesAddUp
<1>1. ASSUME IInv PROVE SharesAddUp
  <2> SUFFICES ASSUME NEW s \in Sale, Made(s), ~sale[s].old
               PROVE  /\ 2 * (Nets(sale[s].lines) - sale[s].total)
                           \in (-Cardinality(Broken(sale[s].lines)))..
                                 Cardinality(Broken(sale[s].lines))
                      /\ sale[s].total
                           = TotalReported(sale[s].total, sale[s].lines, "Bbbb")
                             + TotalReported(sale[s].total, sale[s].lines, "Cnnn")
    BY DEF SharesAddUp
  <2>1. PICK total \in Nat, lines \in Seq(Line) : total = sale[s].total /\ lines = sale[s].lines
    BY <1>1, MadeIs DEF IInv, Shapes, Made
  <2>2. Divided(total, lines)
    BY <1>1, <2>1 DEF IInv, LinesStand
  <2>3. total = TotalReported(total, lines, "Bbbb") + TotalReported(total, lines, "Cnnn")
    BY <2>2, RegionsShareTheTotal
  <2>4. 2 * (Nets(lines) - total)
          \in (-Cardinality(Broken(lines)))..Cardinality(Broken(lines))
    BY <2>2 DEF Divided
  <2> QED
    BY <2>1, <2>3, <2>4
<1> QED
  BY InvHolds, <1>1, PTL

\* What an account of one region is shown of a sale is what the reports of that
\* region count for it, in every history: the computation of regionScope.js and
\* the one of reportingPipelines.js agree on sales with and without region codes.
THEOREM ShownAlwaysReported == Spec => []ShownIsReported
<1>1. ASSUME IInv PROVE ShownIsReported
  <2> SUFFICES ASSUME NEW s \in Sale, NEW g \in Regions,
                      Made(s), Coded(s), SomeIn(sale[s].lines, g)
               PROVE  TotalShown(sale[s].total, sale[s].lines, g)
                        = TotalReported(sale[s].total, sale[s].lines, g)
    BY DEF ShownIsReported
  <2>1. PICK total \in Nat, lines \in Seq(Line) : total = sale[s].total /\ lines = sale[s].lines
    BY <1>1, MadeIs DEF IInv, Shapes, Made
  <2>2. Divided(total, lines) \/ total = OldTotal(lines)
    BY <1>1, <2>1 DEF IInv, LinesStand
  <2>3. \A i \in DOMAIN lines :
          /\ lines[i].code = "none" => lines[i].name = "none"
          /\ lines[i].kept \/ lines[i].subtotal % Cent = 0
    BY <2>1 DEF Coded
  <2> QED
    BY <2>1, <2>2, <2>3, ShownAsReported
<1> QED
  BY InvHolds, <1>1, PTL

\* "totals always agree": when no sale changed while a report was made and its
\* list of buckets is complete, the series adds up to the revenue of its period, and
\* exceeds the total it is compared by exactly by the sales that tills dated ahead
\* of the clock.  The calendar, the query, the granularity, the sales and the
\* moment of each reading are arbitrary.
THEOREM TotalsAlwaysAgree == Spec => []TotalsAgree
<1>1. ASSUME IInv PROVE TotalsAgree
  <2> SUFFICES ASSUME report # NoReport, report.todo = {}, report.calm,
                      ~Truncated(report.frame, Granularity(report.frame))
               PROVE  /\ SeriesTotal = Revenue(Matching(report.frame, report.region),
                                               report.region)
                      /\ SeriesTotal = report.current + Revenue(DatedAhead, report.region)
                      /\ \A s \in DatedAhead :
                           sale[s].at <= report.elapsed.end + FutureTolerance
    BY DEF TotalsAgree, Answered
  <2>1. sale \in Documents /\ report \in Request
    BY <1>1 DEF IInv, Shapes
  <2>2. PICK f \in Period, e \in Period, g \in Scope :
          f = report.frame /\ e = report.elapsed /\ g = report.region
    BY <2>1 DEF Request
  <2>3. PICK rows : rows = report.rows /\ rows = RowsIn(sale, f, g)
    BY <1>1, <2>2 DEF IInv, ReadingsStand
  <2>4. report.current = RevenueIn(sale, In(sale, e, g), g)
    BY <1>1, <2>2 DEF IInv, ReadingsStand
  <2>5. SumOver([b \in DOMAIN rows |-> rows[b]], DOMAIN rows)
          = RevenueIn(sale, In(sale, f, g), g)
    BY <2>1, <2>2, <2>3, RowsAddUp
  <2>6. SeriesTotal = RevenueIn(sale, In(sale, f, g), g)
    BY <2>3, <2>5 DEF SeriesTotal, Lines
  <2>7. RevenueIn(sale, In(sale, f, g), g) = Revenue(Matching(f, g), g)
    BY DEF RevenueIn, In, Revenue, Matching
  <2>8. PICK P, A, E : P = In(sale, f, g) /\ A = DatedAhead /\ E = In(sale, e, g)
    OBVIOUS
  <2>9. A = {s \in P : sale[s].at > e.end}
    BY <2>2, <2>8 DEF DatedAhead, Matching, In
  <2>10. PICK a \in Nat, b \in Nat, c \in Nat :
           a = f.start /\ a = e.start /\ b = e.end /\ c = f.end /\ b <= c
    BY <1>1, <2>2, InstantsAre DEF IInv, PeriodStands, Period
  <2>11. E = P \ A
    <3>1. ASSUME NEW s \in Sale, sale[s].status = "completed", sale[s].at >= a
          PROVE  sale[s].at <= b <=> (sale[s].at <= c /\ ~(sale[s].at > b))
      <4>1. sale[s] # NoSale
        BY <3>1 DEF NoSale
      <4>2. PICK t \in Nat : t = sale[s].at
        BY <2>1, <4>1, MadeIs, InstantsAre
      <4> QED
        BY <2>10, <4>2
    <3> QED
      BY <2>8, <2>9, <2>10, <3>1 DEF In
  <2>12. P \in SUBSET Sale /\ IsFiniteSet(P) /\ A \in SUBSET P
         /\ \A s \in P : sale[s] # NoSale /\ sale[s].at <= c
    BY <2>1, <2>8, <2>9, <2>10, InIs
  <2>13. RevenueIn(sale, P, g) = RevenueIn(sale, E, g) + RevenueIn(sale, A, g)
    <3>1. PICK v : v = [s \in Sale |-> TotalReported(sale[s].total, sale[s].lines, g)]
      OBVIOUS
    <3>2. /\ RevenueIn(sale, P, g) = SumOver(v, P)
          /\ \A s \in P : v[s] \in Nat
      BY <2>1, <2>12, <3>1, RevenueIs
    <3>3. A \in SUBSET Sale /\ E \in SUBSET Sale
          /\ (\A s \in A : sale[s] # NoSale) /\ \A s \in E : sale[s] # NoSale
      BY <2>11, <2>12
    <3>4. RevenueIn(sale, A, g) = SumOver(v, A) /\ RevenueIn(sale, A, g) \in Nat
      BY <2>1, <3>1, <3>3, RevenueIs
    <3>5. RevenueIn(sale, E, g) = SumOver(v, E) /\ RevenueIn(sale, E, g) \in Nat
      BY <2>1, <3>1, <3>3, RevenueIs
    <3>6. SumOver(v, P) = SumOver(v, A) + SumOver(v, E)
      BY <2>11, <2>12, <3>2, SumSplit
    <3> QED
      BY <3>2, <3>4, <3>5, <3>6
  <2>14. RevenueIn(sale, A, g) = Revenue(A, g)
    BY DEF RevenueIn, Revenue
  <2>15. ASSUME NEW s \in A PROVE sale[s].at <= e.end + FutureTolerance
    <3>1. s \in Sale /\ sale[s] # NoSale /\ sale[s].at <= c /\ sale[s].at > b
      BY <2>9, <2>10, <2>12
    <3>2. PICK t \in Nat : t = sale[s].at
      BY <2>1, <3>1, MadeIs, InstantsAre
    <3>3. b < c
      BY <2>10, <3>1, <3>2
    <3> QED
      BY <1>1, <2>2, <2>10, <3>1, <3>3 DEF IInv, PeriodStands, Made
  <2> QED
    BY <2>2, <2>4, <2>6, <2>7, <2>8, <2>13, <2>14, <2>15
<1> QED
  BY InvHolds, <1>1, PTL
===============================================================================
