--------------------------- MODULE CustomersProofs ---------------------------
(***************************************************************************)
(* Proofs about Customers, for any number of customers, sales and requests.*)
(***************************************************************************)
EXTENDS Customers, SumsProofs, TLAPS

\* A sale that an edit read may have changed since, but then its version moved.
EditSnapshotCurrent ==
  \A e \in EditReq : edit[e].phase = "read" =>
    LET q == edit[e]
        d == sale[q.sale] IN
    /\ d.status # "none"
    /\ d.status \in {"completed", "voided"} =>
         /\ q.ver <= d.ver
         /\ d.ver = q.ver => d.of = q.of

\* The statistics that a recalculation computed stand until a sale overtakes it.
RecalcCurrent ==
  \A r \in RecalcReq : recalc[r].phase = "read" /\ ~recalc[r].late =>
    /\ recalc[r].count = CountOf(sale, recalc[r].of)
    /\ recalc[r].spent = SpentOf(sale, recalc[r].of)

\* No sale names a customer that was never inserted.
UnbornUnnamed ==
  \A s \in Sale : \A c \in sale[s].of : customer[c] # NoOne

\* The unique index on phone.
UniquePhones ==
  \A c, d \in CustomerId :
    Live(c) /\ Live(d) /\ customer[c].phone = customer[d].phone => c = d

\* A deletion read an unflagged customer, and either it is gone or its phone is
\* still the one that was read.
RemovalsRead ==
  \A d \in RemoveReq : removal[d].phase = "read" =>
    LET q == removal[d] IN
    /\ ~q.isWalkIn
    /\ customer[q.of] # NoOne
    /\ Live(q.of) => customer[q.of].phone = q.phone

\* A call that found the walk-in's record unflagged flags that record or none.
EnsuresFound ==
  \A w \in EnsureReq : ensure[w].phase = "found" =>
    LET c == ensure[w].of IN
    /\ customer[c] # NoOne
    /\ Live(c) => customer[c].phone = WalkIn

WalkInInv == UniquePhones /\ RemovalsRead /\ EnsuresFound /\ WalkInPermanent

StatsInv == EditSnapshotCurrent /\ RecalcCurrent /\ UnbornUnnamed /\ StatsMatchSales

IInv == TypeOK /\ StatsInv /\ WalkInInv

Docs == {NoOne, Gone} \cup Customer

-------------------------------------------------------------------------------
(* The statistics that the aggregate computes.                             *)

\* They are naturals.
LEMMA StatsType ==
  ASSUME NEW S \in [Sale -> SaleDoc], NEW c
  PROVE  CountOf(S, c) \in Nat /\ SpentOf(S, c) \in Nat
<1>1. IsFiniteSet(Sale) /\ Purchases(S, c) \subseteq Sale
  BY CustomersAssumption DEF CustomersAssumption, Purchases
<1>2. IsFiniteSet(Purchases(S, c))
  BY <1>1, FS_Subset
<1>3. CountOf(S, c) \in Nat
  BY <1>2, FS_CardinalityType DEF CountOf
<1> DEFINE f == [s \in Sale |-> S[s].total]
<1>4. \A s \in Purchases(S, c) : f[s] \in Nat
  BY <1>1 DEF SaleDoc
<1> HIDE DEF f
<1>5. SumOver(f, Purchases(S, c)) \in Nat
  BY <1>2, <1>4, SumNat
<1> QED
  BY <1>3, <1>5 DEF SpentOf, f

\* They are a matter of the completed sales that name the customer.
LEMMA SameSales ==
  ASSUME NEW S, NEW T, NEW c, Purchases(S, c) = Purchases(T, c),
         \A s \in Purchases(S, c) : S[s].total = T[s].total
  PROVE  CountOf(S, c) = CountOf(T, c) /\ SpentOf(S, c) = SpentOf(T, c)
<1>1. IsFiniteSet(Sale) /\ Purchases(S, c) \subseteq Sale
  BY CustomersAssumption DEF CustomersAssumption, Purchases
<1>2. IsFiniteSet(Purchases(S, c))
  BY <1>1, FS_Subset
<1> DEFINE f == [s \in Sale |-> S[s].total]
           g == [s \in Sale |-> T[s].total]
<1>3. \A s \in Purchases(S, c) : f[s] = g[s]
  BY <1>1
<1> HIDE DEF f, g
<1>4. SumOver(f, Purchases(S, c)) = SumOver(g, Purchases(S, c))
  BY <1>2, <1>3, SumSame
<1> QED
  BY <1>4 DEF CountOf, SpentOf, f, g

\* A customer that no sale names has none.
LEMMA NoSales ==
  ASSUME NEW S, NEW c, \A s \in Sale : c \notin S[s].of
  PROVE  CountOf(S, c) = 0 /\ SpentOf(S, c) = 0
<1>1. Purchases(S, c) = {}
  BY DEF Purchases
<1>2. CountOf(S, c) = 0
  BY <1>1, FS_EmptySet DEF CountOf
<1> DEFINE f == [s \in Sale |-> S[s].total]
<1> HIDE DEF f
<1>3. SumOver(f, {}) = 0
  BY SumEmpty
<1> QED
  BY <1>1, <1>2, <1>3 DEF SpentOf, f

\* A document that is live is a customer's.
LEMMA LiveIsCustomer ==
  ASSUME NEW d \in Docs
  PROVE  /\ d.status = "live" => d \in Customer
         /\ d \in Customer => d.status = "live" /\ d # NoOne /\ d # Gone
BY DEF Docs, NoOne, Gone, Customer

\* What recalculateCustomerStats does to the documents D.
LEMMA RecalculatedIs ==
  ASSUME NEW D \in [CustomerId -> Docs], NEW S \in [Sale -> SaleDoc],
         NEW C \in SUBSET CustomerId, NEW E, E = Recalculated(D, S, C)
  PROVE  /\ E \in [CustomerId -> Docs]
         /\ \A c \in CustomerId \ C : E[c] = D[c]
         /\ \A c \in CustomerId :
              /\ D[c].status # "live" => E[c] = D[c]
              /\ D[c].status = "live" =>
                   /\ E[c].status = "live"
                   /\ E[c].phone = D[c].phone
                   /\ E[c].isWalkIn = D[c].isWalkIn
                   /\ c \in C => E[c].count = CountOf(S, c) /\ E[c].spent = SpentOf(S, c)
<1>1. ASSUME NEW c \in CustomerId
      PROVE  /\ E[c] \in Docs
             /\ c \notin C => E[c] = D[c]
             /\ D[c].status # "live" => E[c] = D[c]
             /\ D[c].status = "live" =>
                  /\ E[c].status = "live"
                  /\ E[c].phone = D[c].phone
                  /\ E[c].isWalkIn = D[c].isWalkIn
                  /\ c \in C => E[c].count = CountOf(S, c) /\ E[c].spent = SpentOf(S, c)
  <2>1. CASE c \in C /\ D[c].status = "live"
    <3>1. PICK n \in Nat, t \in Nat : n = CountOf(S, c) /\ t = SpentOf(S, c)
      BY StatsType
    <3>2. D[c] \in Customer
      BY <2>1, LiveIsCustomer
    <3>3. E[c] = [D[c] EXCEPT !.count = n, !.spent = t]
      BY <2>1, <3>1 DEF Recalculated
    <3>4. /\ E[c] \in Customer /\ E[c].phone = D[c].phone
          /\ E[c].isWalkIn = D[c].isWalkIn /\ E[c].count = n /\ E[c].spent = t
          /\ E[c].status = "live"
      BY <3>2, <3>3 DEF Customer
    <3> QED
      BY <2>1, <3>1, <3>4 DEF Docs
  <2>2. CASE ~(c \in C /\ D[c].status = "live")
    <3>1. E[c] = D[c]
      BY <2>2 DEF Recalculated
    <3> QED
      BY <2>2, <3>1
  <2> QED
    BY <2>1, <2>2
<1>2. E = [c \in CustomerId |-> E[c]]
  BY DEF Recalculated
<1> QED
  BY <1>1, <1>2

\* What the upsert of updateCustomerData does to them: the customer that the sale
\* names is live, and one that is new has a phone that nobody else has.
LEMMA UpsertedIs ==
  ASSUME TypeOK, UniquePhones, NEW p \in Phone, NEW C \in SUBSET CustomerId,
         Upserts(C, p), NEW D, D = Upserted(C, p)
  PROVE  /\ D \in [CustomerId -> Docs]
         /\ \A c \in CustomerId \ C : D[c] = customer[c]
         /\ \A c \in CustomerId : customer[c] # NoOne => D[c] = customer[c]
         /\ \A c \in C : D[c].status = "live"
         /\ \A c, d \in CustomerId :
              /\ D[c].status = "live"
              /\ D[d].status = "live"
              /\ D[c].phone = D[d].phone
              => c = d
<1>1. D = [c \in CustomerId |-> D[c]]
  BY DEF Upserted
<1>2. ASSUME NEW c \in CustomerId PROVE customer[c] \in Docs
  BY DEF TypeOK, Docs
<1>3. PICK new \in Customer : new = NewCustomer(p, p = WalkIn) /\ new.phone = p
  <2>1. PICK walk \in BOOLEAN : walk = (p = WalkIn)
    OBVIOUS
  <2>2. /\ NewCustomer(p, walk) \in Customer
        /\ NewCustomer(p, walk).phone = p
    BY DEF NewCustomer, Customer
  <2> QED
    BY <2>1, <2>2
<1>4. \A c \in CustomerId :
        D[c] = IF c \in C /\ customer[c] = NoOne THEN new ELSE customer[c]
  BY <1>3 DEF Upserted
<1>5. D \in [CustomerId -> Docs]
  BY <1>1, <1>2, <1>3, <1>4 DEF Docs
<1>6. ASSUME NEW c \in C PROVE D[c].status = "live"
  <2>1. C = {c}
    BY <1>6 DEF Upserts
  <2>2. CASE WithPhone(p) # {}
    <3>1. c \in WithPhone(p)
      BY <1>6, <2>2 DEF Upserts
    <3>2. customer[c].status = "live" /\ customer[c] # NoOne
      BY <3>1 DEF WithPhone, Live, NoOne
    <3> QED
      BY <1>4, <3>2
  <2>3. CASE WithPhone(p) = {}
    <3>1. customer[c] = NoOne
      BY <1>6, <2>3 DEF Upserts
    <3> QED
      BY <1>3, <1>4, <3>1 DEF Customer
  <2> QED
    BY <2>2, <2>3
<1>7. ASSUME NEW c \in CustomerId, NEW d \in CustomerId,
             D[c].status = "live", D[d].status = "live", D[c].phone = D[d].phone
      PROVE  c = d
  <2> SUFFICES ASSUME c # d PROVE FALSE
    OBVIOUS
  <2>1. ASSUME NEW a \in CustomerId, NEW b \in CustomerId, a # b,
               a \in C /\ customer[a] = NoOne,
               D[b].status = "live", D[b].phone = D[a].phone
        PROVE  FALSE
    <3>1. C = {a} /\ WithPhone(p) = {}
      BY <2>1 DEF Upserts, WithPhone, Live, NoOne
    <3>2. D[a].phone = p
      BY <1>3, <1>4, <2>1
    <3>3. D[b] = customer[b]
      BY <1>4, <2>1, <3>1
    <3>4. b \in WithPhone(p)
      BY <2>1, <3>2, <3>3 DEF WithPhone, Live
    <3> QED
      BY <3>1, <3>4
  <2>2. ~(c \in C /\ customer[c] = NoOne) /\ ~(d \in C /\ customer[d] = NoOne)
    BY <1>7, <2>1
  <2>3. D[c] = customer[c] /\ D[d] = customer[d]
    BY <1>4, <2>2
  <2> QED
    BY <1>7, <2>3 DEF UniquePhones, Live
<1> QED
  BY <1>4, <1>5, <1>6, <1>7

-------------------------------------------------------------------------------
(* The invariant holds in the initial state.                               *)

LEMMA InitIInv == Init => IInv
<1> SUFFICES ASSUME Init PROVE IInv
  OBVIOUS
<1>1. TypeOK
  <2>1. NoSale \in SaleDoc
    BY DEF NoSale, SaleDoc
  <2> QED
    BY <2>1 DEF Init, TypeOK
<1>2. \A c \in CustomerId : ~Live(c)
  BY DEF Init, Live, NoOne
<1>3. StatsInv
  BY <1>2 DEF Init, StatsInv, EditSnapshotCurrent, RecalcCurrent, UnbornUnnamed,
     StatsMatchSales, Idle, NoSale
<1>4. WalkInInv
  BY <1>2 DEF Init, WalkInInv, UniquePhones, RemovalsRead, EnsuresFound,
     WalkInPermanent, Ensured, Idle
<1> QED
  BY <1>1, <1>3, <1>4 DEF IInv

-------------------------------------------------------------------------------
(* What a step must do to keep each part.                                  *)

\* A document of the collection.
LEMMA DocType == ASSUME TypeOK, NEW c \in CustomerId PROVE customer[c] \in Docs
BY DEF TypeOK, Docs

\* The walk-in's part holds after a step that keeps every customer, its phone and
\* its flag and makes no second customer with a phone.
LEMMA WalkInKept ==
  ASSUME TypeOK, WalkInInv, UniquePhones',
         \A c \in CustomerId : Live(c) =>
           /\ Live(c)'
           /\ customer'[c].phone = customer[c].phone
           /\ customer[c].isWalkIn => customer'[c].isWalkIn,
         \A c \in CustomerId : customer[c] # NoOne /\ ~Live(c) =>
           customer'[c] = customer[c],
         UNCHANGED <<removal, ensure>>
  PROVE  WalkInInv'
<1>0. \A c \in CustomerId : Live(c) => customer[c] # NoOne /\ customer'[c] # NoOne
  BY DEF Live, NoOne
<1>1. ASSUME NEW c \in CustomerId, customer[c] # NoOne
      PROVE  customer'[c] # NoOne /\ (Live(c)' => Live(c))
  BY <1>0, <1>1 DEF Live
<1>2. RemovalsRead'
  <2> SUFFICES ASSUME NEW d \in RemoveReq, removal[d].phase = "read"
               PROVE  /\ ~removal[d].isWalkIn
                      /\ customer'[removal[d].of] # NoOne
                      /\ Live(removal[d].of)' =>
                           customer'[removal[d].of].phone = removal[d].phone
    BY DEF RemovalsRead
  <2>1. removal[d] \in Removal
    BY DEF TypeOK, Idle
  <2>2. removal[d].of \in CustomerId
    BY <2>1 DEF Removal
  <2> QED
    BY <1>1, <2>2 DEF WalkInInv, RemovalsRead
<1>3. EnsuresFound'
  <2> SUFFICES ASSUME NEW w \in EnsureReq, ensure[w].phase = "found"
               PROVE  /\ customer'[ensure[w].of] # NoOne
                      /\ Live(ensure[w].of)' => customer'[ensure[w].of].phone = WalkIn
    BY DEF EnsuresFound
  <2>1. ensure[w] \in [phase : {"found"}, of : CustomerId]
    BY DEF TypeOK, Idle, Ensure
  <2> QED
    BY <1>1, <2>1 DEF WalkInInv, EnsuresFound
<1>4. WalkInPermanent'
  <2> SUFFICES ASSUME NEW w \in EnsureReq, Ensured(w)',
                      ~ \E d \in RemoveReq : /\ removal[d].phase = "done"
                                             /\ removal[d].phone = WalkIn
                                             /\ ~removal[d].isWalkIn
               PROVE  \E c \in WithPhone(WalkIn)' :
                        WithPhone(WalkIn)' = {c} /\ customer'[c].isWalkIn
    BY DEF WalkInPermanent
  <2>1. Ensured(w)
    BY DEF Ensured
  <2>2. PICK c \in WithPhone(WalkIn) : customer[c].isWalkIn
    BY <2>1 DEF WalkInInv, WalkInPermanent
  <2>3. c \in WithPhone(WalkIn)' /\ customer'[c].isWalkIn
    BY <2>2 DEF WithPhone
  <2>4. WithPhone(WalkIn)' = {c}
    BY <2>3 DEF WithPhone, UniquePhones
  <2> QED
    BY <2>3, <2>4
<1> QED
  BY <1>2, <1>3, <1>4 DEF WalkInInv

\* The statistics' part holds after a step that writes no sale and no statistics,
\* new customers' zeros aside.
LEMMA StatsKept ==
  ASSUME TypeOK, StatsInv,
         \A c \in CustomerId : customer[c] # NoOne => customer'[c] # NoOne,
         \A c \in CustomerId : Live(c)' =>
           \/ /\ Live(c)
              /\ customer'[c].count = customer[c].count
              /\ customer'[c].spent = customer[c].spent
           \/ /\ customer[c] = NoOne
              /\ customer'[c].count = 0
              /\ customer'[c].spent = 0,
         UNCHANGED <<sale, edit, recalc, overtaken>>
  PROVE  StatsInv'
<1>1. EditSnapshotCurrent' /\ RecalcCurrent'
  BY DEF StatsInv, EditSnapshotCurrent, RecalcCurrent, CountOf, SpentOf, Purchases
<1>2. UnbornUnnamed'
  <2>1. \A s \in Sale : sale[s].of \subseteq CustomerId
    BY DEF TypeOK, SaleDoc
  <2> QED
    BY <2>1 DEF StatsInv, UnbornUnnamed
<1>3. StatsMatchSales'
  <2> SUFFICES ASSUME NEW c \in CustomerId, Live(c)', c \notin overtaken
               PROVE  /\ customer'[c].count = CountOf(sale, c)
                      /\ customer'[c].spent = SpentOf(sale, c)
    BY DEF StatsMatchSales, CountOf, SpentOf, Purchases
  <2>1. CASE Live(c)
    <3>1. customer[c] # NoOne
      BY <2>1 DEF Live, NoOne
    <3> QED
      BY <2>1, <3>1 DEF StatsInv, StatsMatchSales
  <2>2. CASE customer[c] = NoOne
    <3>1. \A s \in Sale : c \notin sale[s].of
      BY <2>2 DEF StatsInv, UnbornUnnamed
    <3>2. CountOf(sale, c) = 0 /\ SpentOf(sale, c) = 0
      BY <3>1, NoSales
    <3>3. ~Live(c)
      BY <2>2 DEF Live, NoOne
    <3> QED
      BY <3>2, <3>3
  <2> QED
    BY <2>1, <2>2
<1> QED
  BY <1>1, <1>2, <1>3 DEF StatsInv

\* A committed transaction that wrote the documents D, the sales S and the
\* statistics of C keeps the invariant, if the sales of everybody else are as they
\* were and the sales it leaves name customers that are there.
LEMMA CommitKeepsIInv ==
  ASSUME IInv, NEW D \in [CustomerId -> Docs], NEW S \in [Sale -> SaleDoc],
         NEW C \in SUBSET CustomerId, Commit(D, S, C),
         \A c \in CustomerId \ C : D[c] = customer[c],
         \A c \in CustomerId : customer[c] # NoOne => D[c] = customer[c],
         \A c, d \in CustomerId :
              /\ D[c].status = "live"
              /\ D[d].status = "live"
              /\ D[c].phone = D[d].phone
              => c = d,
         \A s \in Sale : \A c \in S[s].of : D[c] # NoOne,
         \A c \in CustomerId \ C :
           /\ Purchases(S, c) = Purchases(sale, c)
           /\ \A s \in Purchases(S, c) : S[s].total = sale[s].total,
         edit' \in [EditReq -> {Idle, Done} \cup Edit], EditSnapshotCurrent',
         UNCHANGED <<removal, ensure>>
  PROVE  IInv'
<1>1. /\ customer' \in [CustomerId -> Docs]
      /\ \A c \in CustomerId \ C : customer'[c] = D[c]
      /\ \A c \in CustomerId :
           /\ D[c].status # "live" => customer'[c] = D[c]
           /\ D[c].status = "live" =>
                /\ customer'[c].status = "live"
                /\ customer'[c].phone = D[c].phone
                /\ customer'[c].isWalkIn = D[c].isWalkIn
                /\ c \in C => /\ customer'[c].count = CountOf(S, c)
                              /\ customer'[c].spent = SpentOf(S, c)
  BY RecalculatedIs DEF Commit
<1>2. sale' = S /\ overtaken' = overtaken \ C
  BY DEF Commit
<1>3. \A c \in CustomerId : Live(c)' <=> D[c].status = "live"
  BY <1>1 DEF Live
<1>4. \A c \in CustomerId \ C :
        CountOf(S, c) = CountOf(sale, c) /\ SpentOf(S, c) = SpentOf(sale, c)
  BY SameSales
<1>5. \A r \in RecalcReq :
        recalc'[r] = IF recalc[r].phase = "read" /\ recalc[r].of \in C
                     THEN [recalc[r] EXCEPT !.late = TRUE] ELSE recalc[r]
  BY DEF Commit
<1>6. recalc' \in [RecalcReq -> {Idle, Done} \cup Recalc]
  <2>1. ASSUME NEW r \in RecalcReq PROVE recalc'[r] \in {Idle, Done} \cup Recalc
    <3>1. recalc[r] \in {Idle, Done} \cup Recalc
      BY DEF IInv, TypeOK
    <3>2. CASE recalc[r].phase = "read" /\ recalc[r].of \in C
      <4>1. recalc[r] \in Recalc
        BY <3>1, <3>2 DEF Idle, Done
      <4>2. [recalc[r] EXCEPT !.late = TRUE] \in Recalc
        BY <4>1 DEF Recalc
      <4> QED
        BY <1>5, <3>2, <4>2
    <3>3. CASE ~(recalc[r].phase = "read" /\ recalc[r].of \in C)
      BY <1>5, <3>1, <3>3
    <3> QED
      BY <3>2, <3>3
  <2>2. recalc' = [r \in RecalcReq |-> recalc'[r]]
    BY DEF Commit
  <2> QED
    BY <2>1, <2>2
<1>7. TypeOK'
  BY <1>1, <1>2, <1>6 DEF IInv, TypeOK, Docs
<1>8. RecalcCurrent'
  <2> SUFFICES ASSUME NEW r \in RecalcReq, recalc'[r].phase = "read", ~recalc'[r].late
               PROVE  /\ recalc'[r].count = CountOf(S, recalc'[r].of)
                      /\ recalc'[r].spent = SpentOf(S, recalc'[r].of)
    BY <1>2 DEF RecalcCurrent
  <2>1. recalc[r] \in {Idle, Done} \cup Recalc
    BY DEF IInv, TypeOK
  <2>2. recalc'[r] = recalc[r] /\ recalc[r].of \notin C
    <3>1. CASE recalc[r].phase = "read" /\ recalc[r].of \in C
      <4>1. recalc[r] \in Recalc
        BY <2>1, <3>1 DEF Idle, Done
      <4>2. recalc'[r] = [recalc[r] EXCEPT !.late = TRUE]
        BY <1>5, <3>1
      <4>3. recalc'[r].late = TRUE
        BY <4>1, <4>2 DEF Recalc
      <4> QED
        BY <4>3
    <3>2. CASE ~(recalc[r].phase = "read" /\ recalc[r].of \in C)
      <4>1. recalc'[r] = recalc[r]
        BY <1>5, <3>2
      <4> QED
        BY <3>2, <4>1
    <3> QED
      BY <3>1, <3>2
  <2>3. recalc[r].of \in CustomerId \ C
    BY <2>1, <2>2 DEF Idle, Done, Recalc
  <2>4. /\ recalc[r].count = CountOf(sale, recalc[r].of)
        /\ recalc[r].spent = SpentOf(sale, recalc[r].of)
    BY <2>2 DEF IInv, StatsInv, RecalcCurrent
  <2> QED
    BY <1>4, <2>2, <2>3, <2>4
<1>9. UnbornUnnamed'
  <2>1. \A s \in Sale : S[s].of \subseteq CustomerId
    BY DEF SaleDoc
  <2>2. \A c \in CustomerId : D[c] # NoOne => customer'[c] # NoOne
    BY <1>1 DEF NoOne
  <2> QED
    BY <1>2, <2>1, <2>2 DEF UnbornUnnamed
<1>10. StatsMatchSales'
  <2> SUFFICES ASSUME NEW c \in CustomerId, Live(c)', c \notin overtaken'
               PROVE  /\ customer'[c].count = CountOf(S, c)
                      /\ customer'[c].spent = SpentOf(S, c)
    BY <1>2 DEF StatsMatchSales
  <2>1. CASE c \in C
    BY <1>1, <1>3, <2>1
  <2>2. CASE c \notin C
    <3>1. customer'[c] = customer[c] /\ Live(c) /\ c \notin overtaken
      BY <1>1, <1>2, <2>2 DEF Live
    <3> QED
      BY <1>4, <2>2, <3>1 DEF IInv, StatsInv, StatsMatchSales
  <2> QED
    BY <2>1, <2>2
<1>11. UniquePhones'
  BY <1>1, <1>3 DEF UniquePhones
<1>12. WalkInInv'
  <2>1. \A c \in CustomerId : Live(c) =>
          /\ Live(c)'
          /\ customer'[c].phone = customer[c].phone
          /\ customer[c].isWalkIn => customer'[c].isWalkIn
    <3>1. \A c \in CustomerId : Live(c) => D[c] = customer[c] /\ D[c].status = "live"
      BY DEF Live, NoOne
    <3> QED
      BY <1>1, <1>3, <3>1
  <2>2. \A c \in CustomerId : customer[c] # NoOne /\ ~Live(c) => customer'[c] = customer[c]
    BY <1>1 DEF Live
  <2> QED
    BY <1>11, <2>1, <2>2, WalkInKept DEF IInv
<1> QED
  BY <1>7, <1>8, <1>9, <1>10, <1>12 DEF IInv, StatsInv

-------------------------------------------------------------------------------
(* The sale handlers.                                                      *)

\* A customer that is there, or that the sale names, is there after the upsert.
LEMMA UpsertedStands ==
  ASSUME IInv, NEW p \in Phone, NEW C \in SUBSET CustomerId, Upserts(C, p),
         NEW c \in CustomerId, customer[c] # NoOne \/ c \in C
  PROVE  Upserted(C, p)[c] # NoOne
<1>1. PICK D : D = Upserted(C, p)
  OBVIOUS
<1>2. \A d \in CustomerId : customer[d] # NoOne => D[d] = customer[d]
  BY <1>1, UpsertedIs DEF IInv, WalkInInv
<1>3. \A d \in C : D[d].status = "live"
  BY <1>1, UpsertedIs DEF IInv, WalkInInv
<1>4. D[c] # NoOne
  BY <1>2, <1>3 DEF NoOne
<1> QED
  BY <1>1, <1>4

LEMMA CreateSaleKeepsIInv ==
  ASSUME IInv, NEW s \in Sale, NEW p \in Phone, NEW n \in Total, CreateSale(s, p, n)
  PROVE  IInv'
<1>1. PICK C \in SUBSET CustomerId :
        /\ Upserts(C, p)
        /\ Commit(Upserted(C, p),
                  [sale EXCEPT ![s] = [status |-> "completed", of |-> C,
                                       total |-> n, ver |-> 1]],
                  C)
  BY DEF CreateSale
<1>2. PICK D : D = Upserted(C, p)
  OBVIOUS
<1>3. PICK d : d = [status |-> "completed", of |-> C, total |-> n, ver |-> 1]
  OBVIOUS
<1>4. PICK S : S = [sale EXCEPT ![s] = d]
  OBVIOUS
<1>5. Commit(D, S, C)
  BY <1>1, <1>2, <1>3, <1>4
<1>6. d \in SaleDoc
  BY <1>3, CustomersAssumption DEF CustomersAssumption, SaleDoc
<1>7. S \in [Sale -> SaleDoc] /\ S[s] = d /\ \A t \in Sale \ {s} : S[t] = sale[t]
  BY <1>4, <1>6 DEF IInv, TypeOK
<1>8. /\ D \in [CustomerId -> Docs]
      /\ \A c \in CustomerId \ C : D[c] = customer[c]
      /\ \A c \in CustomerId : customer[c] # NoOne => D[c] = customer[c]
      /\ \A c, e \in CustomerId :
           /\ D[c].status = "live"
           /\ D[e].status = "live"
           /\ D[c].phone = D[e].phone
           => c = e
  BY <1>1, <1>2, UpsertedIs DEF IInv, WalkInInv
<1>9. sale[s].status = "none"
  BY DEF CreateSale, NoSale
<1>10. ASSUME NEW t \in Sale, NEW c \in S[t].of PROVE D[c] # NoOne
  <2>1. c \in CustomerId
    BY <1>7 DEF SaleDoc
  <2>2. customer[c] # NoOne \/ c \in C
    BY <1>3, <1>7 DEF IInv, StatsInv, UnbornUnnamed
  <2> QED
    BY <1>1, <1>2, <2>1, <2>2, UpsertedStands
<1>11. ASSUME NEW c \in CustomerId \ C
       PROVE  /\ Purchases(S, c) = Purchases(sale, c)
              /\ \A t \in Purchases(S, c) : S[t].total = sale[t].total
  <2>1. S[s].of = C
    BY <1>3, <1>7
  <2> QED
    BY <1>7, <1>9, <2>1 DEF Purchases
<1>12. EditSnapshotCurrent'
  <2>1. sale' = S /\ edit' = edit
    BY <1>5 DEF Commit, CreateSale
  <2>2. ASSUME NEW e \in EditReq, edit[e].phase = "read"
        PROVE  edit[e].sale \in Sale /\ S[edit[e].sale] = sale[edit[e].sale]
    <3>1. edit[e].sale \in Sale
      BY <2>2 DEF IInv, TypeOK, Edit, Idle, Done
    <3>2. edit[e].sale # s
      BY <1>9, <2>2 DEF IInv, StatsInv, EditSnapshotCurrent
    <3> QED
      BY <1>7, <3>1, <3>2
  <2> QED
    BY <2>1, <2>2 DEF IInv, StatsInv, EditSnapshotCurrent
<1>13. edit' \in [EditReq -> {Idle, Done} \cup Edit] /\ UNCHANGED <<removal, ensure>>
  BY DEF CreateSale, IInv, TypeOK
<1> QED
  BY <1>5, <1>7, <1>8, <1>10, <1>11, <1>12, <1>13, CommitKeepsIInv

LEMMA CommitEditKeepsIInv ==
  ASSUME IInv, NEW e \in EditReq, NEW p \in Phone, NEW n \in Total, CommitEdit(e, p, n)
  PROVE  IInv'
<1>1. PICK q : q = edit[e]
  OBVIOUS
<1>2. PICK s : s = q.sale
  OBVIOUS
<1>3. /\ q \in Edit
      /\ s \in Sale /\ q.of \in SUBSET CustomerId /\ q.ver \in Nat
      /\ q.phase = "read"
      /\ sale[s].status \in {"completed", "voided"} /\ sale[s].ver = q.ver
  BY <1>1, <1>2 DEF CommitEdit, IInv, TypeOK, Edit, Idle, Done
<1>4. PICK C \in SUBSET CustomerId :
        /\ Upserts(C, p)
        /\ Commit(Upserted(C, p),
                  [sale EXCEPT ![s].of = C, ![s].total = n, ![s].ver = @ + 1],
                  Concerned(q, C))
  BY <1>1, <1>2 DEF CommitEdit
<1>5. PICK D : D = Upserted(C, p)
  OBVIOUS
<1>6. PICK S : S = [sale EXCEPT ![s].of = C, ![s].total = n, ![s].ver = @ + 1]
  OBVIOUS
<1>7. PICK B \in SUBSET CustomerId : B = Concerned(q, C)
  BY <1>3 DEF Concerned
<1>8. Commit(D, S, B)
  BY <1>4, <1>5, <1>6, <1>7
<1>9. sale[s] \in SaleDoc /\ sale[s].ver \in Nat /\ n \in Nat
  BY <1>3, CustomersAssumption DEF CustomersAssumption, IInv, TypeOK, SaleDoc
<1>10. PICK m \in Nat : m = sale[s].ver + 1
  BY <1>9
<1>11. PICK d : d = [sale[s] EXCEPT !.of = C, !.total = n, !.ver = m]
  OBVIOUS
<1>12. /\ d \in SaleDoc
       /\ d.status = sale[s].status /\ d.of = C /\ d.total = n /\ d.ver = m
  BY <1>9, <1>11 DEF SaleDoc
<1>13. S = [sale EXCEPT ![s] = d]
  BY <1>3, <1>6, <1>10, <1>11 DEF IInv, TypeOK
<1>14. S \in [Sale -> SaleDoc] /\ S[s] = d /\ \A t \in Sale \ {s} : S[t] = sale[t]
  BY <1>3, <1>12, <1>13 DEF IInv, TypeOK
<1>15. /\ D \in [CustomerId -> Docs]
       /\ \A c \in CustomerId \ C : D[c] = customer[c]
       /\ \A c \in CustomerId : customer[c] # NoOne => D[c] = customer[c]
       /\ \A c, a \in CustomerId :
            /\ D[c].status = "live"
            /\ D[a].status = "live"
            /\ D[c].phone = D[a].phone
            => c = a
  BY <1>4, <1>5, UpsertedIs DEF IInv, WalkInInv
<1>16. sale[s].of = q.of
  BY <1>1, <1>2, <1>3 DEF IInv, StatsInv, EditSnapshotCurrent
<1>17. ASSUME NEW t \in Sale, NEW c \in S[t].of PROVE D[c] # NoOne
  <2>1. c \in CustomerId
    BY <1>14 DEF SaleDoc
  <2>2. customer[c] # NoOne \/ c \in C
    BY <1>12, <1>14 DEF IInv, StatsInv, UnbornUnnamed
  <2> QED
    BY <1>4, <1>5, <2>1, <2>2, UpsertedStands
<1>18. ASSUME NEW c \in CustomerId \ B
       PROVE  /\ D[c] = customer[c]
              /\ Purchases(S, c) = Purchases(sale, c)
              /\ \A t \in Purchases(S, c) : S[t].total = sale[t].total
  <2>1. c \notin C /\ c \notin sale[s].of
    BY <1>7, <1>16 DEF Concerned
  <2> QED
    BY <1>12, <1>14, <1>15, <2>1 DEF Purchases
<1>19. edit' = [edit EXCEPT ![e] = Done]
  BY DEF CommitEdit
<1>20. EditSnapshotCurrent'
  <2>1. sale' = S
    BY <1>8 DEF Commit
  <2> SUFFICES ASSUME NEW a \in EditReq, edit'[a].phase = "read"
               PROVE  LET o == edit'[a]
                          x == S[o.sale] IN
                      /\ x.status # "none"
                      /\ x.status \in {"completed", "voided"} =>
                           /\ o.ver <= x.ver
                           /\ x.ver = o.ver => x.of = o.of
    BY <2>1 DEF EditSnapshotCurrent
  <2>2. edit'[a] = edit[a]
    BY <1>19 DEF IInv, TypeOK, Done
  <2>3. PICK o : o = edit[a]
    OBVIOUS
  <2>4. o.sale \in Sale /\ o.ver \in Nat
    BY <2>2, <2>3 DEF IInv, TypeOK, Edit, Idle, Done
  <2>5. /\ sale[o.sale].status # "none"
        /\ sale[o.sale].status \in {"completed", "voided"} =>
             /\ o.ver <= sale[o.sale].ver
             /\ sale[o.sale].ver = o.ver => sale[o.sale].of = o.of
    BY <2>2, <2>3 DEF IInv, StatsInv, EditSnapshotCurrent
  <2>6. CASE o.sale = s
    <3>1. o.ver <= sale[s].ver
      BY <1>3, <2>5, <2>6
    <3>2. o.ver < m
      BY <1>9, <1>10, <2>4, <3>1
    <3> QED
      BY <1>3, <1>12, <1>14, <2>2, <2>3, <2>4, <2>6, <3>2
  <2>7. CASE o.sale # s
    BY <1>14, <2>2, <2>3, <2>4, <2>5, <2>7
  <2> QED
    BY <2>6, <2>7
<1>21. edit' \in [EditReq -> {Idle, Done} \cup Edit] /\ UNCHANGED <<removal, ensure>>
  BY <1>19 DEF CommitEdit, IInv, TypeOK
<1> QED
  BY <1>8, <1>14, <1>15, <1>17, <1>18, <1>20, <1>21, CommitKeepsIInv

\* The documents as they are satisfy what CommitKeepsIInv asks of D: a void or a
\* deletion upserts nobody.
LEMMA CustomersStand ==
  ASSUME IInv
  PROVE  /\ customer \in [CustomerId -> Docs]
         /\ \A c, d \in CustomerId :
              /\ customer[c].status = "live"
              /\ customer[d].status = "live"
              /\ customer[c].phone = customer[d].phone
              => c = d
BY DEF IInv, TypeOK, Docs, WalkInInv, UniquePhones, Live

LEMMA VoidSaleKeepsIInv ==
  ASSUME IInv, NEW s \in Sale, VoidSale(s)
  PROVE  IInv'
<1>1. PICK S : S = [sale EXCEPT ![s].status = "voided", ![s].ver = @ + 1]
  OBVIOUS
<1>2. sale[s] \in SaleDoc /\ sale[s].ver \in Nat /\ sale[s].status = "completed"
  BY DEF IInv, TypeOK, SaleDoc, VoidSale
<1>3. PICK C \in SUBSET CustomerId : C = sale[s].of
  BY <1>2 DEF SaleDoc
<1>4. Commit(customer, S, C)
  BY <1>1, <1>3 DEF VoidSale
<1>5. PICK m \in Nat : m = sale[s].ver + 1
  BY <1>2
<1>6. PICK d : d = [sale[s] EXCEPT !.status = "voided", !.ver = m]
  OBVIOUS
<1>7. d \in SaleDoc /\ d.status = "voided" /\ d.of = C /\ d.ver = m
  BY <1>2, <1>3, <1>6 DEF SaleDoc
<1>8. S = [sale EXCEPT ![s] = d]
  BY <1>1, <1>5, <1>6 DEF IInv, TypeOK
<1>9. S \in [Sale -> SaleDoc] /\ S[s] = d /\ \A t \in Sale \ {s} : S[t] = sale[t]
  BY <1>7, <1>8 DEF IInv, TypeOK
<1>10. \A t \in Sale : \A c \in S[t].of : customer[c] # NoOne
  BY <1>3, <1>7, <1>9 DEF IInv, StatsInv, UnbornUnnamed
<1>11. ASSUME NEW c \in CustomerId \ C
       PROVE  /\ Purchases(S, c) = Purchases(sale, c)
              /\ \A t \in Purchases(S, c) : S[t].total = sale[t].total
  BY <1>3, <1>7, <1>9 DEF Purchases
<1>12. EditSnapshotCurrent'
  <2>1. sale' = S /\ edit' = edit
    BY <1>4 DEF Commit, VoidSale
  <2> SUFFICES ASSUME NEW a \in EditReq, edit[a].phase = "read"
               PROVE  LET o == edit[a]
                          x == S[o.sale] IN
                      /\ x.status # "none"
                      /\ x.status \in {"completed", "voided"} =>
                           /\ o.ver <= x.ver
                           /\ x.ver = o.ver => x.of = o.of
    BY <2>1 DEF EditSnapshotCurrent
  <2>2. PICK o : o = edit[a]
    OBVIOUS
  <2>3. o.sale \in Sale /\ o.ver \in Nat
    BY <2>2 DEF IInv, TypeOK, Edit, Idle, Done
  <2>4. /\ sale[o.sale].status # "none"
        /\ sale[o.sale].status \in {"completed", "voided"} =>
             /\ o.ver <= sale[o.sale].ver
             /\ sale[o.sale].ver = o.ver => sale[o.sale].of = o.of
    BY <2>2 DEF IInv, StatsInv, EditSnapshotCurrent
  <2>5. CASE o.sale = s
    <3>1. o.ver < m
      BY <1>2, <1>5, <2>3, <2>4, <2>5
    <3> QED
      BY <1>7, <1>9, <2>2, <2>3, <2>5, <3>1
  <2>6. CASE o.sale # s
    BY <1>9, <2>2, <2>3, <2>4, <2>6
  <2> QED
    BY <2>5, <2>6
<1>13. edit' \in [EditReq -> {Idle, Done} \cup Edit] /\ UNCHANGED <<removal, ensure>>
  BY DEF VoidSale, IInv, TypeOK
<1> QED
  BY <1>4, <1>9, <1>10, <1>11, <1>12, <1>13, CommitKeepsIInv, CustomersStand

LEMMA DeleteSaleKeepsIInv ==
  ASSUME IInv, NEW s \in Sale, DeleteSale(s)
  PROVE  IInv'
<1>1. PICK d : d = [NoSale EXCEPT !.status = "deleted"]
  OBVIOUS
<1>2. d \in SaleDoc /\ d.status = "deleted" /\ d.of = {}
  BY <1>1 DEF NoSale, SaleDoc
<1>3. PICK S : S = [sale EXCEPT ![s] = d]
  OBVIOUS
<1>4. PICK C \in SUBSET CustomerId : C = sale[s].of
  BY DEF IInv, TypeOK, SaleDoc
<1>5. Commit(customer, S, C)
  BY <1>1, <1>3, <1>4 DEF DeleteSale
<1>6. S \in [Sale -> SaleDoc] /\ S[s] = d /\ \A t \in Sale \ {s} : S[t] = sale[t]
  BY <1>2, <1>3 DEF IInv, TypeOK
<1>7. \A t \in Sale : \A c \in S[t].of : customer[c] # NoOne
  BY <1>2, <1>6 DEF IInv, StatsInv, UnbornUnnamed
<1>8. ASSUME NEW c \in CustomerId \ C
      PROVE  /\ Purchases(S, c) = Purchases(sale, c)
             /\ \A t \in Purchases(S, c) : S[t].total = sale[t].total
  BY <1>2, <1>4, <1>6 DEF Purchases
<1>9. EditSnapshotCurrent'
  <2>1. sale' = S /\ edit' = edit
    BY <1>5 DEF Commit, DeleteSale
  <2> SUFFICES ASSUME NEW a \in EditReq, edit[a].phase = "read"
               PROVE  LET o == edit[a]
                          x == S[o.sale] IN
                      /\ x.status # "none"
                      /\ x.status \in {"completed", "voided"} =>
                           /\ o.ver <= x.ver
                           /\ x.ver = o.ver => x.of = o.of
    BY <2>1 DEF EditSnapshotCurrent
  <2>2. edit[a].sale \in Sale
    BY DEF IInv, TypeOK, Edit, Idle, Done
  <2>3. CASE edit[a].sale = s
    BY <1>2, <1>6, <2>3
  <2>4. CASE edit[a].sale # s
    BY <1>6, <2>2, <2>4 DEF IInv, StatsInv, EditSnapshotCurrent
  <2> QED
    BY <2>3, <2>4
<1>10. edit' \in [EditReq -> {Idle, Done} \cup Edit] /\ UNCHANGED <<removal, ensure>>
  BY DEF DeleteSale, IInv, TypeOK
<1> QED
  BY <1>5, <1>6, <1>7, <1>8, <1>9, <1>10, CommitKeepsIInv, CustomersStand

-------------------------------------------------------------------------------
(* The reads, and the customer routes.                                     *)

\* A step that writes no customer and no call of the walk-in's keeps that part.
LEMMA WalkInSame ==
  ASSUME IInv, UNCHANGED <<customer, removal, ensure>>
  PROVE  WalkInInv'
BY DEF IInv, WalkInInv, UniquePhones, RemovalsRead, EnsuresFound, WalkInPermanent,
   Ensured, WithPhone, Live

LEMMA ReadForEditKeepsIInv ==
  ASSUME IInv, NEW e \in EditReq, NEW s \in Sale, ReadForEdit(e, s)
  PROVE  IInv'
<1>1. PICK q : q = [phase |-> "read", sale |-> s, of |-> sale[s].of,
                    ver |-> sale[s].ver]
  OBVIOUS
<1>2. q \in Edit
  BY <1>1 DEF Edit, IInv, TypeOK, SaleDoc
<1>3. edit' = [edit EXCEPT ![e] = q]
  BY <1>1 DEF ReadForEdit
<1>4. UNCHANGED <<customer, sale, recalc, removal, ensure, overtaken>>
  BY DEF ReadForEdit
<1>5. TypeOK'
  BY <1>2, <1>3, <1>4 DEF IInv, TypeOK
<1>6. EditSnapshotCurrent'
  <2>1. ASSUME NEW a \in EditReq, a # e PROVE edit'[a] = edit[a]
    BY <1>3, <2>1 DEF IInv, TypeOK
  <2>2. edit'[e] = q
    BY <1>3 DEF IInv, TypeOK
  <2>3. sale[s].status = "completed" /\ sale[s].ver \in Nat
    BY DEF ReadForEdit, IInv, TypeOK, SaleDoc
  <2> QED
    BY <1>1, <1>4, <2>1, <2>2, <2>3 DEF IInv, StatsInv, EditSnapshotCurrent
<1>7. RecalcCurrent' /\ UnbornUnnamed' /\ StatsMatchSales'
  BY <1>4 DEF IInv, StatsInv, RecalcCurrent, UnbornUnnamed, StatsMatchSales, Live
<1> QED
  BY <1>4, <1>5, <1>6, <1>7, WalkInSame DEF IInv, StatsInv

LEMMA RefuseEditKeepsIInv ==
  ASSUME IInv, NEW e \in EditReq, RefuseEdit(e)
  PROVE  IInv'
<1>1. /\ edit' = [edit EXCEPT ![e] = Done]
      /\ UNCHANGED <<customer, sale, recalc, removal, ensure, overtaken>>
  BY DEF RefuseEdit
<1>2. TypeOK'
  BY <1>1 DEF IInv, TypeOK
<1>3. EditSnapshotCurrent'
  <2>1. ASSUME NEW a \in EditReq, edit'[a].phase = "read" PROVE edit'[a] = edit[a]
    BY <1>1, <2>1 DEF IInv, TypeOK, Done
  <2> QED
    BY <1>1, <2>1 DEF IInv, StatsInv, EditSnapshotCurrent
<1>4. RecalcCurrent' /\ UnbornUnnamed' /\ StatsMatchSales'
  BY <1>1 DEF IInv, StatsInv, RecalcCurrent, UnbornUnnamed, StatsMatchSales, Live
<1> QED
  BY <1>1, <1>2, <1>3, <1>4, WalkInSame DEF IInv, StatsInv

LEMMA ReadStatsKeepsIInv ==
  ASSUME IInv, NEW r \in RecalcReq, NEW c \in CustomerId, ReadStats(r, c)
  PROVE  IInv'
<1>1. PICK n \in Nat, t \in Nat : n = CountOf(sale, c) /\ t = SpentOf(sale, c)
  BY StatsType DEF IInv, TypeOK
<1>2. PICK q : q = [phase |-> "read", of |-> c, count |-> n, spent |-> t,
                    late |-> FALSE]
  OBVIOUS
<1>3. q \in Recalc
  BY <1>2 DEF Recalc
<1>4. /\ recalc' = [recalc EXCEPT ![r] = q]
      /\ UNCHANGED <<customer, sale, edit, removal, ensure, overtaken>>
  BY <1>1, <1>2 DEF ReadStats
<1>5. TypeOK'
  BY <1>3, <1>4 DEF IInv, TypeOK
<1>6. RecalcCurrent'
  <2>1. ASSUME NEW a \in RecalcReq, a # r PROVE recalc'[a] = recalc[a]
    BY <1>4, <2>1 DEF IInv, TypeOK
  <2>2. recalc'[r] = q
    BY <1>4 DEF IInv, TypeOK
  <2> QED
    BY <1>1, <1>2, <1>4, <2>1, <2>2 DEF IInv, StatsInv, RecalcCurrent
<1>7. EditSnapshotCurrent' /\ UnbornUnnamed' /\ StatsMatchSales'
  BY <1>4 DEF IInv, StatsInv, EditSnapshotCurrent, UnbornUnnamed, StatsMatchSales, Live
<1> QED
  BY <1>4, <1>5, <1>6, <1>7, WalkInSame DEF IInv, StatsInv

LEMMA WriteStatsKeepsIInv ==
  ASSUME IInv, NEW r \in RecalcReq, WriteStats(r)
  PROVE  IInv'
<1>1. PICK q : q = recalc[r]
  OBVIOUS
<1>2. q \in Recalc /\ q.of \in CustomerId /\ q.count \in Nat /\ q.spent \in Nat
  BY <1>1 DEF WriteStats, IInv, TypeOK, Recalc, Idle, Done
<1>3. PICK c \in CustomerId : c = q.of
  BY <1>2
<1>4. recalc' = [recalc EXCEPT ![r] = Done] /\ UNCHANGED <<sale, edit, removal, ensure>>
  BY DEF WriteStats
<1>5. RecalcCurrent'
  <2>1. ASSUME NEW a \in RecalcReq, recalc'[a].phase = "read" PROVE recalc'[a] = recalc[a]
    BY <1>4, <2>1 DEF IInv, TypeOK, Done
  <2> QED
    BY <1>4, <2>1 DEF IInv, StatsInv, RecalcCurrent
<1>6. EditSnapshotCurrent'
  BY <1>4 DEF IInv, StatsInv, EditSnapshotCurrent
<1>7. CASE ~Live(c)
  <2>1. UNCHANGED <<customer, overtaken>>
    BY <1>1, <1>3, <1>7 DEF WriteStats
  <2>2. TypeOK'
    BY <1>4, <2>1 DEF IInv, TypeOK
  <2>3. UnbornUnnamed' /\ StatsMatchSales'
    BY <1>4, <2>1 DEF IInv, StatsInv, UnbornUnnamed, StatsMatchSales, Live
  <2> QED
    BY <1>4, <1>5, <1>6, <2>1, <2>2, <2>3, WalkInSame DEF IInv, StatsInv
<1>8. CASE Live(c)
  <2>1. PICK d : d = [customer[c] EXCEPT !.count = q.count, !.spent = q.spent]
    OBVIOUS
  <2>2. customer[c] \in Customer
    BY <1>8, DocType, LiveIsCustomer DEF IInv, Live
  <2>3. /\ d \in Customer /\ d.status = "live" /\ d.phone = customer[c].phone
        /\ d.isWalkIn = customer[c].isWalkIn /\ d.count = q.count /\ d.spent = q.spent
    BY <1>2, <2>1, <2>2 DEF Customer
  <2>4. customer' = [customer EXCEPT ![c].count = q.count, ![c].spent = q.spent]
    BY <1>1, <1>3, <1>8 DEF WriteStats
  <2>5. customer' = [customer EXCEPT ![c] = d]
    BY <2>1, <2>4 DEF IInv, TypeOK
  <2>6. customer'[c] = d /\ \A a \in CustomerId \ {c} : customer'[a] = customer[a]
    BY <2>5 DEF IInv, TypeOK
  <2>7. overtaken' = IF q.late THEN overtaken \cup {c} ELSE overtaken \ {c}
    BY <1>1, <1>3, <1>8 DEF WriteStats
  <2>8. TypeOK'
    BY <1>4, <2>3, <2>5, <2>7 DEF IInv, TypeOK
  <2>9. \A a \in CustomerId : customer[a] # NoOne => customer'[a] # NoOne
    BY <2>3, <2>6 DEF NoOne
  <2>10. UnbornUnnamed'
    <3>1. \A s \in Sale : sale[s].of \subseteq CustomerId
      BY DEF IInv, TypeOK, SaleDoc
    <3> QED
      BY <1>4, <2>9, <3>1 DEF IInv, StatsInv, UnbornUnnamed
  <2>11. StatsMatchSales'
    <3> SUFFICES ASSUME NEW a \in CustomerId, Live(a)', a \notin overtaken'
                 PROVE  /\ customer'[a].count = CountOf(sale, a)
                        /\ customer'[a].spent = SpentOf(sale, a)
      BY <1>4 DEF StatsMatchSales
    <3>1. CASE a = c
      <4>1. ~q.late
        BY <2>7, <3>1
      <4>2. q.count = CountOf(sale, c) /\ q.spent = SpentOf(sale, c)
        BY <1>1, <1>2, <1>3, <4>1 DEF WriteStats, IInv, StatsInv, RecalcCurrent
      <4> QED
        BY <2>3, <2>6, <3>1, <4>2
    <3>2. CASE a # c
      <4>1. customer'[a] = customer[a] /\ Live(a) /\ a \notin overtaken
        BY <2>6, <2>7, <3>2 DEF Live
      <4> QED
        BY <4>1 DEF IInv, StatsInv, StatsMatchSales
    <3> QED
      BY <3>1, <3>2
  <2>12. \A a \in CustomerId : Live(a) =>
           /\ Live(a)'
           /\ customer'[a].phone = customer[a].phone
           /\ customer[a].isWalkIn => customer'[a].isWalkIn
    BY <2>3, <2>6 DEF Live
  <2>13. \A a \in CustomerId : customer[a] # NoOne /\ ~Live(a) => customer'[a] = customer[a]
    BY <1>8, <2>6
  <2>14. UniquePhones'
    <3>1. \A a \in CustomerId : Live(a)' => Live(a) /\ customer'[a].phone = customer[a].phone
      BY <1>8, <2>3, <2>6 DEF Live
    <3> QED
      BY <3>1 DEF IInv, WalkInInv, UniquePhones
  <2>15. WalkInInv'
    BY <1>4, <2>12, <2>13, <2>14, WalkInKept DEF IInv
  <2> QED
    BY <1>5, <1>6, <2>8, <2>10, <2>11, <2>15 DEF IInv, StatsInv
<1> QED
  BY <1>7, <1>8

\* A new document whose phone nobody has keeps the statistics, the index and what
\* the walk-in's part asks of the customers.
LEMMA InsertedKeeps ==
  ASSUME IInv, NEW c \in CustomerId, NEW p \in Phone, NEW walk \in BOOLEAN,
         customer[c] = NoOne, WithPhone(p) = {}, Inserted(c, p, walk),
         UNCHANGED <<sale, edit, recalc, overtaken>>
  PROVE  /\ customer' \in [CustomerId -> Docs]
         /\ StatsInv'
         /\ UniquePhones'
         /\ \A a \in CustomerId : Live(a) =>
              /\ Live(a)'
              /\ customer'[a].phone = customer[a].phone
              /\ customer[a].isWalkIn => customer'[a].isWalkIn
         /\ \A a \in CustomerId : customer[a] # NoOne /\ ~Live(a) =>
              customer'[a] = customer[a]
         /\ customer'[c].phone = p
         /\ customer'[c].isWalkIn = walk
         /\ Live(c)'
<1>1. PICK d : d = NewCustomer(p, walk)
  OBVIOUS
<1>2. /\ d \in Customer /\ d.status = "live" /\ d.phone = p /\ d.isWalkIn = walk
      /\ d.count = 0 /\ d.spent = 0
  BY <1>1 DEF NewCustomer, Customer
<1>3. customer' = [customer EXCEPT ![c] = d]
  BY <1>1 DEF Inserted
<1>4. customer'[c] = d /\ \A a \in CustomerId \ {c} : customer'[a] = customer[a]
  BY <1>3 DEF IInv, TypeOK
<1>5. customer' \in [CustomerId -> Docs]
  BY <1>2, <1>3 DEF IInv, TypeOK, Docs
<1>6. ~Live(c)
  BY DEF Live, NoOne
<1>7. UniquePhones'
  <2> SUFFICES ASSUME NEW a \in CustomerId, NEW b \in CustomerId, Live(a)', Live(b)',
                      customer'[a].phone = customer'[b].phone
               PROVE  a = b
    BY DEF UniquePhones
  <2>1. ASSUME NEW x \in CustomerId, x # c, Live(x)'
        PROVE  Live(x) /\ customer'[x] = customer[x] /\ customer[x].phone # p
    <3>1. customer'[x] = customer[x] /\ Live(x)
      BY <1>4, <2>1 DEF Live
    <3> QED
      BY <3>1 DEF WithPhone
  <2>2. CASE a = c
    BY <1>2, <1>4, <2>1, <2>2
  <2>3. CASE a # c
    <3>1. CASE b = c
      BY <1>2, <1>4, <2>1, <2>3, <3>1
    <3>2. CASE b # c
      BY <2>1, <2>3, <3>2 DEF IInv, WalkInInv, UniquePhones
    <3> QED
      BY <3>1, <3>2
  <2> QED
    BY <2>2, <2>3
<1>8. \A a \in CustomerId : Live(a) =>
        /\ Live(a)'
        /\ customer'[a].phone = customer[a].phone
        /\ customer[a].isWalkIn => customer'[a].isWalkIn
  BY <1>4, <1>6 DEF Live
<1>9. \A a \in CustomerId : customer[a] # NoOne /\ ~Live(a) => customer'[a] = customer[a]
  BY <1>4
<1>10. StatsInv'
  <2>1. \A a \in CustomerId : customer[a] # NoOne => customer'[a] # NoOne
    BY <1>4
  <2>2. \A a \in CustomerId : Live(a)' =>
          \/ /\ Live(a)
             /\ customer'[a].count = customer[a].count
             /\ customer'[a].spent = customer[a].spent
          \/ /\ customer[a] = NoOne
             /\ customer'[a].count = 0
             /\ customer'[a].spent = 0
    BY <1>2, <1>4 DEF Live
  <2> QED
    BY <2>1, <2>2, StatsKept DEF IInv
<1>11. Live(c)'
  BY <1>2, <1>4 DEF Live
<1> QED
  BY <1>2, <1>4, <1>5, <1>7, <1>8, <1>9, <1>10, <1>11

LEMMA CreateCustomerKeepsIInv ==
  ASSUME IInv, NEW c \in CustomerId, NEW p \in Phone, CreateCustomer(c, p)
  PROVE  IInv'
<1>1. /\ customer[c] = NoOne /\ WithPhone(p) = {} /\ Inserted(c, p, FALSE)
      /\ UNCHANGED <<sale, edit, recalc, removal, ensure, overtaken>>
  BY DEF CreateCustomer
<1>2. /\ customer' \in [CustomerId -> Docs]
      /\ StatsInv'
      /\ UniquePhones'
      /\ \A a \in CustomerId : Live(a) =>
           /\ Live(a)'
           /\ customer'[a].phone = customer[a].phone
           /\ customer[a].isWalkIn => customer'[a].isWalkIn
      /\ \A a \in CustomerId : customer[a] # NoOne /\ ~Live(a) =>
           customer'[a] = customer[a]
  BY <1>1, InsertedKeeps
<1>3. TypeOK'
  BY <1>1, <1>2 DEF IInv, TypeOK, Docs
<1>4. WalkInInv'
  BY <1>1, <1>2, WalkInKept DEF IInv
<1> QED
  BY <1>2, <1>3, <1>4 DEF IInv

LEMMA ReadForRemovalKeepsIInv ==
  ASSUME IInv, NEW d \in RemoveReq, NEW c \in CustomerId, ReadForRemoval(d, c)
  PROVE  IInv'
<1>1. PICK q : q = [phase |-> "read", of |-> c, phone |-> customer[c].phone,
                    isWalkIn |-> customer[c].isWalkIn]
  OBVIOUS
<1>2. /\ removal[d] = Idle /\ Live(c) /\ ~customer[c].isWalkIn
      /\ removal' = [removal EXCEPT ![d] = q]
      /\ UNCHANGED <<customer, sale, edit, recalc, ensure, overtaken>>
  BY <1>1 DEF ReadForRemoval, Removable
<1>3. customer[c] \in Customer /\ customer[c] # NoOne
  BY <1>2, DocType, LiveIsCustomer DEF IInv, Live
<1>4. q \in Removal
  BY <1>1, <1>3 DEF Removal, Customer
<1>5. TypeOK'
  BY <1>2, <1>4 DEF IInv, TypeOK
<1>6. StatsInv'
  BY <1>2 DEF IInv, StatsInv, EditSnapshotCurrent, RecalcCurrent, UnbornUnnamed,
     StatsMatchSales, Live
<1>7. removal'[d] = q /\ \A e \in RemoveReq \ {d} : removal'[e] = removal[e]
  BY <1>2 DEF IInv, TypeOK
<1>8. RemovalsRead'
  BY <1>1, <1>2, <1>3, <1>7 DEF IInv, WalkInInv, RemovalsRead, Live
<1>9. UniquePhones' /\ EnsuresFound'
  BY <1>2 DEF IInv, WalkInInv, UniquePhones, EnsuresFound, Live
<1>10. WalkInPermanent'
  <2>1. ASSUME NEW e \in RemoveReq, removal[e].phase = "done"
        PROVE  removal'[e] = removal[e]
    BY <1>2, <1>7, <2>1 DEF Idle
  <2> QED
    BY <1>2, <2>1 DEF IInv, WalkInInv, WalkInPermanent, Ensured, WithPhone, Live
<1> QED
  BY <1>5, <1>6, <1>8, <1>9, <1>10 DEF IInv, WalkInInv

LEMMA RemoveKeepsIInv ==
  ASSUME IInv, NEW d \in RemoveReq, Remove(d)
  PROVE  IInv'
<1>1. PICK q : q = removal[d]
  OBVIOUS
<1>2. q \in Removal /\ q.phase = "read" /\ q.of \in CustomerId
  BY <1>1 DEF Remove, IInv, TypeOK, Removal, Idle
<1>3. PICK c \in CustomerId : c = q.of
  BY <1>2
<1>4. PICK x : x = [q EXCEPT !.phase = "done"]
  OBVIOUS
<1>5. /\ x \in Removal /\ x.phase = "done" /\ x.phone = q.phone
      /\ x.isWalkIn = q.isWalkIn
  BY <1>2, <1>4 DEF Removal
<1>6. removal' = [removal EXCEPT ![d] = x]
  BY <1>1, <1>4 DEF Remove, IInv, TypeOK
<1>7. removal'[d] = x /\ \A e \in RemoveReq \ {d} : removal'[e] = removal[e]
  BY <1>6 DEF IInv, TypeOK
<1>8. /\ customer' = IF Live(c) THEN [customer EXCEPT ![c] = Gone] ELSE customer
      /\ UNCHANGED <<sale, edit, recalc, ensure, overtaken>>
  BY <1>1, <1>3 DEF Remove
<1>9. /\ ~q.isWalkIn
      /\ customer[c] # NoOne
      /\ Live(c) => customer[c].phone = q.phone
  BY <1>1, <1>2, <1>3 DEF IInv, WalkInInv, RemovalsRead
<1>10. \A a \in CustomerId : \/ customer'[a] = customer[a]
                             \/ a = c /\ Live(c) /\ customer'[c] = Gone
  BY <1>8 DEF IInv, TypeOK
<1>11. \A a \in CustomerId : Live(a)' => Live(a) /\ customer'[a] = customer[a]
  BY <1>10 DEF Live, Gone
<1>12. \A a \in CustomerId : customer[a] # NoOne => customer'[a] # NoOne
  BY <1>10 DEF NoOne, Gone
<1>13. TypeOK'
  BY <1>5, <1>6, <1>8 DEF IInv, TypeOK
<1>14. StatsInv'
  BY <1>8, <1>11, <1>12, StatsKept DEF IInv
<1>15. UniquePhones'
  BY <1>11 DEF IInv, WalkInInv, UniquePhones
<1>16. EnsuresFound'
  <2> SUFFICES ASSUME NEW w \in EnsureReq, ensure[w].phase = "found"
               PROVE  /\ customer'[ensure[w].of] # NoOne
                      /\ customer'[ensure[w].of].status = "live" =>
                           customer'[ensure[w].of].phone = WalkIn
    BY <1>8 DEF EnsuresFound, Live
  <2>1. PICK a \in CustomerId : a = ensure[w].of
    BY DEF IInv, TypeOK, Idle, Ensure
  <2>2. customer[a] # NoOne /\ (Live(a) => customer[a].phone = WalkIn)
    BY <2>1 DEF IInv, WalkInInv, EnsuresFound
  <2> QED
    BY <1>11, <1>12, <2>1, <2>2 DEF Live
<1>17. RemovalsRead'
  <2> SUFFICES ASSUME NEW e \in RemoveReq, removal'[e].phase = "read"
               PROVE  /\ ~removal'[e].isWalkIn
                      /\ customer'[removal'[e].of] # NoOne
                      /\ customer'[removal'[e].of].status = "live" =>
                           customer'[removal'[e].of].phone = removal'[e].phone
    BY DEF RemovalsRead, Live
  <2>1. removal'[e] = removal[e] /\ removal[e].phase = "read"
    BY <1>5, <1>7
  <2>2. PICK a \in CustomerId : a = removal[e].of
    BY <2>1 DEF IInv, TypeOK, Idle, Removal
  <2>3. /\ ~removal[e].isWalkIn
        /\ customer[a] # NoOne
        /\ Live(a) => customer[a].phone = removal[e].phone
    BY <2>1, <2>2 DEF IInv, WalkInInv, RemovalsRead
  <2> QED
    BY <1>11, <1>12, <2>1, <2>2, <2>3 DEF Live
<1>18. WalkInPermanent'
  <2> SUFFICES ASSUME NEW w \in EnsureReq, Ensured(w)',
                      ~ \E e \in RemoveReq : /\ removal'[e].phase = "done"
                                             /\ removal'[e].phone = WalkIn
                                             /\ ~removal'[e].isWalkIn
               PROVE  \E a \in WithPhone(WalkIn)' :
                        WithPhone(WalkIn)' = {a} /\ customer'[a].isWalkIn
    BY DEF WalkInPermanent
  <2>1. Ensured(w)
    BY <1>8 DEF Ensured
  <2>2. ~ \E e \in RemoveReq : /\ removal[e].phase = "done"
                               /\ removal[e].phone = WalkIn
                               /\ ~removal[e].isWalkIn
    BY <1>1, <1>2, <1>7
  <2>3. PICK a \in WithPhone(WalkIn) : WithPhone(WalkIn) = {a} /\ customer[a].isWalkIn
    BY <2>1, <2>2 DEF IInv, WalkInInv, WalkInPermanent
  <2>4. ~(a = c /\ Live(c))
    <3> SUFFICES ASSUME a = c, Live(c) PROVE FALSE
      OBVIOUS
    <3>1. q.phone = WalkIn
      BY <1>9, <2>3 DEF WithPhone
    <3> QED
      BY <1>5, <1>7, <1>9, <3>1
  <2>5. customer'[a] = customer[a] /\ a \in WithPhone(WalkIn)'
    BY <1>10, <2>3, <2>4 DEF WithPhone, Live
  <2>6. WithPhone(WalkIn)' = {a}
    BY <1>15, <2>5 DEF WithPhone, UniquePhones
  <2> QED
    BY <2>3, <2>5, <2>6
<1> QED
  BY <1>13, <1>14, <1>15, <1>16, <1>17, <1>18 DEF IInv, WalkInInv

-------------------------------------------------------------------------------
(* ensureWalkInCustomer.                                                   *)

\* One call moves to x, the customers standing as the step leaves them.
LEMMA EnsureMoves ==
  ASSUME IInv, NEW w \in EnsureReq, NEW x \in Ensure,
         ensure' = [ensure EXCEPT ![w] = x],
         customer' \in [CustomerId -> Docs], UniquePhones',
         \A c \in CustomerId : Live(c) =>
           /\ Live(c)'
           /\ customer'[c].phone = customer[c].phone
           /\ customer[c].isWalkIn => customer'[c].isWalkIn,
         \A c \in CustomerId : customer[c] # NoOne /\ ~Live(c) =>
           customer'[c] = customer[c],
         x.phase = "found" => /\ x.of \in CustomerId
                              /\ Live(x.of)' /\ customer'[x.of].phone = WalkIn,
         x.phase = "answered" /\ x.of # {} =>
           \E c \in CustomerId :
             Live(c)' /\ customer'[c].phone = WalkIn /\ customer'[c].isWalkIn,
         StatsInv', UNCHANGED <<sale, edit, recalc, removal, overtaken>>
  PROVE  IInv'
<1>1. TypeOK'
  BY DEF IInv, TypeOK, Docs
<1>2. ensure'[w] = x /\ \A v \in EnsureReq \ {w} : ensure'[v] = ensure[v]
  BY DEF IInv, TypeOK
<1>3. ASSUME NEW c \in CustomerId, customer[c] # NoOne
      PROVE  /\ customer'[c] # NoOne
             /\ Live(c)' => Live(c)
  BY <1>3 DEF Live, NoOne
<1>4. RemovalsRead'
  <2> SUFFICES ASSUME NEW d \in RemoveReq, removal[d].phase = "read"
               PROVE  /\ ~removal[d].isWalkIn
                      /\ customer'[removal[d].of] # NoOne
                      /\ Live(removal[d].of)' =>
                           customer'[removal[d].of].phone = removal[d].phone
    BY DEF RemovalsRead
  <2>1. removal[d].of \in CustomerId
    BY DEF IInv, TypeOK, Idle, Removal
  <2> QED
    BY <1>3, <2>1 DEF IInv, WalkInInv, RemovalsRead
<1>5. EnsuresFound'
  <2> SUFFICES ASSUME NEW v \in EnsureReq, ensure'[v].phase = "found"
               PROVE  /\ customer'[ensure'[v].of] # NoOne
                      /\ customer'[ensure'[v].of].status = "live" =>
                           customer'[ensure'[v].of].phone = WalkIn
    BY DEF EnsuresFound, Live
  <2>1. CASE v = w
    <3>1. PICK a : a = x.of
      OBVIOUS
    <3>2. a \in CustomerId /\ Live(a)' /\ customer'[a].phone = WalkIn
      BY <1>2, <2>1, <3>1
    <3>3. customer'[a] # NoOne
      BY <3>2 DEF Live, NoOne
    <3> QED
      BY <1>2, <2>1, <3>1, <3>2, <3>3
  <2>2. CASE v # w
    <3>1. ensure'[v] = ensure[v]
      BY <1>2, <2>2
    <3>2. PICK a \in CustomerId : a = ensure[v].of
      BY <3>1 DEF IInv, TypeOK, Idle, Ensure
    <3>3. customer[a] # NoOne /\ (Live(a) => customer[a].phone = WalkIn)
      BY <3>1, <3>2 DEF IInv, WalkInInv, EnsuresFound
    <3>4. Live(a)' => customer'[a].phone = WalkIn
      BY <1>3, <3>3
    <3> QED
      BY <1>3, <3>1, <3>2, <3>3, <3>4 DEF Live
  <2> QED
    BY <2>1, <2>2
<1>6. WalkInPermanent'
  <2> SUFFICES ASSUME NEW v \in EnsureReq, Ensured(v)',
                      ~ \E d \in RemoveReq : /\ removal[d].phase = "done"
                                             /\ removal[d].phone = WalkIn
                                             /\ ~removal[d].isWalkIn
               PROVE  \E c \in WithPhone(WalkIn)' :
                        WithPhone(WalkIn)' = {c} /\ customer'[c].isWalkIn
    BY DEF WalkInPermanent
  <2>1. \E c \in CustomerId :
          Live(c)' /\ customer'[c].phone = WalkIn /\ customer'[c].isWalkIn
    <3>1. CASE v = w
      BY <1>2, <3>1 DEF Ensured
    <3>2. CASE v # w
      <4>1. Ensured(v)
        BY <1>2, <3>2 DEF Ensured
      <4>2. PICK c \in WithPhone(WalkIn) : customer[c].isWalkIn
        BY <4>1 DEF IInv, WalkInInv, WalkInPermanent
      <4> QED
        BY <4>2 DEF WithPhone
    <3> QED
      BY <3>1, <3>2
  <2>2. PICK c \in CustomerId :
          Live(c)' /\ customer'[c].phone = WalkIn /\ customer'[c].isWalkIn
    BY <2>1
  <2>3. c \in WithPhone(WalkIn)' /\ WithPhone(WalkIn)' = {c}
    BY <2>2 DEF WithPhone, UniquePhones
  <2> QED
    BY <2>2, <2>3
<1> QED
  BY <1>1, <1>4, <1>5, <1>6 DEF IInv, WalkInInv

\* The same, for a step that leaves the customers alone.
LEMMA EnsureMovesAlone ==
  ASSUME IInv, NEW w \in EnsureReq, NEW x \in Ensure,
         ensure' = [ensure EXCEPT ![w] = x],
         x.phase = "found" => /\ x.of \in CustomerId
                              /\ Live(x.of) /\ customer[x.of].phone = WalkIn,
         x.phase = "answered" /\ x.of # {} =>
           \E c \in CustomerId :
             Live(c) /\ customer[c].phone = WalkIn /\ customer[c].isWalkIn,
         UNCHANGED <<customer, sale, edit, recalc, removal, overtaken>>
  PROVE  IInv'
<1>1. customer' \in [CustomerId -> Docs] /\ \A c \in CustomerId : Live(c)' <=> Live(c)
  BY CustomersStand DEF Live
<1>2. UniquePhones'
  BY DEF IInv, WalkInInv, UniquePhones, Live
<1>3. StatsInv'
  BY DEF IInv, StatsInv, EditSnapshotCurrent, RecalcCurrent, UnbornUnnamed,
     StatsMatchSales, Live
<1>4. x.phase = "found" => /\ x.of \in CustomerId
                           /\ Live(x.of)' /\ customer'[x.of].phone = WalkIn
  BY <1>1
<1>5. x.phase = "answered" /\ x.of # {} =>
        \E c \in CustomerId :
          Live(c)' /\ customer'[c].phone = WalkIn /\ customer'[c].isWalkIn
  BY <1>1
<1>6. \A c \in CustomerId : Live(c) =>
        /\ Live(c)'
        /\ customer'[c].phone = customer[c].phone
        /\ customer[c].isWalkIn => customer'[c].isWalkIn
  BY <1>1
<1> QED
  BY <1>1, <1>2, <1>3, <1>4, <1>5, <1>6, EnsureMoves

LEMMA FindWalkInKeepsIInv ==
  ASSUME IInv, NEW w \in EnsureReq, FindWalkIn(w)
  PROVE  IInv'
<1>1. UNCHANGED <<customer, sale, edit, recalc, removal, overtaken>>
  BY DEF FindWalkIn
<1>2. CASE WithPhone(WalkIn) = {}
  <2>1. PICK x : x = [phase |-> "missing"]
    OBVIOUS
  <2>2. x \in Ensure /\ ensure' = [ensure EXCEPT ![w] = x]
    BY <1>2, <2>1 DEF FindWalkIn, Ensure
  <2> QED
    BY <1>1, <2>1, <2>2, EnsureMovesAlone
<1>3. ASSUME NEW c \in WithPhone(WalkIn), customer[c].isWalkIn, Answers(w, {c})
      PROVE  IInv'
  <2>1. PICK x : x = [phase |-> "answered", of |-> {c}]
    OBVIOUS
  <2>2. c \in CustomerId /\ Live(c) /\ customer[c].phone = WalkIn
    BY DEF WithPhone
  <2>3. x \in Ensure
    BY <2>1, <2>2 DEF Ensure
  <2>4. ensure' = [ensure EXCEPT ![w] = x]
    BY <1>3, <2>1 DEF Answers
  <2> QED
    BY <1>1, <1>3, <2>1, <2>2, <2>3, <2>4, EnsureMovesAlone
<1>4. ASSUME NEW c \in WithPhone(WalkIn),
             ensure' = [ensure EXCEPT ![w] = [phase |-> "found", of |-> c]]
      PROVE  IInv'
  <2>1. PICK x : x = [phase |-> "found", of |-> c]
    OBVIOUS
  <2>2. c \in CustomerId /\ Live(c) /\ customer[c].phone = WalkIn
    BY DEF WithPhone
  <2>3. x \in Ensure
    BY <2>1, <2>2 DEF Ensure
  <2>4. ensure' = [ensure EXCEPT ![w] = x]
    BY <1>4, <2>1
  <2> QED
    BY <1>1, <2>1, <2>2, <2>3, <2>4, EnsureMovesAlone
<1> QED
  BY <1>2, <1>3, <1>4 DEF FindWalkIn

LEMMA CreateWalkInKeepsIInv ==
  ASSUME IInv, NEW w \in EnsureReq, CreateWalkIn(w)
  PROVE  IInv'
<1>1. UNCHANGED <<sale, edit, recalc, removal, overtaken>>
  BY DEF CreateWalkIn
<1>2. CASE WithPhone(WalkIn) = {}
  <2>1. PICK c \in CustomerId :
          customer[c] = NoOne /\ Inserted(c, WalkIn, TRUE) /\ Answers(w, {c})
    BY <1>2 DEF CreateWalkIn
  <2>2. WalkIn \in Phone
    BY CustomersAssumption DEF CustomersAssumption
  <2>3. /\ customer' \in [CustomerId -> Docs]
        /\ StatsInv'
        /\ UniquePhones'
        /\ \A a \in CustomerId : Live(a) =>
             /\ Live(a)'
             /\ customer'[a].phone = customer[a].phone
             /\ customer[a].isWalkIn => customer'[a].isWalkIn
        /\ \A a \in CustomerId : customer[a] # NoOne /\ ~Live(a) =>
             customer'[a] = customer[a]
        /\ customer'[c].phone = WalkIn
        /\ customer'[c].isWalkIn = TRUE
        /\ Live(c)'
    BY <1>1, <1>2, <2>1, <2>2, InsertedKeeps
  <2>4. PICK x : x = [phase |-> "answered", of |-> {c}]
    OBVIOUS
  <2>5. x \in Ensure /\ x.phase = "answered"
    BY <2>4 DEF Ensure
  <2>6. ensure' = [ensure EXCEPT ![w] = x]
    BY <2>1, <2>4 DEF Answers
  <2> QED
    BY <1>1, <2>3, <2>5, <2>6, EnsureMoves
<1>3. CASE WithPhone(WalkIn) # {}
  <2>1. PICK x : x = [phase |-> "answered", of |-> {}]
    OBVIOUS
  <2>2. x \in Ensure
    BY <2>1 DEF Ensure
  <2>3. UNCHANGED customer /\ ensure' = [ensure EXCEPT ![w] = x]
    BY <1>3, <2>1 DEF CreateWalkIn, Answers
  <2> QED
    BY <1>1, <2>1, <2>2, <2>3, EnsureMovesAlone
<1> QED
  BY <1>2, <1>3

LEMMA FlagWalkInKeepsIInv ==
  ASSUME IInv, NEW w \in EnsureReq, FlagWalkIn(w)
  PROVE  IInv'
<1>1. PICK c : c = ensure[w].of
  OBVIOUS
<1>2. /\ c \in CustomerId
      /\ Live(c) => customer[c].phone = WalkIn
  BY <1>1 DEF FlagWalkIn, IInv, TypeOK, Idle, Ensure, WalkInInv, EnsuresFound
<1>3. UNCHANGED <<sale, edit, recalc, removal, overtaken>>
  BY DEF FlagWalkIn
<1>4. CASE ~Live(c)
  <2>1. PICK x : x = [phase |-> "answered", of |-> {}]
    OBVIOUS
  <2>2. x \in Ensure
    BY <2>1 DEF Ensure
  <2>3. UNCHANGED customer /\ ensure' = [ensure EXCEPT ![w] = x]
    BY <1>1, <1>4, <2>1 DEF FlagWalkIn, Answers
  <2> QED
    BY <1>3, <2>1, <2>2, <2>3, EnsureMovesAlone
<1>5. CASE Live(c)
  <2>1. PICK x : x = [phase |-> "answered", of |-> {c}]
    OBVIOUS
  <2>2. x \in Ensure /\ x.phase = "answered"
    BY <1>2, <2>1 DEF Ensure
  <2>3. /\ customer' = [customer EXCEPT ![c].isWalkIn = TRUE]
        /\ ensure' = [ensure EXCEPT ![w] = x]
    BY <1>1, <1>5, <2>1 DEF FlagWalkIn, Answers
  <2>4. PICK d : d = [customer[c] EXCEPT !.isWalkIn = TRUE]
    OBVIOUS
  <2>5. customer[c] \in Customer
    BY <1>2, <1>5, DocType, LiveIsCustomer DEF IInv, Live
  <2>6. /\ d \in Customer /\ d.status = "live" /\ d.phone = customer[c].phone
        /\ d.isWalkIn = TRUE /\ d.count = customer[c].count
        /\ d.spent = customer[c].spent
    BY <2>4, <2>5 DEF Customer
  <2>7. customer' = [customer EXCEPT ![c] = d]
    BY <1>2, <2>3, <2>4 DEF IInv, TypeOK
  <2>8. customer'[c] = d /\ \A a \in CustomerId \ {c} : customer'[a] = customer[a]
    BY <1>2, <2>7 DEF IInv, TypeOK
  <2>9. customer' \in [CustomerId -> Docs]
    BY <2>6, <2>7 DEF IInv, TypeOK, Docs
  <2>10. \A a \in CustomerId : /\ Live(a)' <=> Live(a)
                               /\ Live(a) => customer'[a].phone = customer[a].phone
    BY <1>5, <2>6, <2>8 DEF Live
  <2>11. \A a \in CustomerId : Live(a) =>
           /\ Live(a)'
           /\ customer'[a].phone = customer[a].phone
           /\ customer[a].isWalkIn => customer'[a].isWalkIn
    BY <2>6, <2>8, <2>10
  <2>12. \A a \in CustomerId : customer[a] # NoOne /\ ~Live(a) =>
           customer'[a] = customer[a]
    BY <1>5, <2>8
  <2>13. UniquePhones'
    BY <2>10 DEF IInv, WalkInInv, UniquePhones
  <2>14. StatsInv'
    <3>1. \A a \in CustomerId : customer[a] # NoOne => customer'[a] # NoOne
      BY <2>6, <2>8 DEF NoOne
    <3>2. \A a \in CustomerId : Live(a)' =>
            /\ Live(a)
            /\ customer'[a].count = customer[a].count
            /\ customer'[a].spent = customer[a].spent
      BY <2>6, <2>8, <2>10
    <3> QED
      BY <1>3, <3>1, <3>2, StatsKept DEF IInv
  <2>15. Live(c)' /\ customer'[c].phone = WalkIn /\ customer'[c].isWalkIn
    BY <1>2, <1>5, <2>6, <2>8, <2>10
  <2> QED
    BY <1>2, <1>3, <2>2, <2>3, <2>9, <2>11, <2>12, <2>13, <2>14, <2>15, EnsureMoves
<1> QED
  BY <1>4, <1>5

-------------------------------------------------------------------------------
(* Every step keeps the invariant.                                         *)

LEMMA NextKeepsIInv == IInv /\ [Next]_vars => IInv'
<1> SUFFICES ASSUME IInv, [Next]_vars PROVE IInv'
  OBVIOUS
<1>1. CASE UNCHANGED vars
  <2>1. TypeOK'
    BY <1>1 DEF vars, IInv, TypeOK
  <2>2. StatsInv'
    BY <1>1 DEF vars, IInv, StatsInv, EditSnapshotCurrent, RecalcCurrent,
       UnbornUnnamed, StatsMatchSales, Live
  <2>3. WalkInInv'
    BY <1>1, WalkInSame DEF vars
  <2> QED
    BY <2>1, <2>2, <2>3 DEF IInv
<1>2. CASE SaleStep
  BY <1>2, CreateSaleKeepsIInv, ReadForEditKeepsIInv, CommitEditKeepsIInv,
     RefuseEditKeepsIInv, VoidSaleKeepsIInv, DeleteSaleKeepsIInv DEF SaleStep
<1>3. CASE CustomerStep
  BY <1>3, CreateCustomerKeepsIInv, ReadStatsKeepsIInv, WriteStatsKeepsIInv,
     ReadForRemovalKeepsIInv, RemoveKeepsIInv DEF CustomerStep
<1>4. CASE EnsureStep
  BY <1>4, FindWalkInKeepsIInv, CreateWalkInKeepsIInv, FlagWalkInKeepsIInv
  DEF EnsureStep
<1> QED
  BY <1>1, <1>2, <1>3, <1>4 DEF Next

\* The invariant holds in every state.
LEMMA InvariantHolds == Spec => []IInv
BY InitIInv, NextKeepsIInv, PTL DEF Spec

-------------------------------------------------------------------------------
(* Theorems.                                                               *)

\* Whatever the sale and customer routes do to each other, the documents and the
\* requests have the shapes of their phases.
THEOREM TypeCorrect == Spec => []TypeOK
<1>1. IInv => TypeOK
  BY DEF IInv
<1> QED
  BY <1>1, InvariantHolds, PTL

\* A customer's number of purchases and total spent are those of its completed
\* sales through every create, edit, void and delete, unless POST /:id/recalculate
\* wrote numbers that a sale had overtaken.
THEOREM StatisticsFollowSales == Spec => []StatsMatchSales
<1>1. IInv => StatsMatchSales
  BY DEF IInv, StatsInv
<1> QED
  BY <1>1, InvariantHolds, PTL

\* Once ensureWalkInCustomer has answered, there is exactly one record with the
\* walk-in's phone and it is flagged, unless a deletion had read it unflagged.
THEOREM WalkInStays == Spec => []WalkInPermanent
<1>1. IInv => WalkInPermanent
  BY DEF IInv, WalkInInv
<1> QED
  BY <1>1, InvariantHolds, PTL
===============================================================================
