--------------------------- MODULE SaleIntakeProofs ---------------------------
(***************************************************************************)
(* Proofs about SaleIntake, for any number of tills, receipts and copies   *)
(* of a request.                                                           *)
(***************************************************************************)
EXTENDS SaleIntake, SumsProofs, TLAPS

\* The documents and their history agree: at most one document with each
\* clientSaleId, and it is the one that was made and not removed.
OneDocument == \A c, d \in sales : c.id = d.id => c = d

MadeAndKept ==
  \A i \in Id : made[i] = removed[i] + (IF With(i) = {} THEN 0 ELSE 1)

\* Every document was created from a receipt.
FromReceipts ==
  \A d \in sales : \E x \in Receipt : x.id = d.id /\ x.payload = d.sold

\* What the database and the handlers satisfy between any two steps.
IInv ==
  /\ TypeOK
  /\ OneDocument
  /\ MadeAndKept
  /\ FromReceipts

-------------------------------------------------------------------------------

\* What the requests do to themselves is well typed.
LEMMA RequestType ==
  ASSUME TypeOK, NEW r \in Request, req[r].phase # "idle"
  PROVE  /\ req[r].receipt \in Receipt
         /\ \A phase \in {"find", "check", "commit", "refind"} :
              GoesTo(r, phase) => req' \in [Request -> {Idle} \cup Underway \cup Answered]
         /\ \A d \in SaleDoc, raced \in BOOLEAN :
              Takes(r, d, raced) => req' \in [Request -> {Idle} \cup Underway \cup Answered]
         /\ \A how \in {"refused", "error"} :
              Rejects(r, how) => req' \in [Request -> {Idle} \cup Underway \cup Answered]
<1>1. req[r] \in Underway \/ req[r] \in Answered
  BY DEF TypeOK, Idle
<1>2. req[r].receipt \in Receipt
  BY <1>1 DEF Underway, Answered
<1>3. ASSUME NEW phase \in {"find", "check", "commit", "refind"}, GoesTo(r, phase)
      PROVE  req' \in [Request -> {Idle} \cup Underway \cup Answered]
  <2>1. [phase |-> phase, receipt |-> req[r].receipt] \in Underway
    BY <1>2 DEF Underway
  <2> QED
    BY <1>3, <2>1 DEF GoesTo, TypeOK
<1>4. ASSUME NEW d \in SaleDoc, NEW raced \in BOOLEAN, Takes(r, d, raced)
      PROVE  req' \in [Request -> {Idle} \cup Underway \cup Answered]
  <2>1. [phase |-> "answered", receipt |-> req[r].receipt, answer |-> "taken",
         sale |-> Named(d), raced |-> raced] \in Answered
    BY <1>2 DEF Answered, SaleDoc, Named
  <2> QED
    BY <1>4, <2>1 DEF Takes, TypeOK
<1>5. ASSUME NEW how \in {"refused", "error"}, Rejects(r, how)
      PROVE  req' \in [Request -> {Idle} \cup Underway \cup Answered]
  <2>1. [phase |-> "answered", receipt |-> req[r].receipt, answer |-> how]
          \in Answered
    BY <1>2 DEF Answered
  <2> QED
    BY <1>5, <2>1 DEF Rejects, TypeOK
<1> QED
  BY <1>2, <1>3, <1>4, <1>5

\* Initially nothing was made.
LEMMA InitIInv == Init => IInv
BY IntakeAssumption
   DEF Init, IInv, TypeOK, OneDocument, MadeAndKept, FromReceipts, With,
       IntakeAssumption

\* A step that writes no document keeps what is said about documents.
LEMMA DocumentsUntouched ==
  ASSUME IInv, TypeOK', UNCHANGED <<sales, made, removed>>
  PROVE  IInv'
BY DEF IInv, OneDocument, MadeAndKept, FromReceipts, With

\* The till and the clock.
LEMMA TillKeepsIInv ==
  ASSUME IInv,
         \/ \E r \in Request, x \in Receipt : Offer(r, x) \/ Deliver(r, x)
         \/ \E r \in Request : Lose(r)
         \/ \E x \in Receipt : Expire(x)
  PROVE  IInv'
<1> USE DEF IInv
<1>1. ASSUME NEW r \in Request, NEW x \in Receipt, Offer(r, x) PROVE IInv'
  <2>1. [phase |-> "find", receipt |-> x] \in Underway
    BY DEF Underway
  <2>2. TypeOK'
    BY <1>1, <2>1 DEF Offer, TypeOK
  <2> QED
    BY <1>1, <2>2, DocumentsUntouched DEF Offer
<1>2. ASSUME NEW r \in Request, NEW x \in Receipt, Deliver(r, x) PROVE IInv'
  <2>1. req[r] \in Answered
    BY <1>2 DEF Deliver, TypeOK, Idle, Underway
  <2>2. req[r].answer \in {"taken", "refused", "error"}
    BY <2>1 DEF Answered
  <2>3. TypeOK'
    BY <1>2, <2>2 DEF Deliver, TypeOK
  <2> QED
    BY <1>2, <2>3, DocumentsUntouched DEF Deliver
<1>3. ASSUME NEW r \in Request, Lose(r) PROVE IInv'
  <2>1. TypeOK'
    BY <1>3 DEF Lose, TypeOK
  <2> QED
    BY <1>3, <2>1, DocumentsUntouched DEF Lose
<1>4. ASSUME NEW x \in Receipt, Expire(x) PROVE IInv'
  <2>1. TypeOK'
    BY <1>4 DEF Expire, TypeOK
  <2> QED
    BY <1>4, <2>1, DocumentsUntouched DEF Expire
<1> QED
  BY <1>1, <1>2, <1>3, <1>4

\* A handler that only reads.
LEMMA ReadsKeepIInv ==
  ASSUME IInv, NEW r \in Request, NEW x \in Receipt,
         FindExisting(r, x) \/ CheckStock(r, x) \/ Replay(r, x)
  PROVE  IInv'
<1> USE DEF IInv
<1>1. req[r].phase # "idle" /\ req[r].receipt = x
  BY DEF FindExisting, CheckStock, Replay
<1>2. With(x.id) \subseteq SaleDoc
  BY DEF With, TypeOK
<1>3. req' \in [Request -> {Idle} \cup Underway \cup Answered]
  BY <1>1, <1>2, RequestType DEF FindExisting, CheckStock, Replay
<1>4. TypeOK'
  BY <1>3 DEF FindExisting, CheckStock, Replay, TypeOK
<1> QED
  BY <1>4, DocumentsUntouched DEF FindExisting, CheckStock, Replay

\* The transaction: the unique index leaves room for one document.
LEMMA CommitKeepsIInv ==
  ASSUME IInv, NEW r \in Request, NEW x \in Receipt, CommitSale(r, x)
  PROVE  IInv'
<1> DEFINE d == [id |-> x.id, token |-> x.token, sold |-> x.payload,
                 payload |-> x.payload, status |-> "completed"]
<1> USE DEF IInv
<1>1. req[r].phase # "idle" /\ req[r].receipt = x
  BY DEF CommitSale
<1>2. x.id \in Id /\ x.token \in Token /\ x.payload \in Payload
  BY IntakeAssumption DEF IntakeAssumption
<1>3. d \in SaleDoc
  BY <1>2 DEF SaleDoc
<1>4. Need[x.payload] \in Nat
  BY <1>2, IntakeAssumption DEF IntakeAssumption
<1>5. req' \in [Request -> {Idle} \cup Underway \cup Answered]
  BY <1>1, <1>3, RequestType DEF CommitSale
<1>6. CASE UNCHANGED <<stock, sales, made>>
  <2>1. TypeOK'
    BY <1>5, <1>6 DEF CommitSale, TypeOK
  <2> QED
    BY <1>6, <2>1, DocumentsUntouched DEF CommitSale
<1>7. CASE /\ stock >= Need[x.payload]
           /\ Clashes(x) = {}
           /\ stock' = stock - Need[x.payload]
           /\ sales' = sales \cup {d}
           /\ made' = [made EXCEPT ![x.id] = @ + 1]
  <2>1. TypeOK'
    BY <1>2, <1>3, <1>4, <1>5, <1>7 DEF CommitSale, TypeOK
  <2>2. \A c \in sales : c.id # x.id
    BY <1>7 DEF Clashes
  <2>3. OneDocument'
    BY <1>7, <2>2 DEF OneDocument
  <2>4. removed' = removed
    BY DEF CommitSale
  <2>5. MadeAndKept'
    <3> SUFFICES ASSUME NEW i \in Id
                 PROVE  made'[i] = removed'[i] + (IF With(i)' = {} THEN 0 ELSE 1)
      BY DEF MadeAndKept
    <3>1. CASE i = x.id
      <4>1. With(i) = {} /\ d \in With(i)'
        BY <1>7, <2>2, <3>1 DEF With
      <4>2. made[i] = removed[i] /\ removed[i] \in Nat
        BY <4>1 DEF MadeAndKept, TypeOK
      <4>3. made'[i] = made[i] + 1
        BY <1>7, <3>1 DEF TypeOK
      <4> QED
        BY <2>4, <4>1, <4>2, <4>3
    <3>2. CASE i # x.id
      <4>1. With(i)' = With(i)
        BY <1>7, <3>2 DEF With
      <4>2. made'[i] = made[i]
        BY <1>7, <3>2 DEF TypeOK
      <4> QED
        BY <2>4, <4>1, <4>2 DEF MadeAndKept
    <3> QED
      BY <3>1, <3>2
  <2>6. FromReceipts'
    BY <1>7 DEF FromReceipts
  <2> QED
    BY <2>1, <2>3, <2>5, <2>6
<1> QED
  BY <1>6, <1>7 DEF CommitSale

\* A document is rewritten in place: who it is and what it was sold as stay.
LEMMA RewriteKeepsDocuments ==
  ASSUME IInv, NEW d \in sales, NEW e, e.id = d.id, e.sold = d.sold,
         sales' = (sales \ {d}) \cup {e}, UNCHANGED <<made, removed>>
  PROVE  OneDocument' /\ MadeAndKept' /\ FromReceipts'
<1> USE DEF IInv
<1>1. OneDocument'
  BY DEF OneDocument
<1>2. \A i \in Id : With(i) = {} <=> With(i)' = {}
  BY DEF With
<1>3. MadeAndKept'
  BY <1>2 DEF MadeAndKept
<1>4. FromReceipts'
  BY DEF FromReceipts
<1> QED
  BY <1>1, <1>3, <1>4

\* Edits, voids and deletions.
LEMMA AdminKeepsIInv ==
  ASSUME IInv, NEW d \in sales,
         VoidSale(d) \/ DeleteSale(d) \/ \E y \in Payload : EditSale(d, y)
  PROVE  IInv'
<1> USE DEF IInv
<1>1. d \in SaleDoc /\ d.id \in Id /\ d.payload \in Payload
  BY DEF TypeOK, SaleDoc
<1>2. \A y \in Payload : Need[y] \in Nat
  BY IntakeAssumption DEF IntakeAssumption
<1>3. Units(d) \in Nat
  BY <1>1, <1>2 DEF Units
<1>4. CASE VoidSale(d)
  <2> DEFINE e == [d EXCEPT !.status = "voided"]
  <2>1. e \in SaleDoc /\ e.id = d.id /\ e.sold = d.sold
    BY <1>1 DEF SaleDoc
  <2>2. TypeOK'
    BY <1>3, <1>4, <2>1 DEF VoidSale, TypeOK
  <2>3. OneDocument' /\ MadeAndKept' /\ FromReceipts'
    BY <1>4, <2>1, RewriteKeepsDocuments DEF VoidSale
  <2> QED
    BY <2>2, <2>3
<1>5. ASSUME NEW y \in Payload, EditSale(d, y) PROVE IInv'
  <2> DEFINE e == [d EXCEPT !.payload = y]
  <2>1. e \in SaleDoc /\ e.id = d.id /\ e.sold = d.sold
    BY <1>1 DEF SaleDoc
  <2>2. stock' \in Nat
    BY <1>2, <1>3, <1>5 DEF EditSale, TypeOK
  <2>3. TypeOK'
    BY <1>5, <2>1, <2>2 DEF EditSale, TypeOK
  <2>4. OneDocument' /\ MadeAndKept' /\ FromReceipts'
    BY <1>5, <2>1, RewriteKeepsDocuments DEF EditSale
  <2> QED
    BY <2>3, <2>4
<1>6. CASE DeleteSale(d)
  <2>1. TypeOK'
    BY <1>1, <1>3, <1>6 DEF DeleteSale, TypeOK
  <2>2. OneDocument' /\ FromReceipts'
    BY <1>6 DEF DeleteSale, OneDocument, FromReceipts
  <2>3. MadeAndKept'
    <3> SUFFICES ASSUME NEW i \in Id
                 PROVE  made'[i] = removed'[i] + (IF With(i)' = {} THEN 0 ELSE 1)
      BY DEF MadeAndKept
    <3>1. CASE i = d.id
      <4>1. With(i) # {} /\ With(i)' = {}
        BY <1>6, <3>1 DEF DeleteSale, With, OneDocument
      <4>2. made[i] = removed[i] + 1 /\ removed[i] \in Nat
        BY <4>1 DEF MadeAndKept, TypeOK
      <4>3. made' = made /\ removed'[i] = removed[i] + 1
        BY <1>6, <3>1 DEF DeleteSale, TypeOK
      <4> QED
        BY <4>1, <4>2, <4>3
    <3>2. CASE i # d.id
      <4>1. With(i)' = With(i)
        BY <1>6, <3>2 DEF DeleteSale, With
      <4>2. made' = made /\ removed'[i] = removed[i]
        BY <1>6, <3>2 DEF DeleteSale, TypeOK
      <4> QED
        BY <4>1, <4>2 DEF MadeAndKept
    <3> QED
      BY <3>1, <3>2
  <2> QED
    BY <2>1, <2>2, <2>3
<1> QED
  BY <1>4, <1>5, <1>6

\* The invariant is kept by every step.
LEMMA NextIInv == IInv /\ [Next]_vars => IInv'
<1> SUFFICES ASSUME IInv, [Next]_vars PROVE IInv'
  OBVIOUS
<1>1. CASE UNCHANGED vars
  <2>1. TypeOK'
    BY <1>1 DEF IInv, TypeOK, vars
  <2> QED
    BY <1>1, <2>1, DocumentsUntouched DEF vars
<1> QED
  BY <1>1, TillKeepsIInv, ReadsKeepIInv, CommitKeepsIInv, AdminKeepsIInv
     DEF Next, RequestStep

\* What the database and the handlers agree on holds between any two steps.
THEOREM Invariance == Spec => []IInv
BY InitIInv, NextIInv, PTL DEF Spec

\* No copy of a request takes stock that is not there, and every handler is in a
\* phase that its code has, however requests are lost, retried and delivered.
THEOREM TypeCorrect == Spec => []TypeOK
<1>1. IInv => TypeOK
  BY DEF IInv
<1> QED
  BY <1>1, Invariance, PTL

\* However a till retries, and whatever is lost, one clientSaleId makes one
\* sale: a second document needs a hard deletion of the first.
THEOREM OneSaleForOneReceipt == Spec => []MadeOnce
<1>1. IInv => MadeOnce
  <2> SUFFICES ASSUME IInv, NEW i \in Id PROVE made[i] <= removed[i] + 1
    BY DEF MadeOnce
  <2>1. removed[i] \in Nat
    BY DEF IInv, TypeOK
  <2> QED
    BY <2>1 DEF IInv, MadeAndKept
<1> QED
  BY <1>1, Invariance, PTL

-------------------------------------------------------------------------------
(* Stock.                                                                  *)

\* What the sales of a set hold together.
HeldBy(D) == SumOver([d \in D |-> Units(d)], D)

\* StockMatchesSales is inductive beside IInv when only finitely many documents
\* exist: the sum is over them.
Balanced == IsFiniteSet(sales) /\ stock + HeldBy(sales) = StartStock

\* A sale holds a natural number of units, and a set of sales the sum.
LEMMA UnitsType ==
  ASSUME NEW D, IsFiniteSet(D), D \subseteq SaleDoc
  PROVE  /\ \A d \in D : Units(d) \in Nat
         /\ HeldBy(D) \in Int
<1>1. \A d \in D : Units(d) \in Nat
  BY IntakeAssumption DEF IntakeAssumption, SaleDoc, Units
<1>2. HeldBy(D) \in Int
  BY <1>1, SumType DEF HeldBy
<1> QED
  BY <1>1, <1>2

\* A new sale adds what it holds.
LEMMA HeldByMore ==
  ASSUME NEW D, IsFiniteSet(D), NEW d, d \notin D, D \cup {d} \subseteq SaleDoc
  PROVE  IsFiniteSet(D \cup {d}) /\ HeldBy(D \cup {d}) = HeldBy(D) + Units(d)
<1> DEFINE f == [c \in D |-> Units(c)]
           g == [c \in D \cup {d} |-> Units(c)]
<1>1. IsFiniteSet(D \cup {d})
  BY FS_AddElement
<1>2. \A c \in D \cup {d} : g[c] \in Int
  BY <1>1, UnitsType
<1>3. SumOver(g, D \cup {d}) = SumOver(g, D) + g[d]
  BY <1>2, SumInsert
<1>4. SumOver(g, D) = SumOver(f, D)
  BY SumSame
<1>5. g[d] = Units(d)
  OBVIOUS
<1> QED
  BY <1>1, <1>3, <1>4, <1>5 DEF HeldBy

\* A sale that goes takes its units with it.
LEMMA HeldByLess ==
  ASSUME NEW D, IsFiniteSet(D), NEW d \in D, D \subseteq SaleDoc
  PROVE  IsFiniteSet(D \ {d}) /\ HeldBy(D \ {d}) = HeldBy(D) - Units(d)
<1>1. IsFiniteSet(D \ {d}) /\ (D \ {d}) \cup {d} = D /\ d \notin D \ {d}
  BY FS_RemoveElement
<1>2. HeldBy(D) = HeldBy(D \ {d}) + Units(d)
  BY <1>1, HeldByMore
<1>3. HeldBy(D \ {d}) \in Int /\ Units(d) \in Nat
  BY <1>1, UnitsType
<1> QED
  BY <1>1, <1>2, <1>3

\* A sale rewritten in place moves the sum by the difference: no other sale has
\* its clientSaleId, so the new form was not there already.
LEMMA HeldByRewrite ==
  ASSUME IInv, IsFiniteSet(sales), NEW d \in sales, NEW e \in SaleDoc, e.id = d.id
  PROVE  /\ IsFiniteSet((sales \ {d}) \cup {e})
         /\ HeldBy((sales \ {d}) \cup {e}) = (HeldBy(sales) - Units(d)) + Units(e)
<1>1. e \notin sales \ {d}
  BY DEF IInv, OneDocument
<1>2. sales \subseteq SaleDoc /\ (sales \ {d}) \cup {e} \subseteq SaleDoc
  BY DEF IInv, TypeOK
<1>3. IsFiniteSet(sales \ {d}) /\ HeldBy(sales \ {d}) = HeldBy(sales) - Units(d)
  BY <1>2, HeldByLess
<1> QED
  BY <1>1, <1>2, <1>3, HeldByMore

\* Nothing is sold at the start.
LEMMA InitBalanced == Init => Balanced
BY FS_EmptySet, SumEmpty, IntakeAssumption
   DEF Init, Balanced, HeldBy, IntakeAssumption

\* The steps that write a sale write the stock by as much.
LEMMA NextBalanced == IInv /\ Balanced /\ [Next]_vars => Balanced'
<1> SUFFICES ASSUME IInv, Balanced, [Next]_vars PROVE Balanced'
  OBVIOUS
<1> USE DEF IInv
<1>1. /\ sales \subseteq SaleDoc /\ stock \in Nat /\ HeldBy(sales) \in Int
      /\ \A d \in sales : Units(d) \in Nat
      /\ \A y \in Payload : Need[y] \in Nat
  BY UnitsType, IntakeAssumption DEF TypeOK, Balanced, IntakeAssumption
<1>2. HeldBy(sales)' = HeldBy(sales')
  BY DEF HeldBy, Units
<1>3. CASE UNCHANGED <<stock, sales>>
  BY <1>3 DEF Balanced, HeldBy, Units
<1>4. ASSUME NEW r \in Request, NEW x \in Receipt, CommitSale(r, x) PROVE Balanced'
  <2> DEFINE d == [id |-> x.id, token |-> x.token, sold |-> x.payload,
                   payload |-> x.payload, status |-> "completed"]
  <2>1. CASE /\ stock >= Need[x.payload]
             /\ Clashes(x) = {}
             /\ stock' = stock - Need[x.payload]
             /\ sales' = sales \cup {d}
    <3>1. d \in SaleDoc /\ Need[x.payload] \in Nat
      BY IntakeAssumption DEF IntakeAssumption, SaleDoc
    <3>2. d \notin sales
      BY <2>1 DEF Clashes
    <3>3. Units(d) = Need[x.payload]
      BY DEF Units
    <3>4. IsFiniteSet(sales') /\ HeldBy(sales') = HeldBy(sales) + Units(d)
      BY <1>1, <2>1, <3>1, <3>2, HeldByMore DEF Balanced
    <3> QED
      BY <1>1, <1>2, <2>1, <3>1, <3>3, <3>4 DEF Balanced
  <2> QED
    BY <1>3, <1>4, <2>1 DEF CommitSale
<1>5. ASSUME NEW d \in sales, VoidSale(d) PROVE Balanced'
  <2> DEFINE e == [d EXCEPT !.status = "voided"]
  <2>1. e \in SaleDoc /\ e.id = d.id /\ Units(e) = 0
    BY <1>1 DEF SaleDoc, Units
  <2>2. sales' = (sales \ {d}) \cup {e} /\ stock' = stock + Units(d)
    BY <1>5 DEF VoidSale
  <2>3. /\ IsFiniteSet(sales')
        /\ HeldBy(sales') = (HeldBy(sales) - Units(d)) + Units(e)
    BY <2>1, <2>2, HeldByRewrite DEF Balanced
  <2> QED
    BY <1>1, <1>2, <2>1, <2>2, <2>3 DEF Balanced
<1>6. ASSUME NEW d \in sales, NEW y \in Payload, EditSale(d, y) PROVE Balanced'
  <2> DEFINE e == [d EXCEPT !.payload = y]
  <2>1. e \in SaleDoc /\ e.id = d.id /\ Units(e) = Need[y]
    BY <1>1, <1>6 DEF EditSale, SaleDoc, Units
  <2>2. sales' = (sales \ {d}) \cup {e} /\ stock' = (stock + Units(d)) - Need[y]
    BY <1>6 DEF EditSale
  <2>3. /\ IsFiniteSet(sales')
        /\ HeldBy(sales') = (HeldBy(sales) - Units(d)) + Units(e)
    BY <2>1, <2>2, HeldByRewrite DEF Balanced
  <2> QED
    BY <1>1, <1>2, <2>1, <2>2, <2>3 DEF Balanced
<1>7. ASSUME NEW d \in sales, DeleteSale(d) PROVE Balanced'
  <2>1. sales' = sales \ {d} /\ stock' = stock + Units(d)
    BY <1>7 DEF DeleteSale
  <2>2. IsFiniteSet(sales') /\ HeldBy(sales') = HeldBy(sales) - Units(d)
    BY <1>1, <2>1, HeldByLess DEF Balanced
  <2> QED
    BY <1>1, <1>2, <2>1, <2>2 DEF Balanced
<1>8. ASSUME NEW r \in Request, NEW x \in Receipt,
             \/ Offer(r, x) \/ FindExisting(r, x) \/ CheckStock(r, x)
             \/ Replay(r, x) \/ Deliver(r, x)
      PROVE  UNCHANGED <<stock, sales>>
  BY <1>8 DEF Offer, FindExisting, CheckStock, Replay, Deliver
<1>9. ASSUME NEW r \in Request, Lose(r) PROVE UNCHANGED <<stock, sales>>
  BY <1>9 DEF Lose
<1>10. ASSUME NEW x \in Receipt, Expire(x) PROVE UNCHANGED <<stock, sales>>
  BY <1>10 DEF Expire
<1> QED
  BY <1>3, <1>4, <1>5, <1>6, <1>7, <1>8, <1>9, <1>10 DEF Next, RequestStep, vars

\* Stock leaves exactly as sales hold it, for any tills, copies and payloads: a
\* refusal, a lost race or a replay takes nothing, and a void or a deletion gives
\* back what that sale holds at that time.
THEOREM StockFollowsSales == Spec => []StockMatchesSales
<1>1. Balanced => StockMatchesSales
  BY DEF Balanced, HeldBy, StockMatchesSales
<1>2. Spec => []Balanced
  BY InitBalanced, NextBalanced, Invariance, PTL DEF Spec
<1> QED
  BY <1>1, <1>2, PTL

-------------------------------------------------------------------------------

\* The request r, which was answered "taken", was answered about its own sale.
Truthful(r) ==
  LET d == req[r].sale
      x == req[r].receipt
  IN /\ d.id = x.id
     /\ \/ x.payload \in {d.payload, d.sold}
        \/ /\ req[r].raced
           /\ \E y \in Receipt \ {x} : y.id = x.id /\ y.payload = d.sold

\* A handler that says "taken" has found or made the sale of its receipt, or has
\* lost against the sale of another receipt: every sale is some receipt's.
LEMMA TakenStep ==
  ASSUME IInv, TakenIsOwnSale, [Next]_vars
  PROVE  TakenIsOwnSale'
<1> USE DEF IInv
<1> SUFFICES ASSUME NEW t \in Request, req'[t].phase = "answered",
                    req'[t].answer = "taken"
             PROVE  Truthful(t)'
  BY DEF TakenIsOwnSale, Truthful
<1>1. CASE req'[t] = req[t]
  BY <1>1 DEF TakenIsOwnSale, Truthful
<1>2. ASSUME NEW r \in Request, NEW x \in Receipt, NEW raced \in BOOLEAN, NEW d,
             req[r].receipt = x, Takes(r, d, raced), d.id = x.id,
             \/ x.payload \in {d.payload, d.sold}
             \/ raced /\ \E y \in Receipt : y.id = d.id /\ y.payload = d.sold
      PROVE  Truthful(t)'
  <2>1. CASE t = r
    <3>1. /\ req'[t].receipt = x /\ req'[t].raced = raced /\ req'[t].sale.id = d.id
          /\ req'[t].sale.payload = d.payload /\ req'[t].sale.sold = d.sold
      BY <1>2, <2>1 DEF Takes, Named, TypeOK
    <3> QED
      BY <1>2, <3>1 DEF Truthful
  <2>2. CASE t # r
    BY <1>1, <1>2, <2>2 DEF Takes, TypeOK
  <2> QED
    BY <2>1, <2>2
<1>3. ASSUME NEW r \in Request,
             \/ \E phase \in {"find", "check", "commit", "refind"} : GoesTo(r, phase)
             \/ \E how \in {"refused", "error"} : Rejects(r, how)
      PROVE  req'[t] = req[t]
  BY <1>3 DEF GoesTo, Rejects, TypeOK
<1>4. ASSUME NEW r \in Request, NEW x \in Receipt, FindExisting(r, x)
      PROVE  Truthful(t)'
  BY <1>1, <1>2, <1>3, <1>4 DEF FindExisting, With, Matches
<1>5. ASSUME NEW r \in Request, NEW x \in Receipt, Replay(r, x)
      PROVE  Truthful(t)'
  <2>1. \A d \in With(x.id) : /\ d.id = x.id
                              /\ \E y \in Receipt : y.id = d.id /\ y.payload = d.sold
    BY DEF With, FromReceipts
  <2> QED
    BY <1>1, <1>2, <1>3, <1>5, <2>1 DEF Replay
<1>6. ASSUME NEW r \in Request, NEW x \in Receipt, CheckStock(r, x)
      PROVE  Truthful(t)'
  BY <1>1, <1>3, <1>6 DEF CheckStock
<1>7. ASSUME NEW r \in Request, NEW x \in Receipt, CommitSale(r, x)
      PROVE  Truthful(t)'
  <2> DEFINE d == [id |-> x.id, token |-> x.token, sold |-> x.payload,
                   payload |-> x.payload, status |-> "completed"]
  <2>1. CASE Takes(r, d, FALSE) /\ req[r].receipt = x
    BY <1>2, <2>1
  <2> QED
    BY <1>1, <1>3, <1>7, <2>1 DEF CommitSale
<1>8. ASSUME NEW r \in Request, NEW x \in Receipt, Offer(r, x) \/ Deliver(r, x)
      PROVE  req'[t] = req[t]
  BY <1>8 DEF Offer, Deliver, TypeOK, Idle
<1>9. ASSUME NEW r \in Request, Lose(r) PROVE req'[t] = req[t]
  BY <1>9 DEF Lose, TypeOK, Idle
<1>10. ASSUME UNCHANGED req PROVE req'[t] = req[t]
  BY <1>10
<1> QED
  BY <1>1, <1>4, <1>5, <1>6, <1>7, <1>8, <1>9, <1>10
     DEF Next, RequestStep, Expire, VoidSale, DeleteSale, EditSale, vars

\* Whatever clientSaleIds the receipts carry, a till that is told its sale was taken
\* is told of a sale that is or was what its receipt says, except by the replay of
\* a race that it lost against another receipt with the same clientSaleId.
THEOREM TakenIsTrue == Spec => []TakenIsOwnSale
<1>1. Init => TakenIsOwnSale
  BY DEF Init, TakenIsOwnSale, Idle
<1>2. IInv /\ TakenIsOwnSale /\ [Next]_vars => TakenIsOwnSale'
  BY TakenStep
<1> QED
  BY <1>1, <1>2, Invariance, PTL DEF Spec
===============================================================================
