--------------------------- MODULE SaleLedgerProofs ---------------------------
(***************************************************************************)
(* Proofs about SaleLedger, for every set of products, sales and requests, *)
(* every quantity and every item list.                                     *)
(***************************************************************************)
EXTENDS SaleLedger, SumsProofs, TLAPS

-------------------------------------------------------------------------------
(* Types.                                                                  *)

\* The empty item list is an item list, and a document that does not exist yet
\* is a document.
LEMMA NoDocType == Nothing \in [Product -> Nat] /\ NoDoc \in Doc
BY DEF Nothing, NoDoc, Doc

\* Stamping a document moves its version and nothing else.
LEMMA StampedType ==
  ASSUME NEW d \in Doc
  PROVE  /\ Stamped(d) \in Doc
         /\ Stamped(d).kind = d.kind
         /\ Stamped(d).status = d.status
         /\ Stamped(d).qty = d.qty
         /\ Stamped(d).ver = d.ver + 1
BY DEF Stamped, Doc

\* The initial states are well typed.
LEMMA InitTypeOK == Init => TypeOK
<1> SUFFICES ASSUME Init PROVE TypeOK
  OBVIOUS
<1>1. stock \in [Product -> Nat]
  BY OrderAssumption DEF Init, OrderAssumption
<1> QED
  BY <1>1, NoDocType DEF Init, TypeOK, Idle

\* Creating a sale or an expense record keeps the types: the guarded decrement
\* never takes more than there is.
LEMMA CreationTypeOK ==
  ASSUME TypeOK, NEW s \in Sale,
         \/ \E o \in Order : ReceiveSale(s, o)
         \/ \E p \in Product : CheckLine(s, p)
         \/ CommitSale(s)
         \/ \E a \in Amount : RecordExpense(s, a)
  PROVE  TypeOK'
<1>1. CASE \E o \in Order : ReceiveSale(s, o)
  <2> PICK o \in Order : ReceiveSale(s, o)
    BY <1>1
  <2>1. [phase |-> "checking", order |-> o,
         left |-> {p \in Product : o.qty[p] > 0}] \in Checking
    BY DEF Checking
  <2> QED
    BY <2>1 DEF TypeOK, ReceiveSale
<1>2. CASE \E p \in Product : CheckLine(s, p)
  <2> PICK p \in Product : CheckLine(s, p)
    BY <1>2
  <2>1. creation[s] \in Checking
    BY DEF TypeOK, CheckLine, Checking
  <2>2. [creation EXCEPT ![s].left = @ \ {p}]
          \in [Sale -> [phase : {"idle", "done"}] \cup Checking]
    BY <2>1 DEF TypeOK, Checking
  <2> QED
    BY <2>2 DEF TypeOK, CheckLine, Done
<1>3. CASE CommitSale(s)
  <2> DEFINE q == creation[s].order.qty
  <2>1. creation[s] \in Checking
    BY <1>3 DEF TypeOK, CommitSale, Checking
  <2>2. q \in [Product -> Quantity]
    BY <2>1, OrderAssumption DEF Checking, OrderAssumption
  <2>3. q \in [Product -> Nat]
    BY <2>2, OrderAssumption DEF OrderAssumption
  <2>4. creation' \in [Sale -> [phase : {"idle", "done"}] \cup Checking]
    BY <1>3 DEF TypeOK, CommitSale, Done
  <2>5. CASE \A p \in Product : CanTake(p, q[p])
    <3>1. stock' \in [Product -> Nat]
      BY <1>3, <2>3, <2>5 DEF TypeOK, CommitSale, Take, CanTake
    <3>2. [NoDoc EXCEPT !.status = "completed", !.qty = q] \in Doc
      BY <2>3, NoDocType DEF NoDoc, Doc
    <3>3. doc' \in [Sale -> Doc]
      BY <1>3, <2>5, <3>2, StampedType DEF TypeOK, CommitSale
    <3> QED
      BY <1>3, <2>4, <3>1, <3>3 DEF TypeOK, CommitSale
  <2>6. CASE ~ \A p \in Product : CanTake(p, q[p])
    BY <1>3, <2>4, <2>6 DEF TypeOK, CommitSale
  <2> QED
    BY <2>5, <2>6
<1>4. CASE \E a \in Amount : RecordExpense(s, a)
  <2> PICK a \in Amount : RecordExpense(s, a)
    BY <1>4
  <2>1. [NoDoc EXCEPT !.kind = "expense", !.status = "completed",
                      !.amount = a] \in Doc
    BY NoDocType, OrderAssumption DEF NoDoc, Doc, OrderAssumption
  <2> QED
    BY <2>1, StampedType DEF TypeOK, RecordExpense, Done
<1> QED
  BY <1>1, <1>2, <1>3, <1>4

\* An edit keeps the types: what it consumes is guarded like a creation.
LEMMA EditTypeOK ==
  ASSUME TypeOK, NEW e \in Editor, EditStep(e)
  PROVE  TypeOK'
<1>1. CASE \E s \in Sale, o \in Order : ReadSaleForEdit(e, s, o.qty)
  <2> PICK s \in Sale, o \in Order : ReadSaleForEdit(e, s, o.qty)
    BY <1>1
  <2>1. [phase |-> "editing", sale |-> s, kind |-> "sale", ver |-> doc[s].ver,
         old |-> doc[s].qty, new |-> o.qty] \in Editing
    BY OrderAssumption DEF TypeOK, Doc, Editing, OrderAssumption
  <2> QED
    BY <2>1 DEF TypeOK, ReadSaleForEdit
<1>2. CASE \E s \in Sale, a \in Amount : ReadExpenseForEdit(e, s, a)
  <2> PICK s \in Sale, a \in Amount : ReadExpenseForEdit(e, s, a)
    BY <1>2
  <2>1. [phase |-> "editing", sale |-> s, kind |-> "expense", amount |-> a]
          \in EditingExpense
    BY OrderAssumption DEF EditingExpense, OrderAssumption
  <2> QED
    BY <2>1 DEF TypeOK, ReadExpenseForEdit
<1>3. CASE CommitEdit(e)
  <2> DEFINE s == edit[e].sale
             accepted == Unchanged(e) /\ \A p \in Product : CanApply(p, Delta(e, p))
  <2>1. edit[e] \in Editing
    BY <1>3 DEF TypeOK, CommitEdit, Editing, EditingExpense
  <2>2. /\ s \in Sale
        /\ edit[e].old \in [Product -> Nat]
        /\ edit[e].new \in [Product -> Nat]
    BY <2>1, OrderAssumption DEF Editing, OrderAssumption
  <2>3. edit' \in [Editor -> [phase : {"idle", "done"}] \cup Editing
                                                        \cup EditingExpense]
    BY <1>3 DEF TypeOK, CommitEdit, Done
  <2>4. CASE accepted
    <3>1. stock' \in [Product -> Nat]
      BY <1>3, <2>2, <2>4 DEF TypeOK, CommitEdit, CanApply, Delta
    <3>2. [doc[s] EXCEPT !.qty = edit[e].new] \in Doc
      BY <2>2 DEF TypeOK, Doc
    <3>3. doc' \in [Sale -> Doc]
      BY <1>3, <2>4, <3>2, StampedType DEF TypeOK, CommitEdit
    <3> QED
      BY <1>3, <2>3, <3>1, <3>3 DEF TypeOK, CommitEdit
  <2>5. CASE ~accepted
    BY <1>3, <2>3, <2>5 DEF TypeOK, CommitEdit
  <2> QED
    BY <2>4, <2>5
<1>4. CASE CommitExpenseEdit(e)
  <2>1. edit[e] \in EditingExpense
    BY <1>4 DEF TypeOK, CommitExpenseEdit, Editing, EditingExpense
  <2>2. edit[e].sale \in Sale /\ edit[e].amount \in Nat
    BY <2>1 DEF EditingExpense
  <2>3. [doc[edit[e].sale] EXCEPT !.amount = edit[e].amount] \in Doc
    BY <2>2 DEF TypeOK, Doc
  <2>4. doc' \in [Sale -> Doc]
    BY <1>4, <2>2, <2>3, StampedType DEF TypeOK, CommitExpenseEdit
  <2> QED
    BY <1>4, <2>4 DEF TypeOK, CommitExpenseEdit, Done
<1> QED
  BY <1>1, <1>2, <1>3, <1>4 DEF EditStep

\* Voiding, deleting and the catalogue keep the types.
LEMMA ReturnTypeOK ==
  ASSUME TypeOK, NEW s \in Sale, VoidSale(s) \/ DeleteSale(s)
  PROVE  TypeOK'
<1>1. Held(s) \in [Product -> Nat]
  BY NoDocType DEF TypeOK, Doc, Held
<1>2. GiveBack(s) \in [Product -> Nat]
  BY <1>1 DEF TypeOK, GiveBack
<1>3. CASE VoidSale(s)
  <2>1. [doc[s] EXCEPT !.status = "voided"] \in Doc
    BY DEF TypeOK, Doc
  <2> QED
    BY <1>2, <1>3, <2>1, StampedType DEF TypeOK, VoidSale
<1>4. CASE DeleteSale(s)
  <2>1. [NoDoc EXCEPT !.status = "deleted"] \in Doc
    BY NoDocType DEF NoDoc, Doc
  <2> QED
    BY <1>2, <1>4, <2>1 DEF TypeOK, DeleteSale
<1> QED
  BY <1>3, <1>4

LEMMA CatalogueTypeOK ==
  ASSUME TypeOK, NEW p \in Product, CatalogueStep(p)
  PROVE  TypeOK'
<1>1. CASE \E n \in Quantity : CreateProduct(p, n)
  BY <1>1, OrderAssumption DEF TypeOK, CreateProduct, OrderAssumption
<1>2. CASE DeleteProduct(p)
  BY <1>2 DEF TypeOK, DeleteProduct
<1> QED
  BY <1>1, <1>2 DEF CatalogueStep

LEMMA KeeperTypeOK ==
  ASSUME TypeOK, NEW k \in Keeper, KeeperStep(k)
  PROVE  TypeOK'
<1>1. CASE \E p \in Product, n \in Quantity : ReadProduct(k, p, n)
  <2> PICK p \in Product, n \in Quantity : ReadProduct(k, p, n)
    BY <1>1
  <2>1. [phase |-> "counting", product |-> p, before |-> stock[p], level |-> n]
          \in Counting
    BY DEF TypeOK, Counting
  <2> QED
    BY <2>1 DEF TypeOK, ReadProduct
<1>2. CASE WriteStock(k)
  <2>1. keeper[k] \in Counting
    BY <1>2 DEF TypeOK, WriteStock, Counting
  <2>2. /\ keeper[k].product \in Product
        /\ keeper[k].before \in Nat
        /\ keeper[k].level \in Nat
    BY <2>1, OrderAssumption DEF Counting, OrderAssumption
  <2>3. keeper' \in [Keeper -> [phase : {"idle", "done"}] \cup Counting]
    BY <1>2 DEF TypeOK, WriteStock, Done
  <2>4. \A p \in Product, n, b \in Nat :
          /\ [stock EXCEPT ![p] = n] \in [Product -> Nat]
          /\ [entered EXCEPT ![p] = @ + (n - stock[p])] \in [Product -> Int]
          /\ [audited EXCEPT ![p] = @ + (n - b)] \in [Product -> Int]
    BY DEF TypeOK
  <2> QED
    BY <1>2, <2>2, <2>3, <2>4, SMTT(20) DEF TypeOK, WriteStock
<1> QED
  BY <1>1, <1>2 DEF KeeperStep

\* Every step keeps the types.
LEMMA NextTypeOK == TypeOK /\ [Next]_vars => TypeOK'
<1> SUFFICES ASSUME TypeOK, [Next]_vars PROVE TypeOK'
  OBVIOUS
<1>1. ASSUME NEW s \in Sale, SaleStep(s) PROVE TypeOK'
  BY <1>1, CreationTypeOK, ReturnTypeOK DEF SaleStep
<1>2. CASE UNCHANGED vars
  BY <1>2 DEF vars, TypeOK
<1> QED
  BY <1>1, <1>2, EditTypeOK, KeeperTypeOK, CatalogueTypeOK DEF Next

\* SaleLedger is well typed in every reachable state.  The part that is not
\* obvious from the code is stock \in Nat: two sales that both passed the
\* pre-checks on the last unit, an edit that consumes more than it did, a void
\* and a stock edit in any order never drive a product below zero.
THEOREM TypeCorrect == Spec => []TypeOK
BY InitTypeOK, NextTypeOK, PTL DEF Spec

-------------------------------------------------------------------------------
(* Optimistic edits.                                                       *)

\* What a step may do to one document: leave it, create it, write it under a
\* new version, or delete it.  No step brings a deleted one back.
DocStep(s) ==
  \/ doc'[s] = doc[s]
  \/ doc[s].status = "none" /\ doc'[s].status # "none"
  \/ /\ Exists(s)
     /\ doc'[s].status # "none"
     /\ Exists(s)' => doc'[s].ver = doc[s].ver + 1

\* Every action moves documents only as DocStep says.
LEMMA DocsMoveByDocStep ==
  ASSUME IInv, Next
  PROVE  \A s \in Sale : DocStep(s)
<1> USE DEF IInv, DocStep, Exists
<1>0. SUFFICES ASSUME NEW t \in Sale PROVE DocStep(t)
  OBVIOUS
<1>1. ASSUME NEW s \in Sale, SaleStep(s) PROVE DocStep(t)
  <2>1. CASE \E o \in Order : ReceiveSale(s, o)
    BY <2>1 DEF ReceiveSale
  <2>2. CASE \E p \in Product : CheckLine(s, p)
    BY <2>2 DEF CheckLine
  <2>3. CASE CommitSale(s)
    <3>1. doc[s].status = "none"
      BY <2>3 DEF CommitSale, RequestsMatchDocs
    <3>2. doc'[t] = doc[t] \/ (t = s /\ doc'[s].status = "completed")
      BY <2>3 DEF CommitSale, TypeOK, Stamped, NoDoc
    <3> QED
      BY <3>1, <3>2
  <2>4. CASE \E a \in Amount : RecordExpense(s, a)
    <3>1. doc[s].status = "none"
      BY <2>4 DEF RecordExpense, RequestsMatchDocs
    <3>2. doc'[t] = doc[t] \/ (t = s /\ doc'[s].status = "completed")
      BY <2>4 DEF RecordExpense, TypeOK, Stamped, NoDoc
    <3> QED
      BY <3>1, <3>2
  <2>5. CASE VoidSale(s)
    <3>1. doc'[t] = doc[t] \/ (t = s /\ doc'[s].status = "voided"
                                     /\ doc'[s].ver = doc[s].ver + 1)
      BY <2>5 DEF VoidSale, TypeOK, Stamped, Doc
    <3> QED
      BY <2>5, <3>1 DEF VoidSale
  <2>6. CASE DeleteSale(s)
    <3>1. doc'[t] = doc[t] \/ (t = s /\ doc'[s].status = "deleted")
      BY <2>6 DEF DeleteSale, TypeOK, NoDoc
    <3> QED
      BY <2>6, <3>1 DEF DeleteSale
  <2> QED
    BY <1>1, <2>1, <2>2, <2>3, <2>4, <2>5, <2>6 DEF SaleStep
<1>2. ASSUME NEW e \in Editor, EditStep(e) PROVE DocStep(t)
  <2>1. CASE \E s \in Sale, o \in Order : ReadSaleForEdit(e, s, o.qty)
    BY <2>1 DEF ReadSaleForEdit
  <2>2. CASE \E s \in Sale, a \in Amount : ReadExpenseForEdit(e, s, a)
    BY <2>2 DEF ReadExpenseForEdit
  <2>3. CASE CommitEdit(e)
    <3> DEFINE s == edit[e].sale
    <3>1. s \in Sale
      BY <2>3 DEF CommitEdit, TypeOK, Editing, EditingExpense
    <3>2. \/ doc' = doc
          \/ /\ Exists(s)
             /\ doc' = [doc EXCEPT ![s] =
                          Stamped([doc[s] EXCEPT !.qty = edit[e].new])]
      BY <2>3 DEF CommitEdit, Unchanged
    <3>3. /\ Stamped([doc[s] EXCEPT !.qty = edit[e].new]).ver = doc[s].ver + 1
          /\ Stamped([doc[s] EXCEPT !.qty = edit[e].new]).status = doc[s].status
      BY <3>1 DEF TypeOK, Doc, Stamped
    <3> QED
      BY <3>1, <3>2, <3>3 DEF TypeOK
  <2>4. CASE CommitExpenseEdit(e)
    <3> DEFINE s == edit[e].sale
    <3>1. s \in Sale
      BY <2>4 DEF CommitExpenseEdit, TypeOK, Editing, EditingExpense
    <3>2. \/ doc' = doc
          \/ /\ Exists(s)
             /\ doc' = [doc EXCEPT ![s] =
                          Stamped([doc[s] EXCEPT !.amount = edit[e].amount])]
      BY <2>4 DEF CommitExpenseEdit
    <3>3. /\ Stamped([doc[s] EXCEPT !.amount = edit[e].amount]).ver = doc[s].ver + 1
          /\ Stamped([doc[s] EXCEPT !.amount = edit[e].amount]).status = doc[s].status
      BY <3>1 DEF TypeOK, Doc, Stamped
    <3> QED
      BY <3>1, <3>2, <3>3 DEF TypeOK
  <2> QED
    BY <1>2, <2>1, <2>2, <2>3, <2>4 DEF EditStep
<1>3. ASSUME NEW k \in Keeper, KeeperStep(k) PROVE DocStep(t)
  BY <1>3 DEF KeeperStep, ReadProduct, WriteStock
<1>4. ASSUME NEW p \in Product, CatalogueStep(p) PROVE DocStep(t)
  BY <1>4 DEF CatalogueStep, CreateProduct, DeleteProduct
<1> QED
  BY <1>1, <1>2, <1>3, <1>4 DEF Next

\* An edit request keeps what it read, is over, or has just read a document
\* that this step does not touch.
JustRead(e) ==
  /\ doc' = doc
  /\ edit'[e].sale \in Sale
  /\ doc[edit'[e].sale].status = "completed"
  /\ edit'[e].kind = "sale" => /\ doc[edit'[e].sale].kind = "sale"
                               /\ edit'[e].ver = doc[edit'[e].sale].ver
                               /\ edit'[e].old = doc[edit'[e].sale].qty

\* Only its own read gives an edit request a snapshot.
LEMMA EditsMoveByReading ==
  ASSUME IInv, Next, NEW e \in Editor
  PROVE  edit'[e] = edit[e] \/ edit'[e].phase # "editing" \/ JustRead(e)
<1> USE DEF IInv
<1>1. ASSUME NEW f \in Editor, EditStep(f)
      PROVE  edit'[e] = edit[e] \/ edit'[e].phase # "editing" \/ JustRead(e)
  <2>1. CASE \E s \in Sale, o \in Order : ReadSaleForEdit(f, s, o.qty)
    BY <2>1 DEF ReadSaleForEdit, TypeOK, JustRead
  <2>2. CASE \E s \in Sale, a \in Amount : ReadExpenseForEdit(f, s, a)
    BY <2>2 DEF ReadExpenseForEdit, TypeOK, JustRead
  <2>3. CASE CommitEdit(f)
    BY <2>3 DEF CommitEdit, TypeOK, Done
  <2>4. CASE CommitExpenseEdit(f)
    BY <2>4 DEF CommitExpenseEdit, TypeOK, Done
  <2> QED
    BY <1>1, <2>1, <2>2, <2>3, <2>4 DEF EditStep
<1>2. ASSUME NEW s \in Sale, SaleStep(s) PROVE edit' = edit
  BY <1>2 DEF SaleStep, ReceiveSale, CheckLine, CommitSale, RecordExpense,
              VoidSale, DeleteSale
<1>3. ASSUME NEW k \in Keeper, KeeperStep(k) PROVE edit' = edit
  BY <1>3 DEF KeeperStep, ReadProduct, WriteStock
<1>4. ASSUME NEW p \in Product, CatalogueStep(p) PROVE edit' = edit
  BY <1>4 DEF CatalogueStep, CreateProduct, DeleteProduct
<1> QED
  BY <1>1, <1>2, <1>3, <1>4 DEF Next

\* A creation request that is over stays over, and the step that writes the
\* document ends it.
LEMMA CreationEndsOnce ==
  ASSUME IInv, Next, NEW t \in Sale
  PROVE  doc'[t].status # "none" => creation'[t].phase = "done"
<1> USE DEF IInv, RequestsMatchDocs
<1>1. ASSUME NEW s \in Sale, SaleStep(s)
      PROVE  doc'[t].status # "none" => creation'[t].phase = "done"
  <2>1. CASE \E o \in Order : ReceiveSale(s, o)
    BY <2>1 DEF ReceiveSale, TypeOK
  <2>2. CASE \E p \in Product : CheckLine(s, p)
    BY <2>2 DEF CheckLine, TypeOK
  <2>3. CASE CommitSale(s)
    BY <2>3 DEF CommitSale, TypeOK, Done
  <2>4. CASE \E a \in Amount : RecordExpense(s, a)
    BY <2>4 DEF RecordExpense, TypeOK, Done
  <2>5. CASE VoidSale(s)
    BY <2>5 DEF VoidSale, TypeOK
  <2>6. CASE DeleteSale(s)
    BY <2>6 DEF DeleteSale, TypeOK, Exists
  <2> QED
    BY <1>1, <2>1, <2>2, <2>3, <2>4, <2>5, <2>6 DEF SaleStep
<1>2. ASSUME NEW e \in Editor, EditStep(e)
      PROVE  creation' = creation /\ (doc'[t].status # "none" => doc[t].status # "none")
  <2>1. creation' = creation
    BY <1>2 DEF EditStep, ReadSaleForEdit, ReadExpenseForEdit, CommitEdit,
                CommitExpenseEdit
  <2>2. CASE doc' = doc
    BY <2>1, <2>2
  <2>3. CASE CommitEdit(e) /\ doc' # doc
    BY <2>1, <2>3 DEF CommitEdit, TypeOK, Unchanged, Exists
  <2>4. CASE CommitExpenseEdit(e) /\ doc' # doc
    BY <2>1, <2>4 DEF CommitExpenseEdit, TypeOK, Exists
  <2> QED
    BY <1>2, <2>2, <2>3, <2>4 DEF EditStep, ReadSaleForEdit, ReadExpenseForEdit
<1>3. ASSUME NEW k \in Keeper, KeeperStep(k)
      PROVE  creation' = creation /\ doc' = doc
  BY <1>3 DEF KeeperStep, ReadProduct, WriteStock
<1>4. ASSUME NEW p \in Product, CatalogueStep(p)
      PROVE  creation' = creation /\ doc' = doc
  BY <1>4 DEF CatalogueStep, CreateProduct, DeleteProduct
<1> QED
  BY <1>1, <1>2, <1>3, <1>4 DEF Next

\* The inductive step.
LEMMA NextIInv == IInv /\ [Next]_vars => IInv'
<1> SUFFICES ASSUME IInv, [Next]_vars PROVE IInv'
  OBVIOUS
<1>1. TypeOK'
  BY NextTypeOK DEF IInv
<1>2. CASE UNCHANGED vars
  BY <1>2, <1>1 DEF vars, IInv, RequestsMatchDocs, EditSnapshotCurrent, Exists
<1>3. CASE Next
  <2>1. \A s \in Sale : DocStep(s)
    BY <1>3, DocsMoveByDocStep
  <2>2. \A e \in Editor :
          edit'[e] = edit[e] \/ edit'[e].phase # "editing" \/ JustRead(e)
    BY <1>3, EditsMoveByReading
  <2>3. \A e \in Editor : edit'[e].phase = "editing" => edit'[e].sale \in Sale
    BY <1>1 DEF TypeOK, Editing, EditingExpense
  <2>4. RequestsMatchDocs'
    <3>1. \A s \in Sale : doc'[s].status # "none" => creation'[s].phase = "done"
      BY <1>3, CreationEndsOnce
    <3>2. \A s \in Sale : doc[s].status # "none" => doc'[s].status # "none"
      BY <2>1 DEF DocStep
    <3>3. \A e \in Editor :
            edit'[e].phase = "editing" => doc'[edit'[e].sale].status # "none"
      BY <2>2, <2>3, <3>2 DEF JustRead, IInv, RequestsMatchDocs
    <3> QED
      BY <3>1, <3>3 DEF RequestsMatchDocs
  <2>5. EditSnapshotCurrent'
    <3> SUFFICES ASSUME NEW e \in Editor, NEW s \in Sale,
                        edit'[e].phase = "editing", edit'[e].kind = "sale",
                        edit'[e].sale = s,
                        doc'[s].status \in {"completed", "voided"}
                 PROVE  /\ edit'[e].ver <= doc'[s].ver
                        /\ edit'[e].ver = doc'[s].ver =>
                             /\ doc'[s].kind = "sale"
                             /\ doc'[s].status = "completed"
                             /\ doc'[s].qty = edit'[e].old
      BY <2>3 DEF EditSnapshotCurrent, Exists
    <3>1. doc[s].ver \in Nat /\ doc'[s].ver \in Nat
      BY <1>1 DEF IInv, TypeOK, Doc
    <3>2. CASE JustRead(e)
      BY <3>1, <3>2 DEF JustRead
    <3>3. CASE edit'[e] = edit[e]
      <4>1. /\ edit[e].phase = "editing" /\ edit[e].kind = "sale"
            /\ edit[e].sale = s /\ edit[e].ver = edit'[e].ver
            /\ edit[e].old = edit'[e].old
        BY <3>3
      <4>2. edit[e].ver \in Nat
        BY <4>1 DEF IInv, TypeOK, Editing, EditingExpense
      <4>3. doc[s].status # "none"
        BY <4>1 DEF IInv, RequestsMatchDocs
      <4>4. CASE doc'[s] = doc[s]
        BY <4>1, <4>4 DEF IInv, EditSnapshotCurrent, Exists
      <4>5. CASE Exists(s) /\ doc'[s].ver = doc[s].ver + 1
        BY <3>1, <4>1, <4>2, <4>5 DEF IInv, EditSnapshotCurrent, Exists
      <4> QED
        BY <2>1, <4>3, <4>4, <4>5 DEF DocStep, Exists
    <3> QED
      BY <2>2, <3>2, <3>3
  <2> QED
    BY <1>1, <2>4, <2>5 DEF IInv
<1> QED
  BY <1>2, <1>3

LEMMA InitIInv == Init => IInv
<1> SUFFICES ASSUME Init PROVE IInv
  OBVIOUS
<1>1. TypeOK
  BY InitTypeOK
<1>2. RequestsMatchDocs /\ EditSnapshotCurrent
  BY DEF Init, RequestsMatchDocs, EditSnapshotCurrent, NoDoc, Idle
<1> QED
  BY <1>1, <1>2 DEF IInv

\* The inductive invariant holds in every reachable state.
THEOREM Invariance == Spec => []IInv
BY InitIInv, NextIInv, PTL DEF Spec

\* An edit that passes the updatedAt filter computed its stock deltas from the
\* sale it is applied to, however many edits and voids ran in between.
THEOREM EditsAreOptimistic == Spec => []EditSnapshotCurrent
<1>1. IInv => EditSnapshotCurrent
  BY DEF IInv
<1> QED
  BY <1>1, Invariance, PTL

\* What explains a change of a voided record.
Explained(s) ==
  \/ doc'[s].status = "deleted"
  \/ \E e \in Editor : /\ edit[e].phase = "editing"
                      /\ edit[e].kind = "expense"
                      /\ edit[e].sale = s
                      /\ edit'[e].phase = "done"

\* A creation finds no document, a void finds it open, and the edit of a sale is
\* let through by its updatedAt only to the open sale that it read.
LEMMA VoidedMovesExplained ==
  ASSUME IInv, Next, NEW s \in Sale, doc[s].status = "voided", doc'[s] # doc[s]
  PROVE  Explained(s)
<1> USE DEF IInv
<1>1. doc \in [Sale -> Doc] /\ edit \in [Editor -> [phase : {"idle", "done"}]
                                              \cup Editing \cup EditingExpense]
  BY DEF TypeOK
<1>2. creation[s].phase = "done"
  BY DEF RequestsMatchDocs
<1>3. ASSUME NEW t \in Sale, SaleStep(t) PROVE doc'[s].status = "deleted"
  <2>1. CASE \E o \in Order : ReceiveSale(t, o)
    BY <2>1 DEF ReceiveSale
  <2>2. CASE \E p \in Product : CheckLine(t, p)
    BY <2>2 DEF CheckLine
  <2>3. CASE CommitSale(t)
    BY <1>1, <1>2, <2>3 DEF CommitSale
  <2>4. CASE \E a \in Amount : RecordExpense(t, a)
    BY <1>1, <1>2, <2>4 DEF RecordExpense
  <2>5. CASE VoidSale(t)
    BY <1>1, <2>5 DEF VoidSale
  <2>6. CASE DeleteSale(t)
    BY <1>1, <2>6 DEF DeleteSale, NoDoc
  <2> QED
    BY <1>3, <2>1, <2>2, <2>3, <2>4, <2>5, <2>6 DEF SaleStep
<1>4. ASSUME NEW e \in Editor, EditStep(e) PROVE Explained(s)
  <2>1. CASE \E t \in Sale, o \in Order : ReadSaleForEdit(e, t, o.qty)
    BY <2>1 DEF ReadSaleForEdit
  <2>2. CASE \E t \in Sale, a \in Amount : ReadExpenseForEdit(e, t, a)
    BY <2>2 DEF ReadExpenseForEdit
  <2>3. CASE CommitEdit(e)
    <3>1. edit[e].phase = "editing" /\ edit[e].kind = "sale"
      BY <2>3 DEF CommitEdit
    <3>2. edit[e].sale = s /\ Unchanged(e)
      BY <1>1, <2>3 DEF CommitEdit
    <3>3. doc[s].status = "completed"
      BY <3>1, <3>2 DEF EditSnapshotCurrent, Unchanged
    <3> QED
      BY <3>3
  <2>4. CASE CommitExpenseEdit(e)
    <3>1. /\ edit[e].phase = "editing" /\ edit[e].kind = "expense"
          /\ edit'[e].phase = "done"
      BY <1>1, <2>4 DEF CommitExpenseEdit, Done
    <3>2. edit[e].sale = s
      BY <1>1, <2>4 DEF CommitExpenseEdit
    <3> QED
      BY <3>1, <3>2 DEF Explained
  <2> QED
    BY <1>4, <2>1, <2>2, <2>3, <2>4 DEF EditStep
<1>5. ASSUME NEW k \in Keeper, KeeperStep(k) PROVE FALSE
  BY <1>5 DEF KeeperStep, ReadProduct, WriteStock
<1>6. ASSUME NEW p \in Product, CatalogueStep(p) PROVE FALSE
  BY <1>6 DEF CatalogueStep, CreateProduct, DeleteProduct
<1> QED
  BY <1>3, <1>4, <1>5, <1>6 DEF Next, Explained

\* A voided record is changed only by its deletion or by the edit of an expense
\* record that read it before the void: the edit of a sale never lands on it.
THEOREM VoidedStays == Spec => VoidedChangesExplained
<1>1. IInv /\ [Next]_vars =>
        [\A s \in Sale :
           doc[s].status = "voided" /\ doc'[s] # doc[s] =>
             \/ doc'[s].status = "deleted"
             \/ \E e \in Editor : /\ edit[e].phase = "editing"
                                 /\ edit[e].kind = "expense"
                                 /\ edit[e].sale = s
                                 /\ edit'[e].phase = "done"]_vars
  BY VoidedMovesExplained DEF Explained
<1> QED
  BY <1>1, Invariance, PTL DEF Spec, VoidedChangesExplained

-------------------------------------------------------------------------------
(* SaleLedger implements StockLedger.                                      *)

heldBar == [t \in Sale |-> Held(t)]
lifeBar == [t \in Sale |-> Life(t)]

\* What the ledger sees of a step that writes one document.
LEMMA OneDocumentSeen ==
  ASSUME TypeOK, NEW s \in Sale, NEW d, doc' = [doc EXCEPT ![s] = d]
  PROVE  /\ heldBar' = [heldBar EXCEPT
                          ![s] = IF d.kind = "sale" /\ d.status = "completed"
                                 THEN d.qty ELSE Nothing]
         /\ lifeBar' = [lifeBar EXCEPT
                          ![s] = CASE d.status = "none" -> "new"
                                   [] d.status = "completed" -> "open"
                                   [] OTHER -> "closed"]
<1>1. doc'[s] = d /\ \A t \in Sale : t # s => doc'[t] = doc[t]
  BY DEF TypeOK
<1>2. \A t \in Sale : t # s => Held(t)' = Held(t) /\ Life(t)' = Life(t)
  BY <1>1 DEF Held, HoldsStock, Life
<1>3. Held(s)' = IF d.kind = "sale" /\ d.status = "completed"
                 THEN d.qty ELSE Nothing
  BY <1>1 DEF Held, HoldsStock
<1>4. Life(s)' = CASE d.status = "none" -> "new"
                   [] d.status = "completed" -> "open"
                   [] OTHER -> "closed"
  BY <1>1 DEF Life
<1> QED
  BY <1>2, <1>3, <1>4 DEF heldBar, lifeBar

\* No step of the ledger is visible when no document and no product changes.
LEMMA NothingSeen ==
  ASSUME doc' = doc, UNCHANGED <<stock, shelf>>
  PROVE  UNCHANGED Ledger!vars
BY DEF Ledger!vars, Held, HoldsStock, Life

\* What the requests of tills and administrators may do to the ledger: nothing,
\* or one exchange of one sale.
SaleSeen ==
  \/ UNCHANGED Ledger!vars
  \/ \E s \in Sale, q \in [Product -> Quantity] : Ledger!Sell(s, q) \/ Ledger!Amend(s, q)
  \/ \E s \in Sale : Ledger!Close(s)

\* The committed creation is a sale of the order, a refused one is invisible.
LEMMA CommitSaleIsSell ==
  ASSUME IInv, NEW s \in Sale, CommitSale(s)
  PROVE  SaleSeen
<1> DEFINE q == creation[s].order.qty
           d == Stamped([NoDoc EXCEPT !.status = "completed", !.qty = q])
<1> USE DEF IInv
<1>1. q \in [Product -> Quantity] /\ q \in [Product -> Nat]
  BY OrderAssumption DEF OrderAssumption, TypeOK, CommitSale, Checking
<1>2. doc[s].status = "none"
  BY DEF CommitSale, RequestsMatchDocs
<1>3. CASE \A p \in Product : CanTake(p, q[p])
  <2>1. d.kind = "sale" /\ d.status = "completed" /\ d.qty = q
    BY DEF Stamped, NoDoc
  <2>2. /\ heldBar' = [heldBar EXCEPT ![s] = q]
        /\ lifeBar' = [lifeBar EXCEPT ![s] = "open"]
    BY <1>3, <2>1, OneDocumentSeen DEF CommitSale
  <2>3. heldBar[s] = Nothing /\ lifeBar[s] = "new"
    BY <1>2 DEF heldBar, lifeBar, Held, HoldsStock, Life
  <2>4. \A p \in Product : q[p] > heldBar[s][p] =>
          shelf[p] = "live" /\ stock[p] + heldBar[s][p] >= q[p]
    BY <1>1, <1>3, <2>3 DEF CanTake, Nothing, TypeOK
  <2>5. stock' = [p \in Product |-> IF shelf[p] = "live"
                                    THEN (stock[p] + heldBar[s][p]) - q[p]
                                    ELSE stock[p]]
    BY <1>1, <1>3, <2>3 DEF CommitSale, Take, CanTake, Nothing, TypeOK
  <2>6. shelf' = shelf
    BY DEF CommitSale
  <2>7. Ledger!Sell(s, q)
    BY <2>2, <2>3, <2>4, <2>5, <2>6
       DEF Ledger!Sell, Ledger!Exchange, heldBar, lifeBar
  <2> QED
    BY <1>1, <2>7 DEF SaleSeen
<1>4. CASE ~ \A p \in Product : CanTake(p, q[p])
  BY <1>4, NothingSeen DEF CommitSale, SaleSeen
<1> QED
  BY <1>3, <1>4

\* The other creation steps: look-ups are invisible, an expense record is a
\* sale of nothing.
LEMMA CreationSeen ==
  ASSUME IInv, NEW s \in Sale,
         \/ \E o \in Order : ReceiveSale(s, o)
         \/ \E p \in Product : CheckLine(s, p)
         \/ \E a \in Amount : RecordExpense(s, a)
  PROVE  SaleSeen
<1> USE DEF IInv
<1>1. CASE \E o \in Order : ReceiveSale(s, o)
  BY <1>1, NothingSeen DEF ReceiveSale, SaleSeen
<1>2. CASE \E p \in Product : CheckLine(s, p)
  BY <1>2, NothingSeen DEF CheckLine, SaleSeen
<1>3. CASE \E a \in Amount : RecordExpense(s, a)
  <2> PICK a \in Amount : RecordExpense(s, a)
    BY <1>3
  <2> DEFINE d == Stamped([NoDoc EXCEPT !.kind = "expense",
                                        !.status = "completed", !.amount = a])
  <2>1. d.kind = "expense" /\ d.status = "completed"
    BY DEF Stamped, NoDoc
  <2>2. /\ heldBar' = [heldBar EXCEPT ![s] = Nothing]
        /\ lifeBar' = [lifeBar EXCEPT ![s] = "open"]
    BY <2>1, OneDocumentSeen DEF RecordExpense
  <2>3. heldBar[s] = Nothing /\ lifeBar[s] = "new"
    BY DEF RecordExpense, RequestsMatchDocs, heldBar, lifeBar, Held, HoldsStock,
           Life
  <2>4. Nothing \in [Product -> Quantity]
    BY OrderAssumption DEF OrderAssumption, Nothing
  <2>5. /\ stock' = [p \in Product |-> IF shelf[p] = "live"
                                       THEN (stock[p] + heldBar[s][p]) - Nothing[p]
                                       ELSE stock[p]]
        /\ shelf' = shelf
    <3>1. \A p \in Product : heldBar[s][p] = 0 /\ Nothing[p] = 0
      BY <2>3 DEF Nothing
    <3>2. \A p \in Product : stock[p] = (stock[p] + heldBar[s][p]) - Nothing[p]
      BY <3>1 DEF TypeOK
    <3>3. stock' = [p \in Product |-> stock[p]] /\ shelf' = shelf
      BY DEF RecordExpense, TypeOK
    <3> QED
      BY <3>2, <3>3
  <2>6. \A p \in Product : ~ (Nothing[p] > heldBar[s][p])
    BY <2>3 DEF Nothing
  <2>7. Ledger!Sell(s, Nothing)
    BY <2>2, <2>3, <2>5, <2>6 DEF Ledger!Sell, Ledger!Exchange, heldBar, lifeBar
  <2> QED
    BY <2>4, <2>7 DEF SaleSeen
<1> QED
  BY <1>1, <1>2, <1>3

\* A committed edit exchanges what the sale holds now, not what it held when
\* the edit began: this is where the updatedAt filter is needed.
LEMMA CommitEditIsAmend ==
  ASSUME IInv, NEW e \in Editor, CommitEdit(e)
  PROVE  SaleSeen
<1> DEFINE s == edit[e].sale
           q == edit[e].new
           d == Stamped([doc[s] EXCEPT !.qty = q])
           accepted == Unchanged(e) /\ \A p \in Product : CanApply(p, Delta(e, p))
<1> USE DEF IInv
<1>1. edit[e] \in Editing
  BY DEF TypeOK, CommitEdit, Editing, EditingExpense
<1>2. /\ s \in Sale /\ q \in [Product -> Quantity] /\ q \in [Product -> Nat]
      /\ edit[e].old \in [Product -> Nat]
  BY <1>1, OrderAssumption DEF OrderAssumption, Editing
<1>3. CASE accepted
  <2>1. /\ doc[s].kind = "sale" /\ doc[s].status = "completed"
        /\ doc[s].qty = edit[e].old
    BY <1>3 DEF CommitEdit, Unchanged, EditSnapshotCurrent
  <2>2. d.kind = "sale" /\ d.status = "completed" /\ d.qty = q
    BY <1>2, <2>1 DEF Stamped, TypeOK, Doc
  <2>3. /\ heldBar' = [heldBar EXCEPT ![s] = q]
        /\ lifeBar' = [lifeBar EXCEPT ![s] = "open"]
    BY <1>2, <1>3, <2>2, OneDocumentSeen DEF CommitEdit
  <2>4. heldBar[s] = edit[e].old /\ lifeBar[s] = "open"
    BY <1>2, <2>1 DEF heldBar, lifeBar, Held, HoldsStock, Life
  <2>5. \A p \in Product : q[p] > heldBar[s][p] =>
          shelf[p] = "live" /\ stock[p] + heldBar[s][p] >= q[p]
    BY <1>2, <1>3, <2>4 DEF CanApply, Delta, TypeOK
  <2>6. stock' = [p \in Product |-> IF shelf[p] = "live"
                                    THEN (stock[p] + heldBar[s][p]) - q[p]
                                    ELSE stock[p]]
    BY <1>2, <1>3, <2>4 DEF CommitEdit, Delta, TypeOK
  <2>7. shelf' = shelf /\ lifeBar' = lifeBar
    BY <1>2, <2>3, <2>4 DEF CommitEdit, lifeBar
  <2>8. Ledger!Amend(s, q)
    BY <2>3, <2>4, <2>5, <2>6, <2>7
       DEF Ledger!Amend, Ledger!Exchange, heldBar, lifeBar
  <2> QED
    BY <1>2, <2>8 DEF SaleSeen
<1>4. CASE ~accepted
  BY <1>4, NothingSeen DEF CommitEdit, SaleSeen
<1> QED
  BY <1>3, <1>4

\* The other edit steps are invisible: an expense record holds no stock, voided
\* or not, and its edit leaves its status alone.
LEMMA EditSeen ==
  ASSUME IInv, NEW e \in Editor, EditStep(e)
  PROVE  SaleSeen
<1> USE DEF IInv
<1>1. CASE \E s \in Sale, o \in Order : ReadSaleForEdit(e, s, o.qty)
  BY <1>1, NothingSeen DEF ReadSaleForEdit, SaleSeen
<1>2. CASE \E s \in Sale, a \in Amount : ReadExpenseForEdit(e, s, a)
  BY <1>2, NothingSeen DEF ReadExpenseForEdit, SaleSeen
<1>3. CASE CommitExpenseEdit(e)
  <2> DEFINE s == edit[e].sale
             d == Stamped([doc[s] EXCEPT !.amount = edit[e].amount])
  <2>1. s \in Sale
    BY <1>3 DEF TypeOK, CommitExpenseEdit, Editing, EditingExpense
  <2>2. CASE doc' = [doc EXCEPT ![s] = d]
    <3>1. d.kind = doc[s].kind /\ d.status = doc[s].status /\ d.qty = doc[s].qty
      BY <2>1 DEF TypeOK, Doc, Stamped
    <3>2. \A t \in Sale : /\ doc'[t].kind = doc[t].kind
                          /\ doc'[t].status = doc[t].status
                          /\ doc'[t].qty = doc[t].qty
      BY <2>1, <2>2, <3>1 DEF TypeOK
    <3> QED
      BY <1>3, <3>2
         DEF CommitExpenseEdit, Ledger!vars, Held, HoldsStock, Life, SaleSeen
  <2>3. CASE doc' = doc
    BY <1>3, <2>3, NothingSeen DEF CommitExpenseEdit, SaleSeen
  <2> QED
    BY <1>3, <2>2, <2>3 DEF CommitExpenseEdit
<1> QED
  BY <1>1, <1>2, <1>3, CommitEditIsAmend DEF EditStep

\* A void, and the deletion of a sale that was not voided, close the sale and
\* return what it holds; deleting a voided sale returns nothing.
LEMMA ReturnSeen ==
  ASSUME IInv, NEW s \in Sale, VoidSale(s) \/ DeleteSale(s)
  PROVE  SaleSeen
<1> USE DEF IInv
<1>1. heldBar[s] \in [Product -> Nat] /\ heldBar[s] = Held(s)
  BY NoDocType DEF heldBar, Held, TypeOK, Doc
<1>2. /\ stock' = [p \in Product |-> IF shelf[p] = "live"
                                     THEN (stock[p] + heldBar[s][p]) - Nothing[p]
                                     ELSE stock[p]]
      /\ shelf' = shelf
  BY <1>1 DEF VoidSale, DeleteSale, GiveBack, Nothing, TypeOK
<1>3. /\ heldBar' = [heldBar EXCEPT ![s] = Nothing]
      /\ lifeBar' = [lifeBar EXCEPT ![s] = "closed"]
  <2>1. CASE VoidSale(s)
    <3> DEFINE d == Stamped([doc[s] EXCEPT !.status = "voided"])
    <3>1. d.status = "voided"
      BY DEF TypeOK, Doc, Stamped
    <3> QED
      BY <2>1, <3>1, OneDocumentSeen DEF VoidSale
  <2>2. CASE DeleteSale(s)
    <3> DEFINE d == [NoDoc EXCEPT !.status = "deleted"]
    <3>1. d.status = "deleted"
      BY DEF NoDoc
    <3> QED
      BY <2>2, <3>1, OneDocumentSeen DEF DeleteSale
  <2> QED
    BY <2>1, <2>2
<1>4. CASE doc[s].status = "completed"
  <2>1. lifeBar[s] = "open"
    BY <1>4 DEF lifeBar, Life
  <2>2. \A p \in Product : ~ (Nothing[p] > heldBar[s][p])
    BY <1>1 DEF Nothing
  <2>3. Ledger!Close(s)
    BY <1>2, <1>3, <2>1, <2>2
       DEF Ledger!Close, Ledger!Exchange, Ledger!Nothing, Nothing, heldBar, lifeBar
  <2> QED
    BY <2>3 DEF SaleSeen
<1>5. CASE doc[s].status = "voided"
  <2>1. heldBar[s] = Nothing /\ lifeBar[s] = "closed"
    BY <1>5 DEF heldBar, lifeBar, Held, HoldsStock, Life
  <2>2. heldBar' = heldBar /\ lifeBar' = lifeBar
    BY <1>3, <2>1 DEF heldBar, lifeBar
  <2>3. stock' = stock
    BY <1>2, <2>1 DEF Nothing, TypeOK
  <2> QED
    BY <1>2, <2>2, <2>3 DEF Ledger!vars, heldBar, lifeBar, SaleSeen
<1> QED
  BY <1>4, <1>5 DEF VoidSale, DeleteSale, Exists

\* Products appear, are counted and are retired one for one.
LEMMA CatalogueSeen ==
  ASSUME IInv, \/ \E p \in Product : CatalogueStep(p)
               \/ \E k \in Keeper : KeeperStep(k)
  PROVE  [Ledger!Next]_Ledger!vars
<1> USE DEF IInv
<1>0. doc' = doc => /\ [t \in Sale |-> Held(t)]' = [t \in Sale |-> Held(t)]
                    /\ [t \in Sale |-> Life(t)]' = [t \in Sale |-> Life(t)]
  BY DEF Held, HoldsStock, Life
<1>1. ASSUME NEW p \in Product, NEW n \in Quantity, CreateProduct(p, n)
      PROVE  Ledger!Enter(p, n)
  BY <1>0, <1>1 DEF CreateProduct, Ledger!Enter
<1>2. ASSUME NEW p \in Product, DeleteProduct(p) PROVE Ledger!Retire(p)
  BY <1>0, <1>2 DEF DeleteProduct, Ledger!Retire
<1>3. ASSUME NEW k \in Keeper, NEW p \in Product, NEW n \in Quantity,
             ReadProduct(k, p, n)
      PROVE  UNCHANGED Ledger!vars
  BY <1>3, NothingSeen DEF ReadProduct
<1>4. ASSUME NEW k \in Keeper, WriteStock(k)
      PROVE  [Ledger!Next]_Ledger!vars
  <2> DEFINE p == keeper[k].product
             n == keeper[k].level
  <2>1. p \in Product /\ n \in Quantity
    BY <1>4 DEF TypeOK, WriteStock, Counting
  <2>2. CASE shelf[p] = "live"
    <3>1. Ledger!Count(p, n)
      BY <1>0, <1>4, <2>2 DEF WriteStock, Ledger!Count
    <3> QED
      BY <2>1, <3>1 DEF Ledger!Next
  <2>3. CASE shelf[p] # "live"
    BY <1>4, <2>3, NothingSeen DEF WriteStock
  <2> QED
    BY <2>2, <2>3
<1> QED
  BY <1>1, <1>2, <1>3, <1>4 DEF CatalogueStep, KeeperStep, Ledger!Next

\* Initial states map to initial states.
LEMMA InitSeen == Init => Ledger!Init
<1> SUFFICES ASSUME Init PROVE Ledger!Init
  OBVIOUS
<1>1. stock \in [Product -> Quantity]
  BY OrderAssumption DEF Init, OrderAssumption
<1>2. \A t \in Sale : Held(t) = Nothing /\ Life(t) = "new"
  BY DEF Init, NoDoc, Held, HoldsStock, Life
<1> QED
  BY <1>1, <1>2 DEF Init, Ledger!Init, Nothing, Ledger!Nothing

\* Every step maps to a step of the ledger or to none.
LEMMA StepSeen == IInv /\ [Next]_vars => [Ledger!Next]_Ledger!vars
<1> SUFFICES ASSUME IInv, [Next]_vars PROVE [Ledger!Next]_Ledger!vars
  OBVIOUS
<1>1. CASE UNCHANGED vars
  BY <1>1, NothingSeen DEF vars
<1>2. ASSUME NEW s \in Sale, SaleStep(s) PROVE SaleSeen
  BY <1>2, CreationSeen, CommitSaleIsSell, ReturnSeen DEF SaleStep
<1>3. SaleSeen => [Ledger!Next]_Ledger!vars
  BY DEF SaleSeen, Ledger!Next
<1> QED
  BY <1>1, <1>2, <1>3, EditSeen, CatalogueSeen DEF Next

\* The handlers implement the ledger: whatever reads were stale, every unit is
\* on the shelf or held by one open sale, and moves between them in one step.
THEOREM LedgerImplemented == Spec => ImplementsLedger
<1>1. Spec => Ledger!Init /\ [][Ledger!Next]_Ledger!vars
  BY InitSeen, StepSeen, Invariance, PTL DEF Spec
<1> QED
  BY <1>1 DEF ImplementsLedger, Ledger!Spec

-------------------------------------------------------------------------------
(* Stock.                                                                  *)

\* What each sale holds of each product is a natural number.
LEMMA HeldType ==
  ASSUME TypeOK
  PROVE  \A t \in Sale : Held(t) \in [Product -> Nat]
BY NoDocType DEF TypeOK, Doc, Held

\* Held one sale at a time, the units of p add up to Sold(p).
heldOf(p) == [t \in Sale |-> Held(t)[p]]

\* When one sale comes to hold q, what is sold moves by the difference.
LEMMA SoldMoves ==
  ASSUME TypeOK, TypeOK', NEW s \in Sale, NEW p \in Product, NEW q,
         heldBar' = [heldBar EXCEPT ![s] = q]
  PROVE  Sold(p)' = (Sold(p) - Held(s)[p]) + q[p]
<1>1. \A t \in Sale : heldOf(p)[t] \in Int /\ heldOf(p)'[t] \in Int
  <2>1. \A t \in Sale : Held(t) \in [Product -> Nat]
    BY HeldType
  <2>2. \A t \in Sale : Held(t)' \in [Product -> Nat]
    BY NoDocType DEF TypeOK, Doc, Held, HoldsStock
  <2> QED
    BY <2>1, <2>2 DEF heldOf
<1>2. \A t \in Sale : Held(t)' = IF t = s THEN q ELSE Held(t)
  BY DEF heldBar
<1>3. heldOf(p)[s] = Held(s)[p] /\ heldOf(p)'[s] = q[p]
  BY <1>2 DEF heldOf
<1>4. \A t \in Sale \ {s} : heldOf(p)[t] = heldOf(p)'[t]
  BY <1>2 DEF heldOf
<1>5. SumOver(heldOf(p)', Sale)
        = (SumOver(heldOf(p), Sale) - heldOf(p)[s]) + heldOf(p)'[s]
  BY <1>1, <1>4, SumChange, SalesAssumption DEF SalesAssumption
<1>6. Sold(p) = SumOver(heldOf(p), Sale) /\ Sold(p)' = SumOver(heldOf(p)', Sale)
  BY DEF Sold, heldOf
<1> QED
  BY <1>3, <1>5, <1>6

\* What is sold is an integer, and does not move while the documents stay.
LEMMA SoldType ==
  ASSUME TypeOK, NEW p \in Product
  PROVE  /\ Sold(p) \in Int
         /\ (\A s \in Sale : Held(s)[p] = 0) => Sold(p) = 0
         /\ UNCHANGED [t \in Sale |-> Held(t)] => Sold(p)' = Sold(p)
<1>1. \A t \in Sale : heldOf(p)[t] = Held(t)[p] /\ heldOf(p)[t] \in Int
  BY HeldType DEF heldOf
<1>2. Sold(p) = SumOver(heldOf(p), Sale) /\ Sold(p)' = SumOver(heldOf(p)', Sale)
  BY DEF Sold, heldOf
<1>3. Sold(p) \in Int
  BY <1>1, <1>2, SumType, SalesAssumption DEF SalesAssumption
<1>4. (\A s \in Sale : Held(s)[p] = 0) => Sold(p) = 0
  BY <1>1, <1>2, SumZero, SalesAssumption DEF SalesAssumption
<1>5. ASSUME UNCHANGED [t \in Sale |-> Held(t)] PROVE Sold(p)' = Sold(p)
  <2>1. \A t \in Sale : Held(t)' = Held(t)
    BY <1>5
  <2> QED
    BY <2>1, <1>2 DEF heldOf
<1> QED
  BY <1>3, <1>4, <1>5

\* An exchange moves units between the shelf and a sale.
LEMMA ExchangeBalances ==
  ASSUME TypeOK, TypeOK', Balanced, NEW s \in Sale, NEW q \in [Product -> Nat],
         Ledger!Exchange(s, q), entered' = entered
  PROVE  Balanced'
<1>1. heldBar' = [heldBar EXCEPT ![s] = q]
  BY DEF Ledger!Exchange, heldBar
<1>2. Held(s) \in [Product -> Nat]
  BY HeldType
<1>3. \A p \in Product : q[p] > Held(s)[p] => shelf[p] = "live"
  BY DEF Ledger!Exchange
<1>4. UnbornUnsold'
  <2> SUFFICES ASSUME NEW p \in Product, shelf'[p] = "unborn", NEW t \in Sale
               PROVE  Held(t)'[p] = 0
    BY DEF UnbornUnsold
  <2>1. shelf[p] = "unborn"
    BY DEF Ledger!Exchange
  <2>2. Held(t)[p] = 0 /\ Held(s)[p] = 0
    BY <2>1 DEF Balanced, UnbornUnsold
  <2>3. q[p] = 0
    BY <1>3, <2>1, <2>2
  <2>4. Held(t)' = IF t = s THEN q ELSE Held(t)
    BY <1>1 DEF heldBar
  <2> QED
    BY <2>2, <2>3, <2>4
<1>5. StockAccountedFor'
  <2> SUFFICES ASSUME NEW p \in Product, shelf'[p] = "live"
               PROVE  stock'[p] + Sold(p)' = entered'[p]
    BY DEF StockAccountedFor
  <2>1. shelf[p] = "live" /\ stock'[p] = (stock[p] + Held(s)[p]) - q[p]
    BY DEF Ledger!Exchange
  <2>2. stock[p] + Sold(p) = entered[p]
    BY <2>1 DEF Balanced, StockAccountedFor
  <2>3. Sold(p)' = (Sold(p) - Held(s)[p]) + q[p]
    BY <1>1, SoldMoves
  <2>4. stock[p] \in Int /\ Held(s)[p] \in Int /\ q[p] \in Int /\ Sold(p) \in Int
    BY <1>2, SoldType DEF TypeOK
  <2> QED
    BY <2>1, <2>2, <2>3, <2>4
<1> QED
  BY <1>4, <1>5 DEF Balanced

\* The requests of tills and administrators enter nothing and keep the balance.
LEMMA SalesBalance ==
  ASSUME IInv, IInv', Balanced,
         \/ \E s \in Sale : SaleStep(s)
         \/ \E e \in Editor : EditStep(e)
  PROVE  Balanced'
<1> USE DEF IInv
<1>1. entered' = entered
  BY DEF SaleStep, ReceiveSale, CheckLine, CommitSale, RecordExpense, VoidSale,
         DeleteSale, EditStep, ReadSaleForEdit, ReadExpenseForEdit, CommitEdit,
         CommitExpenseEdit
<1>2. SaleSeen
  BY CreationSeen, CommitSaleIsSell, ReturnSeen, EditSeen DEF SaleStep
<1>3. CASE UNCHANGED Ledger!vars
  <2>1. UNCHANGED <<stock, shelf>> /\ UNCHANGED [t \in Sale |-> Held(t)]
    BY <1>3 DEF Ledger!vars
  <2>2. \A t \in Sale : Held(t)' = Held(t)
    BY <2>1
  <2>3. \A p \in Product : Sold(p)' = Sold(p)
    BY <2>1, SoldType
  <2> QED
    BY <1>1, <2>1, <2>2, <2>3 DEF Balanced, UnbornUnsold, StockAccountedFor
<1>4. ASSUME NEW s \in Sale, NEW q \in [Product -> Quantity],
             Ledger!Sell(s, q) \/ Ledger!Amend(s, q)
      PROVE  Balanced'
  <2>1. q \in [Product -> Nat] /\ Ledger!Exchange(s, q)
    BY <1>4, OrderAssumption DEF OrderAssumption, Ledger!Sell, Ledger!Amend
  <2> QED
    BY <1>1, <2>1, ExchangeBalances
<1>5. ASSUME NEW s \in Sale, Ledger!Close(s) PROVE Balanced'
  <2>1. Nothing \in [Product -> Nat] /\ Ledger!Exchange(s, Nothing)
    BY <1>5, NoDocType DEF Ledger!Close, Ledger!Nothing, Nothing
  <2> QED
    BY <1>1, <2>1, ExchangeBalances
<1> QED
  BY <1>2, <1>3, <1>4, <1>5 DEF SaleSeen

\* The catalogue enters what it puts on the shelf.
LEMMA CatalogueBalances ==
  ASSUME IInv, IInv', Balanced,
         \/ \E p \in Product : CatalogueStep(p)
         \/ \E k \in Keeper : KeeperStep(k)
  PROVE  Balanced'
<1> USE DEF IInv
<1>1. doc' = doc
  BY DEF CatalogueStep, CreateProduct, DeleteProduct, KeeperStep, ReadProduct,
         WriteStock
<1>2. \A t \in Sale : Held(t)' = Held(t)
  BY <1>1 DEF Held, HoldsStock
<1>3. \A p \in Product : Sold(p)' = Sold(p) /\ Sold(p) \in Int
  BY <1>2, SoldType
<1>4. ASSUME NEW p \in Product, NEW n \in Quantity, CreateProduct(p, n)
      PROVE  Balanced'
  <2>1. n \in Nat /\ Sold(p) = 0
    BY <1>4, SoldType, OrderAssumption
       DEF OrderAssumption, Balanced, UnbornUnsold, CreateProduct
  <2>2. /\ stock' = [stock EXCEPT ![p] = n] /\ entered' = [entered EXCEPT ![p] = n]
        /\ shelf' = [shelf EXCEPT ![p] = "live"]
    BY <1>4 DEF CreateProduct
  <2>3. UnbornUnsold'
    BY <1>2, <2>2 DEF Balanced, UnbornUnsold, TypeOK
  <2>4. StockAccountedFor'
    BY <1>3, <2>1, <2>2 DEF Balanced, StockAccountedFor, TypeOK
  <2> QED
    BY <2>3, <2>4 DEF Balanced
<1>5. ASSUME NEW p \in Product, DeleteProduct(p) PROVE Balanced'
  BY <1>2, <1>3, <1>5
     DEF DeleteProduct, Balanced, UnbornUnsold, StockAccountedFor, TypeOK
<1>6. ASSUME NEW k \in Keeper, NEW p \in Product, NEW n \in Quantity,
             ReadProduct(k, p, n)
      PROVE  Balanced'
  BY <1>2, <1>3, <1>6 DEF ReadProduct, Balanced, UnbornUnsold, StockAccountedFor
<1>7. ASSUME NEW k \in Keeper, WriteStock(k) PROVE Balanced'
  <2> DEFINE p == keeper[k].product
             n == keeper[k].level
  <2>1. p \in Product /\ n \in Nat /\ shelf' = shelf
    BY <1>7, OrderAssumption DEF OrderAssumption, TypeOK, WriteStock, Counting
  <2>2. UnbornUnsold'
    BY <1>2, <2>1 DEF Balanced, UnbornUnsold
  <2>3. CASE shelf[p] = "live"
    <3>1. /\ stock' = [stock EXCEPT ![p] = n]
          /\ entered' = [entered EXCEPT ![p] = @ + (n - stock[p])]
      BY <1>7, <2>3 DEF WriteStock
    <3>2. StockAccountedFor'
      BY <1>3, <2>1, <3>1 DEF Balanced, StockAccountedFor, TypeOK
    <3> QED
      BY <2>2, <3>2 DEF Balanced
  <2>4. CASE shelf[p] # "live"
    BY <1>2, <1>3, <1>7, <2>2, <2>4 DEF WriteStock, Balanced, StockAccountedFor
  <2> QED
    BY <2>3, <2>4
<1> QED
  BY <1>4, <1>5, <1>6, <1>7 DEF CatalogueStep, KeeperStep

\* Before the first sale everything that was entered is on the shelf.
LEMMA InitBalanced == Init => Balanced
<1> SUFFICES ASSUME Init PROVE Balanced
  OBVIOUS
<1>1. TypeOK
  BY InitTypeOK
<1>2. \A t \in Sale : Held(t) = Nothing
  BY DEF Init, NoDoc, Held, HoldsStock
<1>3. \A p \in Product : Sold(p) = 0
  BY <1>1, <1>2, SoldType DEF Nothing
<1>4. UnbornUnsold
  BY <1>2 DEF UnbornUnsold, Nothing
<1>5. StockAccountedFor
  BY <1>1, <1>3 DEF Init, StockAccountedFor, TypeOK
<1> QED
  BY <1>4, <1>5 DEF Balanced

\* Every step keeps the balance.
LEMMA NextBalanced == IInv /\ IInv' /\ Balanced /\ [Next]_vars => Balanced'
<1> SUFFICES ASSUME IInv, IInv', Balanced, [Next]_vars PROVE Balanced'
  OBVIOUS
<1>1. CASE UNCHANGED vars
  <2>1. \A t \in Sale : Held(t)' = Held(t)
    BY <1>1 DEF vars, Held, HoldsStock
  <2>2. \A p \in Product : Sold(p)' = Sold(p)
    BY <2>1, SoldType DEF IInv
  <2> QED
    BY <1>1, <2>1, <2>2 DEF vars, Balanced, UnbornUnsold, StockAccountedFor
<1> QED
  BY <1>1, SalesBalance, CatalogueBalances DEF Next

\* Sales neither lose nor mint stock: for every product that exists, what is on
\* the shelf and what open sales hold together are what creations and stock
\* edits entered, however creations, edits, voids and deletions interleave.
THEOREM StockIsAccountedFor == Spec => []StockAccountedFor
<1>1. Balanced => StockAccountedFor
  BY DEF Balanced
<1>2. Spec => []Balanced
  BY InitBalanced, NextBalanced, Invariance, PTL DEF Spec
<1> QED
  BY <1>1, <1>2, PTL
===============================================================================
