------------------------------ MODULE SaleLedger ------------------------------
(***************************************************************************)
(* Sales and the stock they move: POST /api/sales (and /sync, which shares *)
(* createSaleTransaction), PUT, PATCH /void and DELETE /api/sales/:id, and *)
(* POST, PUT and DELETE /api/products.                                     *)
(*                                                                         *)
(* A handler is cut at every await that reads or writes the database, and  *)
(* handlers interleave at those points.  session.withTransaction is one    *)
(* step: it reads a snapshot, and a write that meets another transaction's *)
(* write aborts and runs its callback again, so what commits is what the   *)
(* callback does on the state it commits to.  Everything outside it (the   *)
(* pre-checks of a creation, the read an edit starts from, the read before *)
(* a stock edit) is a step of its own and may be stale when it is used.    *)
(*                                                                         *)
(* A line's price, snapshot and charges are left out: no stock rule looks  *)
(* at them.  "reservation" records are sales here: every stock rule treats *)
(* the two types alike (SALE_RECORD_TYPES).  ver stands for updatedAt: two *)
(* writes of one document are taken to carry two timestamps.               *)
(***************************************************************************)
EXTENDS Integers, FiniteSets, Sums

CONSTANTS
  Product,    \* product ids
  Sale,       \* ids of sale documents, one for each creation request
  Editor,     \* edit requests, each served once
  Keeper,     \* stock-edit requests, each served once
  Quantity,   \* quantities and stock levels that requests name
  Order,      \* the item lists that requests carry, see OrderAssumption
  Amount      \* totals of the legacy expense records

\* An item list is known by two numbers a product: qty[p], the sum over its
\* lines, and line[p], the largest of its lines.
OrderAssumption ==
  /\ Quantity \subseteq Nat
  /\ 0 \in Quantity
  /\ Amount \subseteq Nat
  /\ Order \subseteq [qty : [Product -> Quantity], line : [Product -> Quantity]]
  /\ \A o \in Order :
       /\ \E p \in Product : o.qty[p] > 0
       /\ \A p \in Product : o.line[p] <= o.qty[p]
                          /\ (o.line[p] = 0 <=> o.qty[p] = 0)

ASSUME OrderAssumption

\* Finitely many sales are ever created.
SalesAssumption == IsFiniteSet(Sale)

ASSUME SalesAssumption

VARIABLES
  stock,     \* stock[p]: Product.stock
  shelf,     \* shelf[p]: is the product not yet created, live or deleted
  doc,       \* doc[s]: the sale document
  creation,  \* creation[s]: the request that would create s
  edit,      \* edit[e]: the edit request e
  keeper,    \* keeper[k]: the stock-edit request k
  entered,   \* entered[p]: net units that creations and stock edits of p
             \* really put on the shelf (history variable)
  audited    \* audited[p]: the same, as the audit log tells it

vars == <<stock, shelf, doc, creation, edit, keeper, entered, audited>>

-------------------------------------------------------------------------------

Nothing == [p \in Product |-> 0]

NoDoc == [kind |-> "sale", status |-> "none", qty |-> Nothing,
          amount |-> 0, ver |-> 0]

Doc == [kind : {"sale", "expense"},
        status : {"none", "completed", "voided", "deleted"},
        qty : [Product -> Nat],
        amount : Nat,
        ver : Nat]

\* Mutant: the schema without timestamps.
StampedNever(d) == d

\* timestamps: true, every write of a document moves its updatedAt.
Stamped(d) == [d EXCEPT !.ver = @ + 1]

Exists(s) == doc[s].status \in {"completed", "voided"}

\* SALE_RECORD_TYPES.includes(sale.type) && sale.status !== "voided"
HoldsStock(s) == doc[s].kind = "sale" /\ doc[s].status = "completed"

Held(s) == IF HoldsStock(s) THEN doc[s].qty ELSE Nothing

Idle == [phase |-> "idle"]
Done == [phase |-> "done"]

Checking == [phase : {"checking"}, order : Order, left : SUBSET Product]

\* An edit remembers originalSale: its items and its updatedAt.
Editing == [phase : {"editing"}, sale : Sale, kind : {"sale"},
            ver : Nat, old : [Product -> Nat],
            new : [Product -> Quantity]]
EditingExpense == [phase : {"editing"}, sale : Sale, kind : {"expense"},
                   amount : Nat]

Counting == [phase : {"counting"}, product : Product, before : Nat,
             level : Quantity]

Init ==
  /\ shelf \in [Product -> {"unborn", "live"}]
  /\ \E n \in Quantity :
       stock = [p \in Product |-> IF shelf[p] = "live" THEN n ELSE 0]
  /\ doc = [s \in Sale |-> NoDoc]
  /\ creation = [s \in Sale |-> Idle]
  /\ edit = [e \in Editor |-> Idle]
  /\ keeper = [k \in Keeper |-> Idle]
  /\ entered = stock
  /\ audited = stock

-------------------------------------------------------------------------------
(* Creating a sale.                                                        *)

\* The lines that pass saleItemError are about to be looked up one by one.
ReceiveSale(s, o) ==
  /\ creation[s].phase = "idle"
  /\ creation' = [creation EXCEPT
                    ![s] = [phase |-> "checking", order |-> o,
                            left |-> {p \in Product : o.qty[p] > 0}]]
  /\ UNCHANGED <<stock, shelf, doc, edit, keeper, entered, audited>>

LineAvailable(p, n) == shelf[p] = "live" /\ stock[p] >= n

\* Product.findById for one product: each line is compared with the stock on
\* its own, so two lines of one product may both pass.
CheckLine(s, p) ==
  /\ creation[s].phase = "checking"
  /\ p \in creation[s].left
  /\ creation' = IF LineAvailable(p, creation[s].order.line[p])
                 THEN [creation EXCEPT ![s].left = @ \ {p}]
                 ELSE [creation EXCEPT ![s] = Done]
  /\ UNCHANGED <<stock, shelf, doc, edit, keeper, entered, audited>>

\* Mutant: the decrement without the $gte guard.
CanTakeUnguarded(p, n) == n > 0 => shelf[p] = "live"

\* { _id, stock: { $gte: quantity } }
CanTake(p, n) == n > 0 => shelf[p] = "live" /\ stock[p] >= n

Take(q) == [p \in Product |-> stock[p] - q[p]]

\* The transaction: every guarded decrement and the document, or nothing (409).
CommitSale(s) ==
  LET q == creation[s].order.qty IN
  /\ creation[s].phase = "checking"
  /\ creation[s].left = {}
  /\ creation' = [creation EXCEPT ![s] = Done]
  /\ IF \A p \in Product : CanTake(p, q[p])
     THEN /\ stock' = Take(q)
          /\ doc' = [doc EXCEPT ![s] = Stamped([NoDoc EXCEPT !.status = "completed",
                                                             !.qty = q])]
     ELSE UNCHANGED <<stock, doc>>
  /\ UNCHANGED <<shelf, edit, keeper, entered, audited>>

\* The legacy type "expense" of POST /api/sales: a document with no items.
RecordExpense(s, a) ==
  /\ creation[s].phase = "idle"
  /\ creation' = [creation EXCEPT ![s] = Done]
  /\ doc' = [doc EXCEPT ![s] = Stamped([NoDoc EXCEPT !.kind = "expense",
                                                     !.status = "completed",
                                                     !.amount = a])]
  /\ UNCHANGED <<stock, shelf, edit, keeper, entered, audited>>

-------------------------------------------------------------------------------
(* Editing a sale.                                                         *)

\* Sale.findById(id).lean() and saleEditDenial.  The product look-ups that
\* follow only ask whether a product without an old line exists: one that
\* goes missing after this read is refused there or at the commit alike.
ReadSaleForEdit(e, s, q) ==
  /\ edit[e].phase = "idle"
  /\ doc[s].kind = "sale"
  /\ doc[s].status = "completed"
  /\ \A p \in Product : q[p] > 0 => shelf[p] = "live" \/ doc[s].qty[p] > 0
  /\ edit' = [edit EXCEPT ![e] = [phase |-> "editing", sale |-> s,
                                  kind |-> "sale", ver |-> doc[s].ver,
                                  old |-> doc[s].qty, new |-> q]]
  /\ UNCHANGED <<stock, shelf, doc, creation, keeper, entered, audited>>

\* calculateStockDeltas: positive returns stock, negative consumes it.
Delta(e, p) == edit[e].old[p] - edit[e].new[p]

\* A missing product is an error only when stock is to be consumed.
CanApply(p, d) == d < 0 => shelf[p] = "live" /\ stock[p] >= -d

\* Mutant: findByIdAndUpdate for findOneAndUpdate with the read updatedAt.
UnchangedUnchecked(e) == Exists(edit[e].sale)

Unchanged(e) == /\ Exists(edit[e].sale)
                /\ doc[edit[e].sale].ver = edit[e].ver

\* Deltas computed from the snapshot, then findOneAndUpdate on the snapshot's
\* updatedAt: both or neither.
CommitEdit(e) ==
  LET s == edit[e].sale IN
  /\ edit[e].phase = "editing"
  /\ edit[e].kind = "sale"
  /\ edit' = [edit EXCEPT ![e] = Done]
  /\ IF Unchanged(e) /\ \A p \in Product : CanApply(p, Delta(e, p))
     THEN /\ stock' = [p \in Product |-> IF shelf[p] = "live"
                                         THEN stock[p] + Delta(e, p)
                                         ELSE stock[p]]
          /\ doc' = [doc EXCEPT ![s] = Stamped([doc[s] EXCEPT !.qty = edit[e].new])]
     ELSE UNCHANGED <<stock, doc>>
  /\ UNCHANGED <<shelf, creation, keeper, entered, audited>>

ReadExpenseForEdit(e, s, a) ==
  /\ edit[e].phase = "idle"
  /\ doc[s].kind = "expense"
  /\ doc[s].status = "completed"
  /\ edit' = [edit EXCEPT ![e] = [phase |-> "editing", sale |-> s,
                                  kind |-> "expense", amount |-> a]]
  /\ UNCHANGED <<stock, shelf, doc, creation, keeper, entered, audited>>

\* findByIdAndUpdate: no updatedAt in the filter, and null when it is gone.
CommitExpenseEdit(e) ==
  LET s == edit[e].sale IN
  /\ edit[e].phase = "editing"
  /\ edit[e].kind = "expense"
  /\ edit' = [edit EXCEPT ![e] = Done]
  /\ doc' = IF Exists(s)
            THEN [doc EXCEPT ![s] =
                     Stamped([doc[s] EXCEPT !.amount = edit[e].amount])]
            ELSE doc
  /\ UNCHANGED <<stock, shelf, creation, keeper, entered, audited>>

-------------------------------------------------------------------------------
(* Voiding and deleting a sale: the read is inside the transaction.        *)

\* Mutant: a restore that does not ask whether the sale was voided before.
GiveBackTwice(s) == [p \in Product |-> IF shelf[p] = "live"
                                       THEN stock[p] + doc[s].qty[p] ELSE stock[p]]

\* What every line gives back, to the products that still exist.
GiveBack(s) == [p \in Product |-> IF shelf[p] = "live"
                                  THEN stock[p] + Held(s)[p] ELSE stock[p]]

VoidSale(s) ==
  /\ doc[s].status = "completed"
  /\ stock' = GiveBack(s)
  /\ doc' = [doc EXCEPT ![s] = Stamped([doc[s] EXCEPT !.status = "voided"])]
  /\ UNCHANGED <<shelf, creation, edit, keeper, entered, audited>>

DeleteSale(s) ==
  /\ Exists(s)
  /\ stock' = GiveBack(s)
  /\ doc' = [doc EXCEPT ![s] = [NoDoc EXCEPT !.status = "deleted"]]
  /\ UNCHANGED <<shelf, creation, edit, keeper, entered, audited>>

-------------------------------------------------------------------------------
(* The catalogue.                                                          *)

CreateProduct(p, n) ==
  /\ shelf[p] = "unborn"
  /\ shelf' = [shelf EXCEPT ![p] = "live"]
  /\ stock' = [stock EXCEPT ![p] = n]
  /\ entered' = [entered EXCEPT ![p] = n]
  /\ audited' = [audited EXCEPT ![p] = n]
  /\ UNCHANGED <<doc, creation, edit, keeper>>

\* existingProduct = Product.findById: what the audit entry will call "before".
ReadProduct(k, p, n) ==
  /\ keeper[k].phase = "idle"
  /\ shelf[p] = "live"
  /\ keeper' = [keeper EXCEPT ![k] = [phase |-> "counting", product |-> p,
                                      before |-> stock[p], level |-> n]]
  /\ UNCHANGED <<stock, shelf, doc, creation, edit, entered, audited>>

\* findByIdAndUpdate writes the level itself.  The entry product.stock_adjusted
\* compares it with the earlier read, and is left out when the two are equal.
WriteStock(k) ==
  LET p == keeper[k].product
      n == keeper[k].level IN
  /\ keeper[k].phase = "counting"
  /\ keeper' = [keeper EXCEPT ![k] = Done]
  /\ IF shelf[p] = "live"
     THEN /\ stock' = [stock EXCEPT ![p] = n]
          /\ entered' = [entered EXCEPT ![p] = @ + (n - stock[p])]
          /\ audited' = [audited EXCEPT ![p] = @ + (n - keeper[k].before)]
     ELSE UNCHANGED <<stock, entered, audited>>
  /\ UNCHANGED <<shelf, doc, creation, edit>>

DeleteProduct(p) ==
  /\ shelf[p] = "live"
  /\ shelf' = [shelf EXCEPT ![p] = "deleted"]
  /\ UNCHANGED <<stock, doc, creation, edit, keeper, entered, audited>>

-------------------------------------------------------------------------------

SaleStep(s) ==
  \/ \E o \in Order : ReceiveSale(s, o)
  \/ \E p \in Product : CheckLine(s, p)
  \/ CommitSale(s)
  \/ \E a \in Amount : RecordExpense(s, a)
  \/ VoidSale(s)
  \/ DeleteSale(s)

EditStep(e) ==
  \/ \E s \in Sale, o \in Order : ReadSaleForEdit(e, s, o.qty)
  \/ \E s \in Sale, a \in Amount : ReadExpenseForEdit(e, s, a)
  \/ CommitEdit(e)
  \/ CommitExpenseEdit(e)

KeeperStep(k) ==
  \/ \E p \in Product, n \in Quantity : ReadProduct(k, p, n)
  \/ WriteStock(k)

CatalogueStep(p) ==
  \/ \E n \in Quantity : CreateProduct(p, n)
  \/ DeleteProduct(p)

Next ==
  \/ \E s \in Sale : SaleStep(s)
  \/ \E e \in Editor : EditStep(e)
  \/ \E k \in Keeper : KeeperStep(k)
  \/ \E p \in Product : CatalogueStep(p)

Spec == Init /\ [][Next]_vars

-------------------------------------------------------------------------------
(* Properties.                                                             *)

\* Every variable keeps its type; in particular no decrement, guarded or not,
\* ever takes a product's stock below zero.
TypeOK ==
  /\ stock \in [Product -> Nat]
  /\ shelf \in [Product -> {"unborn", "live", "deleted"}]
  /\ doc \in [Sale -> Doc]
  /\ creation \in [Sale -> [phase : {"idle", "done"}] \cup Checking]
  /\ edit \in [Editor -> [phase : {"idle", "done"}] \cup Editing
                                                    \cup EditingExpense]
  /\ keeper \in [Keeper -> [phase : {"idle", "done"}] \cup Counting]
  /\ entered \in [Product -> Int]
  /\ audited \in [Product -> Int]

\* Units of p that open sales hold.
Sold(p) == SumOver([s \in Sale |-> Held(s)[p]], Sale)

\* Nothing is lost or minted by sales: for a product that exists, what is on
\* the shelf plus what open sales hold is what was entered, through any mix of
\* creations, edits, voids, deletions and stock edits.
StockAccountedFor ==
  \A p \in Product : shelf[p] = "live" => stock[p] + Sold(p) = entered[p]

\* Nothing is sold of a product before it exists.
UnbornUnsold ==
  \A p \in Product : shelf[p] = "unborn" => \A s \in Sale : Held(s)[p] = 0

\* The snapshot an edit computes its deltas from is the sale it is applied to,
\* whenever the updatedAt filter lets it through: same items, still completed.
EditSnapshotCurrent ==
  \A e \in Editor :
    edit[e].phase = "editing" /\ edit[e].kind = "sale" =>
      LET d == doc[edit[e].sale] IN
      Exists(edit[e].sale) =>
        /\ edit[e].ver <= d.ver
        /\ edit[e].ver = d.ver => /\ d.kind = "sale"
                                  /\ d.status = "completed"
                                  /\ d.qty = edit[e].old

\* A document is written by the one request that creates it, and an edit is of
\* a document that was there when it was read.
RequestsMatchDocs ==
  /\ \A s \in Sale : doc[s].status # "none" => creation[s].phase = "done"
  /\ \A e \in Editor :
       edit[e].phase = "editing" => doc[edit[e].sale].status # "none"

\* EditSnapshotCurrent is inductive beside the types and RequestsMatchDocs.
IInv == TypeOK /\ RequestsMatchDocs /\ EditSnapshotCurrent

\* StockAccountedFor is inductive beside IInv and UnbornUnsold.
Balanced == UnbornUnsold /\ StockAccountedFor

\* A record is open from its creation until it is voided or deleted.
Life(s) == CASE doc[s].status = "none" -> "new"
             [] doc[s].status = "completed" -> "open"
             [] OTHER -> "closed"

Ledger == INSTANCE StockLedger
            WITH held <- [s \in Sale |-> Held(s)],
                 life <- [s \in Sale |-> Life(s)]

\* Seen through Held and Life, the handlers with their stale reads do only what
\* the abstract ledger allows: each stock movement is one exchange between the
\* shelf and one open sale, and a voided or deleted sale returns stock once.
ImplementsLedger == Ledger!Spec

\* A voided record changes in two ways only: it is deleted, or an edit of an
\* expense record commits that read it before it was voided and that repeats
\* none of its checks.  An edit of a sale, which does, leaves it alone.
VoidedChangesExplained ==
  [][\A s \in Sale :
       doc[s].status = "voided" /\ doc'[s] # doc[s] =>
         \/ doc'[s].status = "deleted"
         \/ \E e \in Editor : /\ edit[e].phase = "editing"
                             /\ edit[e].kind = "expense"
                             /\ edit[e].sale = s
                             /\ edit'[e].phase = "done"]_vars

-------------------------------------------------------------------------------
(* Claims of the source that the code does not keep: TLC violates both, see *)
(* the README.                                                              *)

\* products.js:253-254 "Direct stock edits bypass sales, so every change is
\* traceable here (before/after)": the audit log explains the stock that
\* sales do not.
AuditExplainsStock ==
  \A p \in Product : shelf[p] = "live" => stock[p] + Sold(p) = audited[p]

\* saleAccess.js:46 "Cannot edit a voided or corrected sale": a record that is
\* voided keeps its content as long as it exists.
VoidedRecordFrozen ==
  [][\A s \in Sale : doc[s].status = "voided" =>
       doc'[s] = doc[s] \/ doc'[s].status = "deleted"]_vars
===============================================================================
