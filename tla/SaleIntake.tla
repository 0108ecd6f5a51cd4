------------------------------ MODULE SaleIntake ------------------------------
(***************************************************************************)
(* A sale that a till keeps offering until it is told that it was taken:   *)
(* POST /api/sales with a clientSaleId, and POST /api/sales/sync.          *)
(*                                                                         *)
(* The till is not in this repository.  It is modelled by what the two     *)
(* handlers are written against: it prints a receipt once, with the        *)
(* clientSaleId and the barcode token on it, and sends the same body again *)
(* when an answer is lost, possibly while the first request still runs.    *)
(* Two receipts may carry one clientSaleId: the handlers do not rely on it *)
(* being drawn once, they call that a conflict.                            *)
(*                                                                         *)
(* One counter stands for the stock of all products.  SaleLedger has the   *)
(* detail of lines, edits and the catalogue; here an edit, a void and a    *)
(* deletion are single steps, because what matters is the sale a retry     *)
(* finds.                                                                  *)
(***************************************************************************)
EXTENDS Integers, FiniteSets, Sums

CONSTANTS
  Id,          \* values of clientSaleId
  Token,       \* barcode tokens
  Payload,     \* what salePayloadMatches compares: items, customer, total
  Need,        \* Need[x]: the units that the items of payload x take
  Receipt,     \* the sales that tills offer, see IntakeAssumption
  Request,     \* requests the server handles at one time
  StartStock,  \* units in stock at the start
  MaxDeletes   \* bound: deletions of sales with one clientSaleId

IntakeAssumption ==
  /\ Need \in [Payload -> Nat]
  /\ StartStock \in Nat
  /\ MaxDeletes \in Nat
  /\ Receipt \subseteq [id : Id, token : Token, payload : Payload]

ASSUME IntakeAssumption

VARIABLES
  stock,    \* Product.stock, all products together
  sales,    \* the sale documents that carry a clientSaleId
  req,      \* req[r]: where the handler of request r stands
  outcome,  \* outcome[x]: what the till of receipt x has been told
  expired,  \* receipts that are older than the offline window
  made,     \* made[i]: documents ever created with clientSaleId i (history)
  removed   \* removed[i]: how many of them were hard-deleted

vars == <<stock, sales, req, outcome, expired, made, removed>>

-------------------------------------------------------------------------------

\* sold is the payload the document was created with, payload what it is now.
SaleDoc == [id : Id, token : Token, sold : Payload, payload : Payload,
            status : {"completed", "voided"}]

Idle == [phase |-> "idle"]

\* "taken" is a 200 or a 201 with the sale it names, as it was then; raced when the
\* sale is an IdempotentReplay.  "refused" is a 4xx, "error" a 500.
Answered == [phase : {"answered"}, receipt : Receipt, answer : {"taken"},
             sale : [id : Id, sold : Payload, payload : Payload],
             raced : BOOLEAN]
            \cup [phase : {"answered"}, receipt : Receipt,
                  answer : {"refused", "error"}]

Underway == [phase : {"find", "check", "commit", "refind"}, receipt : Receipt]

Init ==
  /\ stock = StartStock
  /\ sales = {}
  /\ req = [r \in Request |-> Idle]
  /\ outcome = [x \in Receipt |-> "pending"]
  /\ expired = {}
  /\ made = [i \in Id |-> 0]
  /\ removed = [i \in Id |-> 0]

\* What the handler of request r does to itself.
GoesTo(r, phase) == req' = [req EXCEPT ![r] = [phase |-> phase,
                                               receipt |-> req[r].receipt]]
Named(d) == [id |-> d.id, sold |-> d.sold, payload |-> d.payload]
Takes(r, d, raced) == req' = [req EXCEPT ![r] = [phase |-> "answered",
                                                 receipt |-> req[r].receipt,
                                                 answer |-> "taken",
                                                 sale |-> Named(d), raced |-> raced]]
Rejects(r, how) == req' = [req EXCEPT ![r] = [phase |-> "answered",
                                              receipt |-> req[r].receipt,
                                              answer |-> how]]

-------------------------------------------------------------------------------
(* The till.                                                               *)

\* First offer, retry after a lost or bad answer, or an impatient second copy.
Offer(r, x) ==
  /\ req[r].phase = "idle"
  /\ outcome[x] # "taken"
  /\ req' = [req EXCEPT ![r] = [phase |-> "find", receipt |-> x]]
  /\ UNCHANGED <<stock, sales, outcome, expired, made, removed>>

\* A 500 tells the till nothing.  A refusal does not undo an earlier success.
Deliver(r, x) ==
  /\ req[r].phase = "answered"
  /\ req[r].receipt = x
  /\ outcome' = IF req[r].answer = "error" \/ outcome[x] = "taken" THEN outcome
                ELSE [outcome EXCEPT ![x] = req[r].answer]
  /\ req' = [req EXCEPT ![r] = Idle]
  /\ UNCHANGED <<stock, sales, expired, made, removed>>

\* The process dies, the database call fails, or the answer is lost on its way.
Lose(r) ==
  /\ req[r].phase # "idle"
  /\ req' = [req EXCEPT ![r] = Idle]
  /\ UNCHANGED <<stock, sales, outcome, expired, made, removed>>

\* The clock: clientOccurredAt falls out of the offline window.
Expire(x) ==
  /\ x \notin expired
  /\ expired' = expired \cup {x}
  /\ UNCHANGED <<stock, sales, req, outcome, made, removed>>

-------------------------------------------------------------------------------
(* The handler of a request.                                               *)

\* Sale.findOne({ clientSaleId })
With(i) == {d \in sales : d.id = i}

\* Mutant: decided by the clientSaleId alone.
MatchesById(d, x) == d.id = x.id

\* salePayloadMatches
Matches(d, x) == d.payload = x.payload

\* Mutant: the age check before the look-up.
FindExistingLate(r, x) ==
  /\ req[r].phase = "find"
  /\ req[r].receipt = x
  /\ IF x \in expired THEN Rejects(r, "refused")
     ELSE \/ \E d \in With(x.id) :
               IF Matches(d, x) THEN Takes(r, d, FALSE) ELSE Rejects(r, "refused")
          \/ With(x.id) = {} /\ GoesTo(r, "check")
  /\ UNCHANGED <<stock, sales, outcome, expired, made, removed>>

\* The fast path; the age check is for a sale that has not landed.
FindExisting(r, x) ==
  /\ req[r].phase = "find"
  /\ req[r].receipt = x
  /\ \/ \E d \in With(x.id) :
          IF Matches(d, x) THEN Takes(r, d, FALSE) ELSE Rejects(r, "refused")
     \/ /\ With(x.id) = {}
        /\ IF x \in expired THEN Rejects(r, "refused") ELSE GoesTo(r, "check")
  /\ UNCHANGED <<stock, sales, outcome, expired, made, removed>>

\* The look-ups before the transaction: 400 when the stock is short by now.
CheckStock(r, x) ==
  /\ req[r].phase = "check"
  /\ req[r].receipt = x
  /\ IF stock < Need[x.payload] THEN Rejects(r, "refused")
                                ELSE GoesTo(r, "commit")
  /\ UNCHANGED <<stock, sales, outcome, expired, made, removed>>

\* Mutant: a deployment that never built the indexes.
ClashesNever(x) == {}

\* The unique indexes of Sale that a new document for receipt x would violate.
Clashes(x) ==
  (IF \E d \in sales : d.id = x.id THEN {"clientSaleId"} ELSE {})
    \cup (IF \E d \in sales : d.token = x.token THEN {"barcodeToken"} ELSE {})

\* The transaction: the guarded decrement comes before the insert, and both
\* roll back together.  Of several violated indexes the server reports one.
CommitSale(r, x) ==
  LET d == [id |-> x.id, token |-> x.token, sold |-> x.payload,
            payload |-> x.payload, status |-> "completed"] IN
  /\ req[r].phase = "commit"
  /\ req[r].receipt = x
  /\ \/ /\ stock < Need[x.payload]
        /\ Rejects(r, "refused")
        /\ UNCHANGED <<stock, sales, made>>
     \/ /\ stock >= Need[x.payload]
        /\ Clashes(x) = {}
        /\ stock' = stock - Need[x.payload]
        /\ sales' = sales \cup {d}
        /\ made' = [made EXCEPT ![x.id] = @ + 1]
        /\ Takes(r, d, FALSE)
     \/ /\ stock >= Need[x.payload]
        /\ \E index \in Clashes(x) :
             IF index = "clientSaleId" THEN GoesTo(r, "refind")
                                       ELSE Rejects(r, "error")
        /\ UNCHANGED <<stock, sales, made>>
  /\ UNCHANGED <<outcome, expired, removed>>

\* The catch block: the sale that won is answered as an IdempotentReplay, and
\* nothing compares it with what this request asked for.
Replay(r, x) ==
  /\ req[r].phase = "refind"
  /\ req[r].receipt = x
  /\ \/ \E d \in With(x.id) : Takes(r, d, TRUE)
     \/ With(x.id) = {} /\ Rejects(r, "error")
  /\ UNCHANGED <<stock, sales, outcome, expired, made, removed>>

-------------------------------------------------------------------------------
(* What administrators and sellers do to a sale in the meantime.           *)

\* Mutant: a voided sale counted as one that holds stock.
UnitsOfAny(d) == Need[d.payload]

Units(d) == IF d.status = "completed" THEN Need[d.payload] ELSE 0

\* Mutant: an edit that consumes stock without the $gte guard.
EditSaleUnguarded(d, y) ==
  /\ d.status = "completed"
  /\ stock' = (stock + Units(d)) - Need[y]
  /\ sales' = (sales \ {d}) \cup {[d EXCEPT !.payload = y]}
  /\ UNCHANGED <<req, outcome, expired, made, removed>>

EditSale(d, y) ==
  /\ d.status = "completed"
  /\ stock + Units(d) >= Need[y]
  /\ stock' = (stock + Units(d)) - Need[y]
  /\ sales' = (sales \ {d}) \cup {[d EXCEPT !.payload = y]}
  /\ UNCHANGED <<req, outcome, expired, made, removed>>

VoidSale(d) ==
  /\ d.status = "completed"
  /\ stock' = stock + Units(d)
  /\ sales' = (sales \ {d}) \cup {[d EXCEPT !.status = "voided"]}
  /\ UNCHANGED <<req, outcome, expired, made, removed>>

DeleteSale(d) ==
  /\ removed[d.id] < MaxDeletes
  /\ stock' = stock + Units(d)
  /\ sales' = sales \ {d}
  /\ removed' = [removed EXCEPT ![d.id] = @ + 1]
  /\ UNCHANGED <<req, outcome, expired, made>>

-------------------------------------------------------------------------------

RequestStep(r, x) ==
  \/ Offer(r, x)
  \/ FindExisting(r, x)
  \/ CheckStock(r, x)
  \/ CommitSale(r, x)
  \/ Replay(r, x)
  \/ Deliver(r, x)

Next ==
  \/ \E r \in Request, x \in Receipt : RequestStep(r, x)
  \/ \E r \in Request : Lose(r)
  \/ \E x \in Receipt : Expire(x)
  \/ \E d \in sales : VoidSale(d) \/ DeleteSale(d)
  \/ \E d \in sales, y \in Payload : EditSale(d, y)

Spec == Init /\ [][Next]_vars

\* The till of a receipt does not give up, and neither crashes nor lost answers
\* spoil every attempt: a step that some attempt can take again and again is
\* taken.
FairSpec ==
  /\ Spec
  /\ \A x \in Receipt :
       /\ SF_vars(\E r \in Request : Offer(r, x))
       /\ SF_vars(\E r \in Request : FindExisting(r, x))
       /\ SF_vars(\E r \in Request : CheckStock(r, x))
       /\ SF_vars(\E r \in Request : CommitSale(r, x))
       /\ SF_vars(\E r \in Request : Replay(r, x))
       /\ SF_vars(\E r \in Request : Deliver(r, x))

-------------------------------------------------------------------------------
(* Properties.                                                             *)

\* Every variable keeps its type, and no copy of a request oversells.
TypeOK ==
  /\ stock \in Nat
  /\ sales \subseteq SaleDoc
  /\ req \in [Request -> {Idle} \cup Underway \cup Answered]
  /\ outcome \in [Receipt -> {"pending", "taken", "refused"}]
  /\ expired \subseteq Receipt
  /\ made \in [Id -> Nat]
  /\ removed \in [Id -> Nat]

\* Retries, copies and crashes never make a second sale of one clientSaleId: a
\* document is created again only after the earlier one was hard-deleted.
MadeOnce == \A i \in Id : made[i] <= removed[i] + 1

\* Stock leaves exactly as sales hold it, whatever was retried, refused after a
\* decrement or answered as a replay.
StockMatchesSales ==
  stock + SumOver([d \in sales |-> Units(d)], sales) = StartStock

\* A till that is told "taken" is told about its own sale: one with its
\* clientSaleId that says what the receipt says, or that was sold as the receipt
\* says and was edited since.  The one other case is the replay of a lost race
\* against another receipt with that clientSaleId.
TakenIsOwnSale ==
  \A r \in Request :
    req[r].phase = "answered" /\ req[r].answer = "taken" =>
      LET d == req[r].sale
          x == req[r].receipt
      IN /\ d.id = x.id
         /\ \/ x.payload \in {d.payload, d.sold}
            \/ /\ req[r].raced
               /\ \E y \in Receipt \ {x} : y.id = x.id /\ y.payload = d.sold

\* A sale that is in the database as its receipt says is acknowledged in the
\* end, even past the offline window and even to a till that was refused before,
\* unless an edit or a deletion changes it first.
Landed(x) == \E d \in sales : d.id = x.id /\ d.payload = x.payload

SoldIsAcknowledged ==
  \A x \in Receipt : Landed(x) ~> (outcome[x] = "taken" \/ ~Landed(x))

-------------------------------------------------------------------------------
(* Claims of the source that the code does not keep: TLC violates them, see *)
(* the README.                                                              *)

\* saleCreation.js:252-256 "this one lost ... the caller should treat this as a
\* successful idempotent replay, not a failure": a request whose very sale was
\* committed by another copy is not answered with a failure.
LostRaceIsReplay ==
  [][\A r \in Request :
       req[r].phase = "commit" /\ Landed(req[r].receipt)
         => ~ (req'[r].phase = "answered" /\ req'[r].answer # "taken")]_vars

\* sales.js:510-512 "never decided by clientSaleId alone - a semantic mismatch
\* means the id was reused for a materially different transaction, which is a
\* conflict, not a safe replay": no till is told "taken" about a sale that neither
\* is nor was what its receipt says.
MismatchIsConflict ==
  \A r \in Request :
    req[r].phase = "answered" /\ req[r].answer = "taken" =>
      req[r].receipt.payload \in {req[r].sale.payload, req[r].sale.sold}
===============================================================================
