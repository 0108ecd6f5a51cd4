------------------------------ MODULE Customers ------------------------------
(***************************************************************************)
(* routes/customers.js, utils/walkInCustomer.js and what the sale handlers *)
(* do to customers.  A sale of a registered customer names it by phone:    *)
(* its transaction upserts the customer, writes the sale and recalculates  *)
(* the customer's statistics from the sales.  Every such transaction       *)
(* writes the customer's document (timestamps move even when nothing else  *)
(* does), so two of one customer conflict and one of them runs again: each *)
(* is one step.  POST /:id/recalculate makes the same aggregate and the    *)
(* same write outside a transaction: two steps.                            *)
(*                                                                         *)
(* Names and e-mails are left out, and PUT /:id with them; the dates of    *)
(* the first and last purchase go with the two numbers kept here.  Stock   *)
(* is SaleLedger's.                                                        *)
(***************************************************************************)
EXTENDS Integers, FiniteSets, Sums

CONSTANTS
  CustomerId,  \* ids that insertions may take, each once
  Phone,       \* phone numbers, WalkIn among them
  WalkIn,      \* WALKIN_CUSTOMER_PHONE
  Sale,        \* ids of sales, each created at most once
  Total,       \* sale totals
  EditReq,     \* PUT /api/sales/:id requests, each served once
  RecalcReq,   \* POST /:id/recalculate requests, each served once
  RemoveReq,   \* DELETE /:id requests, each served once
  EnsureReq    \* startups and GET /walkin requests, each served once

CustomersAssumption == WalkIn \in Phone /\ Total \subseteq Nat /\ IsFiniteSet(Sale)

ASSUME CustomersAssumption

VARIABLES
  customer,   \* customer[c]: the document
  sale,       \* sale[s]: status, customerId, total and updatedAt of a sale
  edit,       \* edit[e]: the edit request e and the originalSale it read
  recalc,     \* recalc[r]: the request r and the statistics it computed
  removal,    \* removal[d]: the deletion d
  ensure,     \* ensure[w]: the call w of ensureWalkInCustomer
  overtaken   \* customers whose statistics were last written by a request that
              \* a sale overtook (history variable)

vars == <<customer, sale, edit, recalc, removal, ensure, overtaken>>

-------------------------------------------------------------------------------

NoOne == [status |-> "none"]
Gone == [status |-> "deleted"]

Customer == [status : {"live"}, phone : Phone, isWalkIn : BOOLEAN,
             count : Nat, spent : Nat]

Live(c) == customer[c].status = "live"

\* customerId is the set of the one customer, or {} for null.
NoSale == [status |-> "none", of |-> {}, total |-> 0, ver |-> 0]

SaleDoc == [status : {"none", "completed", "voided", "deleted"},
            of : SUBSET CustomerId, total : Nat, ver : Nat]

Idle == [phase |-> "idle"]
Done == [phase |-> "done"]

Edit == [phase : {"read"}, sale : Sale, of : SUBSET CustomerId, ver : Nat]

\* late: did a sale change the customer's statistics since the aggregate?
Recalc == [phase : {"read"}, of : CustomerId, count : Nat, spent : Nat,
           late : BOOLEAN]

\* phone and isWalkIn are those of the document the handler read.
Removal == [phase : {"read", "done"}, of : CustomerId, phone : Phone,
            isWalkIn : BOOLEAN]

Ensure == [phase : {"missing"}]
          \cup [phase : {"found"}, of : CustomerId]
          \cup [phase : {"answered"}, of : SUBSET CustomerId]

Init ==
  /\ customer = [c \in CustomerId |-> NoOne]
  /\ sale = [s \in Sale |-> NoSale]
  /\ edit = [e \in EditReq |-> Idle]
  /\ recalc = [r \in RecalcReq |-> Idle]
  /\ removal = [d \in RemoveReq |-> Idle]
  /\ ensure = [w \in EnsureReq |-> Idle]
  /\ overtaken = {}

-------------------------------------------------------------------------------
(* Statistics.                                                             *)

\* The sales of c that the $match of the aggregate lets through.
Purchases(S, c) == {s \in Sale : S[s].status = "completed" /\ c \in S[s].of}

\* $group: their number and the sum of their totals.
CountOf(S, c) == Cardinality(Purchases(S, c))
SpentOf(S, c) == SumOver([s \in Sale |-> S[s].total], Purchases(S, c))

\* recalculateCustomerStats: D with the statistics of the customers in C as the
\* sales S make them; a customer that is gone is not found.
Recalculated(D, S, C) ==
  [c \in CustomerId |->
     IF c \in C /\ D[c].status = "live"
     THEN [D[c] EXCEPT !.count = CountOf(S, c), !.spent = SpentOf(S, c)]
     ELSE D[c]]

WithPhone(p) == {c \in CustomerId : Live(c) /\ customer[c].phone = p}

\* Mutant: the schema without the defaults of the statistics.
NewCustomerBare(p, walk) == [status |-> "live", phone |-> p, isWalkIn |-> walk]

NewCustomer(p, walk) == [status |-> "live", phone |-> p, isWalkIn |-> walk,
                         count |-> 0, spent |-> 0]

\* resolveSaleCustomer: nobody for the walk-in customer.  It compares the phone
\* before it trims it, so that the phone of the walk-in customer with a space
\* around it is one like any other.
\* updateCustomerData: the customer with the phone p, or a new one.
Upserts(C, p) ==
  \/ p = WalkIn /\ C = {}
  \/ \E c \in CustomerId :
       /\ C = {c}
       /\ IF WithPhone(p) # {} THEN c \in WithPhone(p) ELSE customer[c] = NoOne

Upserted(C, p) ==
  [c \in CustomerId |-> IF c \in C /\ customer[c] = NoOne
                        THEN NewCustomer(p, p = WalkIn) ELSE customer[c]]

\* A committed transaction: the sales become S, and the statistics of the
\* customers in C follow.
Commit(D, S, C) ==
  /\ sale' = S
  /\ customer' = Recalculated(D, S, C)
  /\ recalc' = [r \in RecalcReq |->
                  IF recalc[r].phase = "read" /\ recalc[r].of \in C
                  THEN [recalc[r] EXCEPT !.late = TRUE] ELSE recalc[r]]
  /\ overtaken' = overtaken \ C

-------------------------------------------------------------------------------
(* The sale handlers.                                                      *)

CreateSale(s, p, n) ==
  /\ sale[s] = NoSale
  /\ \E C \in SUBSET CustomerId :
       /\ Upserts(C, p)
       /\ Commit(Upserted(C, p),
                 [sale EXCEPT ![s] = [status |-> "completed", of |-> C,
                                      total |-> n, ver |-> 1]],
                 C)
  /\ UNCHANGED <<edit, removal, ensure>>

ReadForEdit(e, s) ==
  /\ edit[e] = Idle
  /\ sale[s].status = "completed"
  /\ edit' = [edit EXCEPT ![e] = [phase |-> "read", sale |-> s,
                                  of |-> sale[s].of, ver |-> sale[s].ver]]
  /\ UNCHANGED <<customer, sale, recalc, removal, ensure, overtaken>>

\* Mutant: the customer the sale leaves is forgotten.
ConcernedNewOnly(q, C) == C

\* originalSale.customerId and newCustomerId
Concerned(q, C) == q.of \cup C

CommitEdit(e, p, n) ==
  LET q == edit[e] IN
  /\ q.phase = "read"
  /\ sale[q.sale].status \in {"completed", "voided"}
  /\ sale[q.sale].ver = q.ver
  /\ \E C \in SUBSET CustomerId :
       /\ Upserts(C, p)
       /\ Commit(Upserted(C, p),
                 [sale EXCEPT ![q.sale].of = C, ![q.sale].total = n,
                              ![q.sale].ver = @ + 1],
                 Concerned(q, C))
  /\ edit' = [edit EXCEPT ![e] = Done]
  /\ UNCHANGED <<removal, ensure>>

\* The sale changed since it was read: 409, and nothing is written.
RefuseEdit(e) ==
  /\ edit[e].phase = "read"
  /\ sale[edit[e].sale].ver # edit[e].ver
     \/ sale[edit[e].sale].status = "deleted"
  /\ edit' = [edit EXCEPT ![e] = Done]
  /\ UNCHANGED <<customer, sale, recalc, removal, ensure, overtaken>>

VoidSale(s) ==
  /\ sale[s].status = "completed"
  /\ Commit(customer, [sale EXCEPT ![s].status = "voided", ![s].ver = @ + 1],
            sale[s].of)
  /\ UNCHANGED <<edit, removal, ensure>>

\* A deleted sale leaves the aggregate with its document.
DeleteSale(s) ==
  /\ sale[s].status \in {"completed", "voided"}
  /\ Commit(customer, [sale EXCEPT ![s] = [NoSale EXCEPT !.status = "deleted"]],
            sale[s].of)
  /\ UNCHANGED <<edit, removal, ensure>>

-------------------------------------------------------------------------------
(* The customer routes.                                                    *)

Inserted(c, p, walk) ==
  customer' = [customer EXCEPT ![c] = NewCustomer(p, walk)]

\* POST /: the unique index refuses a second customer with the phone.
CreateCustomer(c, p) ==
  /\ customer[c] = NoOne
  /\ WithPhone(p) = {}
  /\ Inserted(c, p, FALSE)
  /\ UNCHANGED <<sale, edit, recalc, removal, ensure, overtaken>>

\* POST /:id/recalculate: the aggregate ...
ReadStats(r, c) ==
  /\ recalc[r] = Idle
  /\ recalc' = [recalc EXCEPT
       ![r] = [phase |-> "read", of |-> c, count |-> CountOf(sale, c),
               spent |-> SpentOf(sale, c), late |-> FALSE]]
  /\ UNCHANGED <<customer, sale, edit, removal, ensure, overtaken>>

\* ... and findByIdAndUpdate.
WriteStats(r) ==
  LET q == recalc[r] IN
  /\ q.phase = "read"
  /\ IF Live(q.of)
     THEN /\ customer' = [customer EXCEPT ![q.of].count = q.count,
                                          ![q.of].spent = q.spent]
          /\ overtaken' = IF q.late THEN overtaken \cup {q.of}
                                    ELSE overtaken \ {q.of}
     ELSE UNCHANGED <<customer, overtaken>>
  /\ recalc' = [recalc EXCEPT ![r] = Done]
  /\ UNCHANGED <<sale, edit, removal, ensure>>

\* Mutant: the walk-in customer is not special.
RemovableAny(c) == Live(c)

\* DELETE /:id refuses the walk-in customer it reads.
Removable(c) == Live(c) /\ ~customer[c].isWalkIn

ReadForRemoval(d, c) ==
  /\ removal[d] = Idle
  /\ Removable(c)
  /\ removal' = [removal EXCEPT ![d] = [phase |-> "read", of |-> c,
                                         phone |-> customer[c].phone,
                                         isWalkIn |-> customer[c].isWalkIn]]
  /\ UNCHANGED <<customer, sale, edit, recalc, ensure, overtaken>>

\* deleteOne({ _id }); the sales keep their customerId.
Remove(d) ==
  LET q == removal[d] IN
  /\ q.phase = "read"
  /\ customer' = IF Live(q.of) THEN [customer EXCEPT ![q.of] = Gone]
                               ELSE customer
  /\ removal' = [removal EXCEPT ![d].phase = "done"]
  /\ UNCHANGED <<sale, edit, recalc, ensure, overtaken>>

-------------------------------------------------------------------------------
(* ensureWalkInCustomer.                                                   *)

Answers(w, C) == ensure' = [ensure EXCEPT
                              ![w] = [phase |-> "answered", of |-> C]]

\* findOne({ phone: WALKIN_CUSTOMER_PHONE })
FindWalkIn(w) ==
  /\ ensure[w] = Idle
  /\ IF WithPhone(WalkIn) = {}
     THEN ensure' = [ensure EXCEPT ![w] = [phase |-> "missing"]]
     ELSE \E c \in WithPhone(WalkIn) :
            IF customer[c].isWalkIn THEN Answers(w, {c})
            ELSE ensure' = [ensure EXCEPT ![w] = [phase |-> "found", of |-> c]]
  /\ UNCHANGED <<customer, sale, edit, recalc, removal, overtaken>>

\* create; a duplicate phone throws, and the call answers with an error.
CreateWalkIn(w) ==
  /\ ensure[w].phase = "missing"
  /\ IF WithPhone(WalkIn) = {}
     THEN \E c \in CustomerId :
            /\ customer[c] = NoOne
            /\ Inserted(c, WalkIn, TRUE)
            /\ Answers(w, {c})
     ELSE UNCHANGED customer /\ Answers(w, {})
  /\ UNCHANGED <<sale, edit, recalc, removal, overtaken>>

\* isWalkIn = true and save(), which fails on a document that is gone.
FlagWalkIn(w) ==
  LET q == ensure[w] IN
  /\ q.phase = "found"
  /\ IF Live(q.of)
     THEN /\ customer' = [customer EXCEPT ![q.of].isWalkIn = TRUE]
          /\ Answers(w, {q.of})
     ELSE UNCHANGED customer /\ Answers(w, {})
  /\ UNCHANGED <<sale, edit, recalc, removal, overtaken>>

SaleStep ==
  \/ \E s \in Sale, p \in Phone, n \in Total : CreateSale(s, p, n)
  \/ \E e \in EditReq, s \in Sale : ReadForEdit(e, s)
  \/ \E e \in EditReq, p \in Phone, n \in Total : CommitEdit(e, p, n)
  \/ \E e \in EditReq : RefuseEdit(e)
  \/ \E s \in Sale : VoidSale(s) \/ DeleteSale(s)

CustomerStep ==
  \/ \E c \in CustomerId, p \in Phone : CreateCustomer(c, p)
  \/ \E r \in RecalcReq, c \in CustomerId : ReadStats(r, c)
  \/ \E r \in RecalcReq : WriteStats(r)
  \/ \E d \in RemoveReq, c \in CustomerId : ReadForRemoval(d, c)
  \/ \E d \in RemoveReq : Remove(d)

EnsureStep ==
  \E w \in EnsureReq : FindWalkIn(w) \/ CreateWalkIn(w) \/ FlagWalkIn(w)

Next == SaleStep \/ CustomerStep \/ EnsureStep

Spec == Init /\ [][Next]_vars

-------------------------------------------------------------------------------
(* Properties.                                                             *)

\* The documents and the requests have the shapes of their phases.
TypeOK ==
  /\ customer \in [CustomerId -> {NoOne, Gone} \cup Customer]
  /\ sale \in [Sale -> SaleDoc]
  /\ edit \in [EditReq -> {Idle, Done} \cup Edit]
  /\ recalc \in [RecalcReq -> {Idle, Done} \cup Recalc]
  /\ removal \in [RemoveReq -> {Idle} \cup Removal]
  /\ ensure \in [EnsureReq -> {Idle} \cup Ensure]
  /\ overtaken \subseteq CustomerId

\* A customer's statistics are those of its sales, through creations, edits that
\* move a sale between customers, voids, deletions and recalculations, unless a
\* recalculation that a sale overtook was the last to write them.
StatsMatchSales ==
  \A c \in CustomerId : Live(c) /\ c \notin overtaken =>
    /\ customer[c].count = CountOf(sale, c)
    /\ customer[c].spent = SpentOf(sale, c)

\* The call w answered with the walk-in customer.
Ensured(w) == ensure[w].phase = "answered" /\ ensure[w].of # {}

\* "Never creates a duplicate", and permanent: after any call that was answered,
\* the record with the walk-in's phone is there, alone and flagged, unless a
\* deletion of such a record had read it before it was flagged.
WalkInPermanent ==
  (\E w \in EnsureReq : Ensured(w)) =>
    \/ \E c \in WithPhone(WalkIn) : WithPhone(WalkIn) = {c} /\ customer[c].isWalkIn
    \/ \E d \in RemoveReq : /\ removal[d].phase = "done"
                            /\ removal[d].phone = WalkIn
                            /\ ~removal[d].isWalkIn
===============================================================================
