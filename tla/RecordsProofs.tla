---------------------------- MODULE RecordsProofs -----------------------------
(***************************************************************************)
(* Proofs about CashRecords and ReferenceData, for any number of records,  *)
(* rates, names and requests.                                              *)
(***************************************************************************)
EXTENDS CashRecords, ReferenceData, SequenceTheorems, TLAPS

-------------------------------------------------------------------------------
(* Expenses and entries.                                                   *)

\* What the handlers keep true of one expense.
SignedDoc(d) ==
  /\ d.status \in Decisions <=> d.validatedBy # {}
  /\ \A u \in d.validatedBy : Role[u] # "cashier"

\* The decision of x is backed in d: by a line of the notes and by a signature.
BackedDoc(x, d) ==
  d.status \in Decisions =>
    /\ \E n \in d.notes : Supports(n, d.status)
    /\ \E r \in ExpenseRequest : Signs(r, x, d)

\* A request under way passed its checks on a document that was once the expense,
\* and an expense that it saw decided is decided, or gone.
Begins(r) ==
  LET q == expenseReq[r] IN
  /\ MayProceed(q.user, q.input, q.seen)
  /\ SignedDoc(q.seen)
  /\ BackedDoc(q.of, q.seen)
  /\ expense[q.of] # NoExpense
  /\ q.seen.status \in Decisions /\ ExpenseExists(q.of)
       => expense[q.of].status \in Decisions

ExpenseInv ==
  /\ ExpenseTypeOK
  /\ \A x \in Expense : ExpenseExists(x) => SignedDoc(expense[x])
                                            /\ BackedDoc(x, expense[x])
  /\ \A r \in ExpenseRequest : expenseReq[r].phase = "read" => Begins(r)

-------------------------------------------------------------------------------
(* Expenses.                                                               *)

LEMMA ExpenseInitial == ExpenseInit => ExpenseInv
BY DEF ExpenseInit, ExpenseInv, ExpenseTypeOK, ExpenseExists, NoExpense,
       NoExpenseReq, Decisions

\* A document that exists has the fields of a document.
LEMMA ExpenseShape ==
  ASSUME ExpenseTypeOK, NEW x \in Expense
  PROVE  /\ ExpenseExists(x) <=> expense[x] \in ExpenseDoc
         /\ ~ExpenseExists(x) => expense[x] \in {NoExpense, GoneExpense}
BY DEF ExpenseTypeOK, ExpenseExists, ExpenseDoc, NoExpense, GoneExpense, Decisions

\* A request that read something has the fields of a request.
LEMMA ExpenseReqShape ==
  ASSUME ExpenseTypeOK, NEW r \in ExpenseRequest, expenseReq[r].phase = "read"
  PROVE  /\ expenseReq[r] \in ExpenseReq
         /\ expenseReq[r].user \in User
         /\ expenseReq[r].of \in Expense
         /\ expenseReq[r].input \in ExpenseInput
         /\ expenseReq[r].seen \in ExpenseDoc
<1>1. expenseReq[r] \in ExpenseReq
  BY DEF ExpenseTypeOK, NoExpenseReq
<1> QED
  BY <1>1 DEF ExpenseReq

\* A request goes on supporting and signing what it does while it does not change.
LEMMA SupportsKept ==
  ASSUME NEW n, expenseReq'[n] = expenseReq[n]
  PROVE  /\ \A s : Supports(n, s) => Supports(n, s)'
         /\ \A x, d : Signs(n, x, d) => Signs(n, x, d)'
BY DEF Supports, Signs

LEMMA CreateExpenseKeeps ==
  ASSUME ExpenseInv, NEW u \in User, NEW x \in Expense, NEW n \in ExpenseAmount,
         NEW g \in Region, CreateExpense(u, x, n, g)
  PROVE  ExpenseInv'
<1> USE DEF ExpenseInv
<1>1. PICK d : d = [status |-> "pending", amount |-> n, region |-> g,
                    recordedBy |-> u, validatedBy |-> {}, notes |-> {}]
  OBVIOUS
<1>2. /\ expense' = [expense EXCEPT ![x] = d] /\ expenseReq' = expenseReq
      /\ expense[x] = NoExpense
  BY <1>1 DEF CreateExpense
<1>3. d \in ExpenseDoc /\ d.status = "pending" /\ d.validatedBy = {}
  BY <1>1 DEF ExpenseDoc
<1>4. ExpenseTypeOK'
  BY <1>2, <1>3 DEF ExpenseTypeOK
<1>5. ASSUME NEW y \in Expense, ExpenseExists(y)'
      PROVE  SignedDoc(expense[y])' /\ BackedDoc(y, expense[y])'
  <2>1. CASE y = x
    <3>1. expense'[y] = d
      BY <1>2, <2>1 DEF ExpenseTypeOK
    <3> QED
      BY <1>3, <3>1 DEF SignedDoc, BackedDoc, Decisions
  <2>2. CASE y # x
    <3>1. expense'[y] = expense[y]
      BY <1>2, <2>2 DEF ExpenseTypeOK
    <3>2. SignedDoc(expense[y]) /\ BackedDoc(y, expense[y])
      BY <1>5, <3>1 DEF ExpenseExists
    <3> QED
      BY <1>2, <3>1, <3>2 DEF SignedDoc, BackedDoc, Supports, Signs
  <2> QED
    BY <2>1, <2>2
<1>6. ASSUME NEW r \in ExpenseRequest, expenseReq'[r].phase = "read"
      PROVE  Begins(r)'
  <2>1. Begins(r) /\ expenseReq[r].of \in Expense
    BY <1>2, <1>6, ExpenseReqShape
  <2>2. expense'[expenseReq[r].of] = expense[expenseReq[r].of]
    BY <1>2, <2>1 DEF Begins, ExpenseTypeOK
  <2> QED
    BY <1>2, <2>1, <2>2 DEF Begins, SignedDoc, BackedDoc, Supports, Signs, ExpenseExists
<1> QED
  BY <1>4, <1>5, <1>6

LEMMA ReadExpenseKeeps ==
  ASSUME ExpenseInv, NEW r \in ExpenseRequest, NEW u \in User, NEW x \in Expense,
         NEW input \in ExpenseInput, ReadExpense(r, u, x, input)
  PROVE  ExpenseInv'
<1> USE DEF ExpenseInv
<1>1. PICK q : q = [phase |-> "read", user |-> u, of |-> x, input |-> input,
                    seen |-> expense[x]]
  OBVIOUS
<1>2. /\ expenseReq' = [expenseReq EXCEPT ![r] = q] /\ expense' = expense
      /\ expenseReq[r] = NoExpenseReq
      /\ ExpenseExists(x) /\ MayProceed(u, input, expense[x])
  BY <1>1 DEF ReadExpense, ExpenseFound
<1>3. expense[x] \in ExpenseDoc
  BY <1>2, ExpenseShape
<1>4. q \in ExpenseReq
  BY <1>1, <1>3 DEF ExpenseReq
<1>5. ExpenseTypeOK'
  BY <1>2, <1>4 DEF ExpenseTypeOK
<1>6. ASSUME NEW n \in ExpenseRequest, expenseReq[n].phase = "done"
      PROVE  expenseReq'[n] = expenseReq[n]
  BY <1>2, <1>6 DEF ExpenseTypeOK, NoExpenseReq
<1>7. ASSUME NEW z \in Expense, NEW d \in ExpenseDoc, BackedDoc(z, d)
      PROVE  BackedDoc(z, d)'
  <2>1. d.notes \subseteq ExpenseRequest
    BY DEF ExpenseDoc
  <2> QED
    BY <1>6, <1>7, <2>1 DEF BackedDoc, Supports, Signs
<1>8. ASSUME NEW y \in Expense, ExpenseExists(y)'
      PROVE  SignedDoc(expense[y])' /\ BackedDoc(y, expense[y])'
  <2>1. ExpenseExists(y) /\ expense'[y] = expense[y] /\ expense[y] \in ExpenseDoc
    BY <1>2, <1>8, ExpenseShape DEF ExpenseExists
  <2>2. BackedDoc(y, expense[y]) /\ SignedDoc(expense[y])
    BY <2>1
  <2>3. PICK d : d = expense[y]
    OBVIOUS
  <2>4. BackedDoc(y, d)'
    BY <1>7, <2>1, <2>2, <2>3
  <2> QED
    BY <2>1, <2>2, <2>3, <2>4 DEF BackedDoc, SignedDoc
<1>9. ASSUME NEW p \in ExpenseRequest, expenseReq'[p].phase = "read"
      PROVE  Begins(p)'
  <2>1. CASE p = r
    <3>1. expenseReq'[p] = q
      BY <1>2, <2>1 DEF ExpenseTypeOK
    <3>2. SignedDoc(expense[x])' /\ BackedDoc(x, expense[x])'
      BY <1>2, <1>8 DEF ExpenseExists
    <3>3. expense[x] # NoExpense
      BY <1>2 DEF ExpenseExists, NoExpense, Decisions
    <3> QED
      BY <1>1, <1>2, <3>1, <3>2, <3>3 DEF Begins, SignedDoc, BackedDoc, ExpenseExists
  <2>2. CASE p # r
    <3>1. expenseReq'[p] = expenseReq[p] /\ Begins(p)
      BY <1>2, <1>9, <2>2 DEF ExpenseTypeOK
    <3>2. PICK d : d = expenseReq[p].seen
      OBVIOUS
    <3>3. BackedDoc(expenseReq[p].of, d)'
      BY <1>7, <1>9, <3>1, <3>2, ExpenseReqShape DEF Begins
    <3> QED
      BY <1>2, <3>1, <3>2, <3>3 DEF Begins, SignedDoc, BackedDoc, ExpenseExists
  <2> QED
    BY <2>1, <2>2
<1> QED
  BY <1>5, <1>8, <1>9

\* An answer changes nothing of a request but its phase, and what other lines
\* support.
LEMMA AnswerShape ==
  ASSUME ExpenseTypeOK, NEW r \in ExpenseRequest, expenseReq[r].phase = "read",
         NEW answer \in {"ok", "failed"}, AnswerExpense(r, answer)
  PROVE  /\ expenseReq' \in [ExpenseRequest -> {NoExpenseReq} \cup ExpenseReq]
         /\ \A p \in ExpenseRequest \ {r} : expenseReq'[p] = expenseReq[p]
         /\ expenseReq'[r].phase = "done"
         /\ expenseReq'[r].input = expenseReq[r].input
         /\ expenseReq'[r].seen = expenseReq[r].seen
         /\ expenseReq'[r].of = expenseReq[r].of
         /\ expenseReq'[r].user = expenseReq[r].user
<1>1. expenseReq[r] \in ExpenseReq
  BY ExpenseReqShape
<1>2. PICK a : a = [phase |-> "done", user |-> expenseReq[r].user,
                    of |-> expenseReq[r].of, input |-> expenseReq[r].input,
                    seen |-> expenseReq[r].seen, told |-> answer]
  OBVIOUS
<1>3. expenseReq' = [expenseReq EXCEPT ![r] = a]
  BY <1>2 DEF AnswerExpense
<1>4. a \in ExpenseReq
  BY <1>1, <1>2 DEF ExpenseReq
<1> QED
  BY <1>2, <1>3, <1>4 DEF ExpenseTypeOK

\* What backs a decision goes on doing so when some request is answered.
LEMMA AnswerBacks ==
  ASSUME ExpenseTypeOK, NEW r \in ExpenseRequest, expenseReq[r].phase = "read",
         NEW answer \in {"ok", "failed"}, AnswerExpense(r, answer),
         NEW x \in Expense, NEW d \in ExpenseDoc, BackedDoc(x, d)
  PROVE  BackedDoc(x, d)'
<1>1. d.notes \subseteq ExpenseRequest
  BY DEF ExpenseDoc
<1>2. \A n \in ExpenseRequest : expenseReq[n].phase = "done"
                               => expenseReq'[n] = expenseReq[n]
  BY AnswerShape
<1> QED
  BY <1>1, <1>2 DEF BackedDoc, Supports, Signs

\* A write that leaves one expense signed and noted, and no decided one pending,
\* keeps the invariant.
LEMMA ExpenseWriteKeeps ==
  ASSUME ExpenseInv, NEW r \in ExpenseRequest, expenseReq[r].phase = "read",
         NEW answer \in {"ok", "failed"}, AnswerExpense(r, answer),
         NEW x \in Expense, ExpenseExists(x),
         NEW d \in ExpenseDoc \cup {GoneExpense},
         expense' = [expense EXCEPT ![x] = d],
         d \in ExpenseDoc =>
           /\ SignedDoc(d)
           /\ BackedDoc(x, d)'
           /\ expense[x].status \in Decisions => d.status \in Decisions
  PROVE  ExpenseInv'
<1> USE DEF ExpenseInv
<1>1. ExpenseTypeOK'
  <2>1. expense' \in [Expense -> {NoExpense, GoneExpense} \cup ExpenseDoc]
    BY DEF ExpenseTypeOK
  <2> QED
    BY <2>1, AnswerShape DEF ExpenseTypeOK
<1>2. GoneExpense.status \notin {"pending"} \cup Decisions /\ d # NoExpense
  BY DEF GoneExpense, NoExpense, Decisions, ExpenseDoc
<1>3. ASSUME NEW y \in Expense, ExpenseExists(y)'
      PROVE  SignedDoc(expense[y])' /\ BackedDoc(y, expense[y])'
  <2>1. CASE y = x
    <3>1. expense'[y] = d
      BY <2>1 DEF ExpenseTypeOK
    <3>2. d \in ExpenseDoc
      BY <1>2, <1>3, <3>1 DEF ExpenseExists
    <3> QED
      BY <2>1, <3>1, <3>2 DEF SignedDoc, BackedDoc
  <2>2. CASE y # x
    <3>1. expense'[y] = expense[y]
      BY <2>2 DEF ExpenseTypeOK
    <3>2. ExpenseExists(y) /\ expense[y] \in ExpenseDoc
      BY <1>3, <3>1, ExpenseShape DEF ExpenseExists
    <3>3. PICK e : e = expense[y]
      OBVIOUS
    <3>4. SignedDoc(e) /\ BackedDoc(y, e)'
      BY <3>2, <3>3, AnswerBacks
    <3> QED
      BY <3>1, <3>3, <3>4 DEF SignedDoc, BackedDoc
  <2> QED
    BY <2>1, <2>2
<1>4. ASSUME NEW p \in ExpenseRequest, expenseReq'[p].phase = "read"
      PROVE  Begins(p)'
  <2>1. p # r /\ expenseReq'[p] = expenseReq[p] /\ expenseReq[p].phase = "read"
    BY <1>4, AnswerShape
  <2>2. Begins(p) /\ expenseReq[p].seen \in ExpenseDoc /\ expenseReq[p].of \in Expense
    BY <2>1, ExpenseReqShape
  <2>3. PICK e, y : e = expenseReq[p].seen /\ y = expenseReq[p].of
    OBVIOUS
  <2>4. SignedDoc(e) /\ BackedDoc(y, e)'
    BY <2>2, <2>3, AnswerBacks DEF Begins
  <2>5. expense'[y] # NoExpense
    BY <1>2, <2>2, <2>3 DEF Begins, ExpenseTypeOK
  <2>6. ASSUME e.status \in Decisions, ExpenseExists(y)'
        PROVE  expense'[y].status \in Decisions
    <3>1. CASE y = x
      <4>1. expense'[y] = d
        BY <3>1 DEF ExpenseTypeOK
      <4>2. d \in ExpenseDoc
        BY <1>2, <2>6, <4>1 DEF ExpenseExists
      <4>3. expense[x].status \in Decisions
        BY <2>2, <2>3, <2>6, <3>1 DEF Begins
      <4> QED
        BY <4>1, <4>2, <4>3
    <3>2. CASE y # x
      <4>1. expense'[y] = expense[y]
        BY <2>2, <2>3, <3>2 DEF ExpenseTypeOK
      <4> QED
        BY <2>2, <2>3, <2>6, <4>1 DEF Begins, ExpenseExists
    <3> QED
      BY <3>1, <3>2
  <2> QED
    BY <2>1, <2>2, <2>3, <2>4, <2>5, <2>6 DEF Begins, SignedDoc
<1> QED
  BY <1>1, <1>3, <1>4

\* An answer without a write keeps it as well.
LEMMA ExpenseAnswerKeeps ==
  ASSUME ExpenseInv, NEW r \in ExpenseRequest, expenseReq[r].phase = "read",
         NEW answer \in {"ok", "failed"}, AnswerExpense(r, answer),
         UNCHANGED expense
  PROVE  ExpenseInv'
<1> USE DEF ExpenseInv
<1>1. ExpenseTypeOK'
  BY AnswerShape DEF ExpenseTypeOK
<1>2. ASSUME NEW y \in Expense, ExpenseExists(y)'
      PROVE  SignedDoc(expense[y])' /\ BackedDoc(y, expense[y])'
  <2>1. ExpenseExists(y) /\ expense[y] \in ExpenseDoc
    BY <1>2, ExpenseShape DEF ExpenseExists
  <2>2. PICK e : e = expense[y]
    OBVIOUS
  <2>3. SignedDoc(e) /\ BackedDoc(y, e)'
    BY <2>1, <2>2, AnswerBacks
  <2> QED
    BY <2>2, <2>3 DEF SignedDoc, BackedDoc
<1>3. ASSUME NEW p \in ExpenseRequest, expenseReq'[p].phase = "read"
      PROVE  Begins(p)'
  <2>1. p # r /\ expenseReq'[p] = expenseReq[p] /\ expenseReq[p].phase = "read"
    BY <1>3, AnswerShape
  <2>2. Begins(p) /\ expenseReq[p].seen \in ExpenseDoc
    BY <2>1, ExpenseReqShape
  <2>3. PICK e : e = expenseReq[p].seen
    OBVIOUS
  <2>4. BackedDoc(expenseReq[p].of, e)'
    BY <2>1, <2>2, <2>3, AnswerBacks, ExpenseReqShape DEF Begins
  <2> QED
    BY <2>1, <2>2, <2>3, <2>4 DEF Begins, SignedDoc, ExpenseExists
<1> QED
  BY <1>1, <1>2, <1>3

LEMMA DecideExpenseKeeps ==
  ASSUME ExpenseInv, NEW r \in ExpenseRequest, DecideExpense(r)
  PROVE  ExpenseInv'
<1>1. PICK q, x : q = expenseReq[r] /\ x = q.of
  OBVIOUS
<1>2. /\ q.phase = "read" /\ q.input.op = "decide"
      /\ AnswerExpense(r, "ok")
  BY <1>1 DEF DecideExpense
<1>3. CASE ~ExpenseFound(q.user, x)
  <2>1. UNCHANGED expense
    BY <1>1, <1>3 DEF DecideExpense
  <2> QED
    BY <1>1, <1>2, <2>1, ExpenseAnswerKeeps
<1>4. CASE ExpenseFound(q.user, x)
  <2>1. /\ q \in ExpenseReq /\ q.user \in User /\ x \in Expense
        /\ q.input \in ExpenseInput /\ q.seen \in ExpenseDoc
    BY <1>1, <1>2, ExpenseReqShape DEF ExpenseInv
  <2>2. ExpenseExists(x) /\ expense[x] \in ExpenseDoc
    BY <1>4, <2>1, ExpenseShape DEF ExpenseFound, ExpenseInv
  <2>3. PICK d : d = [expense[x] EXCEPT !.status = q.input.verdict,
                                        !.validatedBy = {q.user},
                                        !.notes = Noted(r, q)]
    OBVIOUS
  <2>4. q.input.verdict \in Decisions
    BY <1>2, <2>1 DEF ExpenseInput
  <2>5. Noted(r, q) \subseteq ExpenseRequest /\ r \in Noted(r, q)
    BY <2>1 DEF Noted, ExpenseDoc
  <2>6. /\ d \in ExpenseDoc /\ d.status = q.input.verdict
        /\ d.validatedBy = {q.user} /\ d.notes = Noted(r, q)
    BY <2>1, <2>2, <2>3, <2>4, <2>5 DEF ExpenseDoc
  <2>7. expense' = [expense EXCEPT ![x] = d]
    <3>1. expense' = [expense EXCEPT ![q.of].status = q.input.verdict,
                                     ![q.of].validatedBy = {q.user},
                                     ![q.of].notes = Noted(r, q)]
      BY <1>1, <1>4 DEF DecideExpense
    <3> QED
      BY <1>1, <2>1, <2>3, <3>1 DEF ExpenseInv, ExpenseTypeOK
  <2>8. CanValidate(q.user)
    BY <1>1, <1>2 DEF ExpenseInv, Begins, MayProceed
  <2>9. SignedDoc(d)
    BY <2>4, <2>6, <2>8 DEF SignedDoc, CanValidate
  <2>10. BackedDoc(x, d)'
    <3>1. Supports(r, d.status)'
      BY <1>1, <1>2, <2>6, AnswerShape DEF Supports, ExpenseInv
    <3>2. Signs(r, x, d)'
      BY <1>1, <1>2, <2>6, AnswerShape DEF Signs, ExpenseInv
    <3> QED
      BY <2>5, <2>6, <3>1, <3>2 DEF BackedDoc
  <2> QED
    BY <1>1, <1>2, <2>1, <2>2, <2>4, <2>6, <2>7, <2>9, <2>10, ExpenseWriteKeeps
<1> QED
  BY <1>3, <1>4

\* Whom an edit leaves as validators of an expense that it saw in its state.
LEMMA SignedShape ==
  ASSUME NEW q, NEW d \in ExpenseDoc, q.user \in User, q.seen \in ExpenseDoc,
         SignedDoc(q.seen), SignedDoc(d),
         q.seen.status \in Decisions => d.status \in Decisions
  PROVE  /\ Signed(q, d) \in SUBSET User
         /\ d.status \in Decisions <=> Signed(q, d) # {}
         /\ \A u \in Signed(q, d) : Role[u] # "cashier"
<1>1. CASE q.seen.status = "validated" /\ IsAdmin(q.user)
  BY <1>1 DEF Signed, SignedDoc, IsAdmin, ExpenseDoc, Decisions
<1>2. CASE ~(q.seen.status = "validated" /\ IsAdmin(q.user))
  <2>1. Signed(q, d) = d.validatedBy
    BY <1>2 DEF Signed
  <2> QED
    BY <2>1 DEF SignedDoc, ExpenseDoc
<1> QED
  BY <1>1, <1>2

LEMMA EditExpenseKeeps ==
  ASSUME ExpenseInv, NEW r \in ExpenseRequest, EditExpense(r)
  PROVE  ExpenseInv'
<1>1. PICK q, x : q = expenseReq[r] /\ x = q.of
  OBVIOUS
<1>2. q.phase = "read" /\ q.input.op = "edit"
  BY <1>1 DEF EditExpense
<1>3. CASE ~ExpenseFound(q.user, x)
  <2>1. UNCHANGED expense /\ AnswerExpense(r, "failed")
    BY <1>1, <1>3 DEF EditExpense
  <2> QED
    BY <1>1, <1>2, <2>1, ExpenseAnswerKeeps
<1>4. CASE ExpenseFound(q.user, x)
  <2>1. /\ q \in ExpenseReq /\ q.user \in User /\ x \in Expense
        /\ q.input \in ExpenseInput /\ q.seen \in ExpenseDoc
    BY <1>1, <1>2, ExpenseReqShape DEF ExpenseInv
  <2>2. ExpenseExists(x) /\ expense[x] \in ExpenseDoc
    BY <1>4, <2>1, ExpenseShape DEF ExpenseFound, ExpenseInv
  <2>3. AnswerExpense(r, "ok")
    BY <1>1, <1>4 DEF EditExpense
  <2>4. PICK g, v, e : /\ g = EditedRegion(q, expense[x])
                       /\ v = Signed(q, expense[x])
                       /\ e = Noted(r, q)
    OBVIOUS
  <2>5. PICK d : d = [expense[x] EXCEPT !.amount = q.input.amount, !.region = g,
                                        !.validatedBy = v, !.notes = e]
    OBVIOUS
  <2>6. expense' = [expense EXCEPT ![x] = d]
    BY <1>1, <1>4, <2>4, <2>5 DEF EditExpense
  <2>7. g \in Region
    BY <1>2, <2>1, <2>2, <2>4 DEF EditedRegion, ExpenseInput, ExpenseDoc
  <2>8. /\ e \subseteq ExpenseRequest /\ r \in e
        /\ q.seen.notes \subseteq e
    BY <2>1, <2>4 DEF Noted, ExpenseDoc
  <2>9. /\ Begins(r) /\ SignedDoc(q.seen) /\ BackedDoc(x, q.seen)
        /\ q.seen.status \in Decisions => expense[x].status \in Decisions
    BY <1>1, <1>2, <2>2 DEF ExpenseInv, Begins
  <2>10. SignedDoc(expense[x])
    BY <2>1, <2>2 DEF ExpenseInv
  <2>11. /\ v \in SUBSET User
         /\ expense[x].status \in Decisions <=> v # {}
         /\ \A u \in v : Role[u] # "cashier"
    BY <2>1, <2>2, <2>4, <2>9, <2>10, SignedShape
  <2>12. q.input.amount \in ExpenseAmount
    BY <1>2, <2>1 DEF ExpenseInput
  <2>13. /\ d \in ExpenseDoc /\ d.status = expense[x].status
         /\ d.validatedBy = v /\ d.notes = e
    BY <2>2, <2>5, <2>7, <2>8, <2>11, <2>12 DEF ExpenseDoc
  <2>14. SignedDoc(d)
    BY <2>11, <2>13 DEF SignedDoc
  <2>15. BackedDoc(x, q.seen)' /\ BackedDoc(x, expense[x])
    <3>1. PICK old : old = q.seen
      OBVIOUS
    <3>2. BackedDoc(x, old)'
      BY <1>1, <1>2, <2>1, <2>3, <2>9, <3>1, AnswerBacks DEF ExpenseInv
    <3> QED
      BY <2>1, <2>2, <3>1, <3>2 DEF ExpenseInv
  <2>16. ASSUME d.status \in Decisions
         PROVE  \E n \in d.notes : Supports(n, d.status)'
    <3>1. CASE q.seen.status # d.status
      <4>1. Supports(r, d.status)'
        BY <1>1, <1>2, <2>3, <3>1, AnswerShape DEF Supports, ExpenseInv
      <4> QED
        BY <2>8, <2>13, <4>1
    <3>2. CASE q.seen.status = d.status
      BY <2>8, <2>13, <2>15, <2>16, <3>2 DEF BackedDoc
    <3> QED
      BY <3>1, <3>2
  <2>17. ASSUME d.status \in Decisions
         PROVE  \E n \in ExpenseRequest : Signs(n, x, d)'
    <3>1. CASE q.seen.status = "validated" /\ IsAdmin(q.user)
      <4>1. v = q.seen.validatedBy \cup {q.user}
        BY <2>4, <3>1 DEF Signed
      <4>2. CASE d.status = "validated"
        <5>1. PICK n \in ExpenseRequest : Signs(n, x, q.seen)'
          BY <2>15, <2>17, <3>1, <4>2 DEF BackedDoc
        <5> QED
          BY <2>13, <3>1, <4>1, <4>2, <5>1 DEF Signs
      <4>3. CASE d.status # "validated"
        <5>1. "validated" \in Decisions \ {d.status}
          BY <4>3 DEF Decisions
        <5>2. Signs(r, x, d)'
          BY <1>1, <1>2, <2>3, <2>13, <3>1, <4>1, <5>1, AnswerShape
             DEF Signs, ExpenseInv
        <5> QED
          BY <5>2
      <4> QED
        BY <4>2, <4>3
    <3>2. CASE ~(q.seen.status = "validated" /\ IsAdmin(q.user))
      <4>1. v = expense[x].validatedBy
        BY <2>4, <3>2 DEF Signed
      <4>2. PICK n \in ExpenseRequest : Signs(n, x, expense[x])
        BY <2>13, <2>15, <2>17 DEF BackedDoc
      <4>3. expenseReq'[n] = expenseReq[n]
        BY <1>1, <1>2, <2>3, <4>2, AnswerShape DEF Signs, ExpenseInv
      <4>4. Signs(n, x, d)'
        BY <2>13, <4>1, <4>2, <4>3 DEF Signs
      <4> QED
        BY <4>4
    <3> QED
      BY <3>1, <3>2
  <2>18. BackedDoc(x, d)'
    BY <2>16, <2>17 DEF BackedDoc
  <2> QED
    BY <1>1, <1>2, <2>1, <2>2, <2>3, <2>6, <2>13, <2>14, <2>18, ExpenseWriteKeeps
<1> QED
  BY <1>3, <1>4

LEMMA DeleteExpenseKeeps ==
  ASSUME ExpenseInv, NEW r \in ExpenseRequest, DeleteExpense(r)
  PROVE  ExpenseInv'
<1>1. PICK q, x : q = expenseReq[r] /\ x = q.of
  OBVIOUS
<1>2. q.phase = "read" /\ AnswerExpense(r, "ok")
  BY <1>1 DEF DeleteExpense
<1>3. CASE ~ExpenseFound(q.user, x)
  <2>1. UNCHANGED expense
    BY <1>1, <1>3 DEF DeleteExpense
  <2> QED
    BY <1>1, <1>2, <2>1, ExpenseAnswerKeeps
<1>4. CASE ExpenseFound(q.user, x)
  <2>1. x \in Expense
    BY <1>1, <1>2, ExpenseReqShape DEF ExpenseInv
  <2>2. ExpenseExists(x)
    BY <1>4 DEF ExpenseFound
  <2>3. expense' = [expense EXCEPT ![x] = GoneExpense]
    BY <1>1, <1>4 DEF DeleteExpense
  <2>4. GoneExpense \notin ExpenseDoc
    BY DEF GoneExpense, ExpenseDoc, Decisions
  <2> QED
    BY <1>1, <1>2, <2>1, <2>2, <2>3, <2>4, ExpenseWriteKeeps
<1> QED
  BY <1>3, <1>4

LEMMA ExpenseStepKeeps == ExpenseInv /\ [ExpenseNext]_expenseVars => ExpenseInv'
<1> SUFFICES ASSUME ExpenseInv, [ExpenseNext]_expenseVars PROVE ExpenseInv'
  OBVIOUS
<1>1. CASE ExpenseCreation
  BY <1>1, CreateExpenseKeeps DEF ExpenseCreation
<1>2. CASE ExpenseArrival
  BY <1>2, ReadExpenseKeeps DEF ExpenseArrival
<1>3. CASE ExpenseWrite
  BY <1>3, DecideExpenseKeeps, EditExpenseKeeps, DeleteExpenseKeeps DEF ExpenseWrite
<1>4. CASE UNCHANGED expenseVars
  BY <1>4 DEF ExpenseInv, ExpenseTypeOK, expenseVars, ExpenseExists, SignedDoc,
              BackedDoc, Begins, Supports, Signs
<1> QED
  BY <1>1, <1>2, <1>3, <1>4 DEF ExpenseNext

-------------------------------------------------------------------------------
(* Entries.                                                                *)

\* What the edits of a history wrote, and how many changes each had seen.
Written(h) == [n \in 1..Len(h) |-> entryReq[h[n].req].input.body]
SeenBy(h) == [n \in 1..Len(h) |-> Len(entryReq[h[n].req].seen.history)]

\* The history h of edits that wrote W and had seen S changes.  What an edit tells
\* of a field is the difference between what the edit that it saw last wrote and
\* what it writes itself.
Told(h, W, S) ==
  /\ W \in [1..Len(h) -> Body]
  /\ S \in [1..Len(h) -> Nat]
  /\ \A n \in 1..Len(h) :
       /\ S[n] < n
       /\ \A f \in DOMAIN h[n].changes :
            /\ h[n].changes[f].to = W[n][f]
            /\ S[n] > 0 => h[n].changes[f].from = W[S[n]][f]
       /\ \A f \in EntryField \ DOMAIN h[n].changes : S[n] > 0 => W[n][f] = W[S[n]][f]

\* After the n-th edit a field is what was last told of it, but for a stale edit.
Standing(h, W, S) ==
  \A n \in 1..Len(h), f \in EntryField : \A i \in 1..n :
    LastTold(h, f, i, n) =>
      W[n][f] = h[i].changes[f].to \/ \E k \in (i + 1)..n : S[k] < i

\* The edits of an entry that were answered.
EditsOf(e) == {r \in EntryRequest : /\ entryReq[r].phase = "done"
                                   /\ entryReq[r].of = e
                                   /\ entryReq[r].input.op = "edit"}

\* The history lists the edits, once each.
Lists(h, edits) ==
  /\ {h[i].req : i \in 1..Len(h)} = edits
  /\ \A i, j \in 1..Len(h) : h[i].req = h[j].req => i = j

\* The history h, of an entry with these edits and this body, tells its story.
Tells(h, edits, body) ==
  /\ Lists(h, edits)
  /\ Told(h, Written(h), SeenBy(h))
  /\ Standing(h, Written(h), SeenBy(h))
  /\ h # <<>> => body = Written(h)[Len(h)]

\* What a request saw is what the last of the changes that it saw had written.
Sees(q, h) ==
  /\ Len(q.seen.history) <= Len(h)
  /\ Len(q.seen.history) > 0 => q.seen.body = Written(h)[Len(q.seen.history)]

EntryInv ==
  /\ EntryTypeOK
  /\ DeletionSigned
  /\ \A e \in Entry : entry[e] # NoEntry =>
       Tells(entry[e].history, EditsOf(e), entry[e].body)
  /\ \A r \in EntryRequest : entryReq[r] # NoEntryReq
                             => entry[entryReq[r].of] # NoEntry
  /\ \A r \in EntryRequest : entryReq[r].phase = "read"
                             => Sees(entryReq[r], entry[entryReq[r].of].history)

-------------------------------------------------------------------------------
(* Histories.                                                              *)

LEMMA ChangeShape ==
  ASSUME NEW c \in Change
  PROVE  /\ c.req \in EntryRequest
         /\ DOMAIN c.changes \subseteq EntryField
<1>1. PICK F \in SUBSET EntryField :
        c.changes \in [F -> [from : EntryValue, to : EntryValue]]
  BY DEF Change
<1> QED
  BY <1>1 DEF Change

\* The change c tells what w has other than the m-th of the edits that wrote W.
TellsOf(c, w, m, W) ==
  /\ \A f \in DOMAIN c.changes : /\ c.changes[f].to = w[f]
                                 /\ m > 0 => c.changes[f].from = W[m][f]
  /\ \A f \in EntryField \ DOMAIN c.changes : m > 0 => w[f] = W[m][f]

\* V and T are W and S, of l edits, and one more, which wrote w and had seen m.
OneMore(l, W, S, w, m, V, T) ==
  /\ V \in [1..(l + 1) -> Body] /\ T \in [1..(l + 1) -> Nat]
  /\ \A n \in 1..l : V[n] = W[n] /\ T[n] = S[n]
  /\ V[l + 1] = w /\ T[l + 1] = m

\* One more edit, which wrote w and had seen m of the changes.
LEMMA EditTold ==
  ASSUME NEW h \in Seq(Change), NEW W, NEW S, Told(h, W, S), Standing(h, W, S),
         NEW c \in Change, NEW w \in Body, NEW m \in Nat, m <= Len(h),
         TellsOf(c, w, m, W), NEW g, g = Append(h, c),
         NEW V, NEW T, OneMore(Len(h), W, S, w, m, V, T)
  PROVE  Told(g, V, T) /\ Standing(g, V, T)
<1> USE DEF TellsOf, OneMore
<1>1. PICK l \in Nat : l = Len(h)
  OBVIOUS
<1>2. /\ Len(g) = l + 1 /\ g[l + 1] = c /\ \A i \in 1..l : g[i] = h[i]
      /\ V[l + 1] = w /\ T[l + 1] = m
      /\ \A i \in 1..l : V[i] = W[i] /\ T[i] = S[i]
  BY <1>1
<1>3. \A n \in 1..(l + 1) : n \in 1..l \/ n = l + 1
  OBVIOUS
<1>4. \A n \in 1..l : S[n] \in Nat /\ S[n] < n /\ (S[n] > 0 => S[n] \in 1..l)
  <2> SUFFICES ASSUME NEW n \in 1..l
               PROVE  S[n] \in Nat /\ S[n] < n /\ (S[n] > 0 => S[n] \in 1..l)
    OBVIOUS
  <2>1. S \in [1..l -> Nat] /\ S[n] < n
    BY <1>1 DEF Told
  <2>2. S[n] \in Nat /\ n \in Nat /\ n <= l
    BY <2>1
  <2> QED
    BY <2>1, <2>2
<1>5. Told(g, V, T)
  <2>1. V \in [1..Len(g) -> Body] /\ T \in [1..Len(g) -> Nat]
    BY <1>1, <1>2, <1>3 DEF Told
  <2>2. ASSUME NEW n \in 1..Len(g)
        PROVE  /\ T[n] < n
               /\ \A f \in DOMAIN g[n].changes :
                    /\ g[n].changes[f].to = V[n][f]
                    /\ T[n] > 0 => g[n].changes[f].from = V[T[n]][f]
               /\ \A f \in EntryField \ DOMAIN g[n].changes :
                    T[n] > 0 => V[n][f] = V[T[n]][f]
    <3>1. CASE n \in 1..l
      BY <1>1, <1>2, <1>4, <3>1 DEF Told
    <3>2. CASE n = l + 1
      <4>1. m > 0 => V[m] = W[m]
        BY <1>1, <1>2
      <4> QED
        BY <1>1, <1>2, <3>2, <4>1
    <3> QED
      BY <1>2, <1>3, <3>1, <3>2
  <2> QED
    BY <2>1, <2>2 DEF Told
<1>6. Standing(g, V, T)
  <2> SUFFICES ASSUME NEW n \in 1..Len(g), NEW f \in EntryField, NEW i \in 1..n,
                      LastTold(g, f, i, n)
               PROVE  \/ V[n][f] = g[i].changes[f].to
                      \/ \E k \in (i + 1)..n : T[k] < i
    BY DEF Standing
  <2>1. CASE n \in 1..l
    <3>1. i \in 1..l /\ \A k \in (i + 1)..n : k \in 1..l
      BY <2>1
    <3>2. LastTold(h, f, i, n)
      BY <1>2, <3>1 DEF LastTold
    <3>3. W[n][f] = h[i].changes[f].to \/ \E k \in (i + 1)..n : S[k] < i
      BY <1>1, <2>1, <3>2 DEF Standing
    <3> QED
      BY <1>2, <2>1, <3>1, <3>3
  <2>2. CASE n = l + 1 /\ i = n
    BY <1>2, <2>2 DEF LastTold
  <2>3. CASE n = l + 1 /\ i # n
    <3>1. i \in 1..l /\ n \in (i + 1)..n
      BY <2>3
    <3>2. f \notin DOMAIN c.changes
      BY <1>2, <2>3, <3>1 DEF LastTold
    <3>3. CASE m < i
      BY <1>2, <2>3, <3>1, <3>3
    <3>4. CASE ~(m < i)
      <4>1. m \in 1..l /\ i \in 1..m /\ m > 0
        BY <1>1, <3>1, <3>4
      <4>2. \A k \in (i + 1)..m : k \in (i + 1)..n /\ k \in 1..l
        BY <2>3, <3>1, <4>1
      <4>3. LastTold(h, f, i, m)
        BY <1>2, <3>1, <4>2 DEF LastTold
      <4>4. W[m][f] = h[i].changes[f].to \/ \E k \in (i + 1)..m : S[k] < i
        BY <1>1, <4>1, <4>3 DEF Standing
      <4>5. V[n][f] = W[m][f]
        BY <1>2, <2>3, <3>2, <4>1
      <4>6. g[i].changes[f].to = h[i].changes[f].to
        BY <1>2, <3>1
      <4> QED
        BY <1>2, <4>2, <4>4, <4>5, <4>6
    <3> QED
      BY <3>3, <3>4
  <2> QED
    BY <1>2, <1>3, <2>1, <2>2, <2>3
<1> QED
  BY <1>5, <1>6

\* What a history says a field was is what it last said before, but for a stale edit.
LEMMA FromStands ==
  ASSUME NEW h \in Seq(Change), NEW W, NEW S, Told(h, W, S), Standing(h, W, S),
         NEW i \in 1..Len(h), NEW j \in (i + 1)..Len(h), NEW f \in EntryField,
         LastTold(h, f, i, j - 1), f \in DOMAIN h[j].changes
  PROVE  \/ h[j].changes[f].from = h[i].changes[f].to
         \/ \E k \in (i + 1)..j : S[k] < i
<1>1. PICK m \in Nat : m = S[j] /\ m < j
  BY DEF Told
<1>2. CASE m < i
  BY <1>1, <1>2
<1>3. CASE ~(m < i)
  <2>1. m \in 1..Len(h) /\ i \in 1..m /\ m > 0 /\ j \in 1..Len(h)
    BY <1>1, <1>3
  <2>2. \A k \in (i + 1)..m : k \in (i + 1)..(j - 1) /\ k \in (i + 1)..j
    BY <1>1, <2>1
  <2>3. LastTold(h, f, i, m)
    BY <2>2 DEF LastTold
  <2>4. W[m][f] = h[i].changes[f].to \/ \E k \in (i + 1)..m : S[k] < i
    BY <2>1, <2>3 DEF Standing
  <2>5. h[j].changes[f].from = W[m][f]
    BY <1>1, <2>1 DEF Told
  <2> QED
    BY <2>2, <2>4, <2>5
<1> QED
  BY <1>2, <1>3

\* Requests that keep what they saw and ask for keep what a history says of them.
LEMMA SameStory ==
  ASSUME NEW h \in Seq(Change),
         \A i \in 1..Len(h) : /\ entryReq'[h[i].req].input = entryReq[h[i].req].input
                              /\ entryReq'[h[i].req].seen = entryReq[h[i].req].seen
  PROVE  Written(h)' = Written(h) /\ SeenBy(h)' = SeenBy(h)
BY DEF Written, SeenBy

-------------------------------------------------------------------------------
(* The steps.                                                              *)

LEMMA EntryInitial == EntryInit => EntryInv
BY DEF EntryInit, EntryInv, EntryTypeOK, DeletionSigned, NoEntry, NoEntryReq

\* An entry that was created has the fields of a document.
LEMMA EntryShape ==
  ASSUME EntryTypeOK, NEW e \in Entry, entry[e] # NoEntry
  PROVE  entry[e] \in EntryDoc /\ entry[e].history \in Seq(Change)
BY DEF EntryTypeOK, EntryDoc

\* A request that was begun has the fields of a request.
LEMMA EntryReqShape ==
  ASSUME EntryTypeOK, NEW r \in EntryRequest, entryReq[r] # NoEntryReq
  PROVE  /\ entryReq[r] \in EntryReq
         /\ entryReq[r].user \in User
         /\ entryReq[r].of \in Entry
         /\ entryReq[r].input \in EntryInput
         /\ entryReq[r].seen \in EntryDoc
         /\ Len(entryReq[r].seen.history) \in Nat
<1>1. entryReq[r] \in EntryReq
  BY DEF EntryTypeOK
<1>2. entryReq[r].seen \in EntryDoc
  BY <1>1 DEF EntryReq
<1>3. Len(entryReq[r].seen.history) \in Nat
  BY <1>2 DEF EntryDoc
<1> QED
  BY <1>1, <1>2, <1>3 DEF EntryReq

LEMMA CreateEntryKeeps ==
  ASSUME EntryInv, NEW u \in User, NEW e \in Entry, NEW b \in Body,
         NEW g \in Region, CreateEntry(u, e, b, g)
  PROVE  EntryInv'
<1> USE DEF EntryInv
<1>1. PICK d : d = [status |-> "active", body |-> b, region |-> g,
                    deletedBy |-> {}, history |-> <<>>]
  OBVIOUS
<1>2. /\ entry' = [entry EXCEPT ![e] = d] /\ entryReq' = entryReq
      /\ entry[e] = NoEntry
  BY <1>1 DEF CreateEntry
<1>3. d \in EntryDoc /\ d.status = "active" /\ d.deletedBy = {} /\ d.history = <<>>
  BY <1>1 DEF EntryDoc
<1>4. EntryTypeOK'
  BY <1>2, <1>3 DEF EntryTypeOK
<1>5. DeletionSigned'
  BY <1>2, <1>3 DEF DeletionSigned, EntryTypeOK
<1>6. \A r \in EntryRequest : entryReq[r] # NoEntryReq
                             => entryReq[r].of \in Entry \ {e}
  BY <1>2, EntryReqShape
<1>7. EditsOf(e) = {}
  <2>1. ASSUME NEW r \in EntryRequest, entryReq[r].phase = "done"
        PROVE  entryReq[r] # NoEntryReq
    BY <2>1 DEF NoEntryReq
  <2> QED
    BY <1>6, <2>1 DEF EditsOf
<1>8. ASSUME NEW x \in Entry, entry'[x] # NoEntry
      PROVE  Tells(entry[x].history, EditsOf(x), entry[x].body)'
  <2>1. CASE x = e
    <3>1. entry'[x] = d
      BY <1>2, <2>1 DEF EntryTypeOK
    <3>2. EditsOf(x)' = {}
      BY <1>2, <1>7, <2>1 DEF EditsOf
    <3>3. Tells(<<>>, {}, b)'
      <4>1. PICK h : h = <<>> /\ Len(h) = 0 /\ 1..Len(h) = {}
        OBVIOUS
      <4>2. Lists(h, {})
        BY <4>1 DEF Lists
      <4>3. PICK W, S : W = Written(h)' /\ S = SeenBy(h)'
        OBVIOUS
      <4>4. W \in [1..Len(h) -> Body] /\ S \in [1..Len(h) -> Nat]
        BY <4>1, <4>3 DEF Written, SeenBy
      <4>5. Told(h, W, S) /\ Standing(h, W, S)
        BY <4>1, <4>4 DEF Told, Standing
      <4> QED
        BY <4>1, <4>2, <4>3, <4>5 DEF Tells
    <3> QED
      BY <1>3, <3>1, <3>2, <3>3 DEF Tells
  <2>2. CASE x # e
    <3>1. entry'[x] = entry[x]
      BY <1>2, <2>2 DEF EntryTypeOK
    <3>2. Tells(entry[x].history, EditsOf(x), entry[x].body)
      BY <1>8, <3>1
    <3> QED
      BY <1>2, <3>1, <3>2 DEF Tells, EditsOf, Written, SeenBy
  <2> QED
    BY <2>1, <2>2
<1>9. ASSUME NEW r \in EntryRequest, entryReq'[r] # NoEntryReq
      PROVE  /\ entry'[entryReq'[r].of] # NoEntry
             /\ entryReq'[r].phase = "read"
                  => Sees(entryReq[r], entry[entryReq[r].of].history)'
  <2>1. entryReq'[r] = entryReq[r] /\ entryReq[r].of \in Entry \ {e}
    BY <1>2, <1>6, <1>9
  <2>2. entry'[entryReq[r].of] = entry[entryReq[r].of]
    BY <1>2, <2>1 DEF EntryTypeOK
  <2> QED
    BY <1>2, <1>9, <2>1, <2>2 DEF Sees, Written
<1>10. \A r \in EntryRequest : entryReq'[r].phase = "read" => entryReq'[r] # NoEntryReq
  BY DEF NoEntryReq
<1> QED
  BY <1>4, <1>5, <1>8, <1>9, <1>10

\* A history goes on telling its story when no request that it lists changes what
\* it saw and asked for.
LEMMA StoryKept ==
  ASSUME EntryInv, NEW x \in Entry, entry[x] # NoEntry, NEW r \in EntryRequest,
         r \notin EditsOf(x) \/ /\ entryReq'[r].input = entryReq[r].input
                                /\ entryReq'[r].seen = entryReq[r].seen,
         \A p \in EntryRequest \ {r} : entryReq'[p] = entryReq[p],
         NEW h, h = entry[x].history
  PROVE  Written(h)' = Written(h) /\ SeenBy(h)' = SeenBy(h)
<1> USE DEF EntryInv
<1>1. h \in Seq(Change)
  BY EntryShape
<1>2. \A i \in 1..Len(h) : h[i].req \in EditsOf(x)
  BY DEF Tells, Lists
<1>3. EditsOf(x) \subseteq EntryRequest
  BY DEF EditsOf
<1>4. \A i \in 1..Len(h) : /\ entryReq'[h[i].req].input = entryReq[h[i].req].input
                           /\ entryReq'[h[i].req].seen = entryReq[h[i].req].seen
  BY <1>2, <1>3
<1> QED
  BY <1>1, <1>4, SameStory

LEMMA ReadEntryKeeps ==
  ASSUME EntryInv, NEW r \in EntryRequest, NEW u \in User, NEW e \in Entry,
         NEW input \in EntryInput, ReadEntry(r, u, e, input)
  PROVE  EntryInv'
<1> USE DEF EntryInv
<1>1. PICK q : q = [phase |-> "read", user |-> u, of |-> e, input |-> input,
                    seen |-> entry[e]]
  OBVIOUS
<1>2. /\ entryReq' = [entryReq EXCEPT ![r] = q] /\ entry' = entry
      /\ entryReq[r] = NoEntryReq /\ entry[e] # NoEntry
  BY <1>1 DEF ReadEntry
<1>3. entry[e] \in EntryDoc /\ entry[e].history \in Seq(Change)
  BY <1>2, EntryShape
<1>4. q \in EntryReq /\ q # NoEntryReq /\ q.phase = "read" /\ q.of = e
  BY <1>1, <1>3 DEF EntryReq, NoEntryReq
<1>5. EntryTypeOK'
  BY <1>2, <1>4 DEF EntryTypeOK
<1>6. DeletionSigned'
  BY <1>2 DEF DeletionSigned
<1>7. \A p \in EntryRequest : entryReq'[p] = (IF p = r THEN q ELSE entryReq[p])
  BY <1>2 DEF EntryTypeOK
<1>8. ASSUME NEW x \in Entry
      PROVE  EditsOf(x)' = EditsOf(x) /\ r \notin EditsOf(x)
  BY <1>2, <1>4, <1>7 DEF EditsOf, NoEntryReq
<1>9. ASSUME NEW x \in Entry, entry[x] # NoEntry, NEW h, h = entry[x].history
      PROVE  Written(h)' = Written(h) /\ SeenBy(h)' = SeenBy(h)
  BY <1>7, <1>8, <1>9, StoryKept
<1>10. ASSUME NEW x \in Entry, entry'[x] # NoEntry
       PROVE  Tells(entry[x].history, EditsOf(x), entry[x].body)'
  <2>1. PICK h : h = entry[x].history /\ entry'[x].history = h
    BY <1>2
  <2>2. Tells(h, EditsOf(x), entry[x].body)
    BY <1>2, <1>10, <2>1
  <2>3. Written(h)' = Written(h) /\ SeenBy(h)' = SeenBy(h)
    BY <1>2, <1>9, <1>10, <2>1
  <2> QED
    BY <1>2, <1>8, <2>1, <2>2, <2>3 DEF Tells
<1>11. ASSUME NEW p \in EntryRequest
       PROVE  /\ entryReq'[p] # NoEntryReq => entry'[entryReq'[p].of] # NoEntry
              /\ entryReq'[p].phase = "read"
                   => Sees(entryReq[p], entry[entryReq[p].of].history)'
  <2>1. CASE p = r
    <3>1. PICK h : h = entry[e].history /\ h \in Seq(Change)
      BY <1>3
    <3>2. entryReq'[p] = q /\ entry'[q.of].history = h /\ q.seen.history = h
      BY <1>1, <1>2, <1>4, <1>7, <2>1, <3>1
    <3>3. Len(h) > 0 => entry[e].body = Written(h)[Len(h)]
      BY <1>2, <3>1 DEF Tells
    <3>4. Written(h)' = Written(h)
      BY <1>2, <1>9, <3>1
    <3>5. q.seen.body = entry[e].body
      BY <1>1
    <3> QED
      BY <1>1, <1>2, <3>1, <3>2, <3>3, <3>4, <3>5 DEF Sees
  <2>2. CASE p # r /\ entryReq[p].phase = "read"
    <3>1. entryReq'[p] = entryReq[p] /\ entryReq[p] # NoEntryReq
      BY <1>7, <2>2 DEF NoEntryReq
    <3>2. entryReq[p].of \in Entry /\ entry[entryReq[p].of] # NoEntry
      BY <3>1, EntryReqShape
    <3>3. PICK h : h = entry[entryReq[p].of].history
      OBVIOUS
    <3>4. Written(h)' = Written(h)
      BY <1>9, <3>2, <3>3
    <3>5. Sees(entryReq[p], h)
      BY <2>2, <3>3
    <3> QED
      BY <1>2, <3>1, <3>2, <3>3, <3>4, <3>5 DEF Sees
  <2>3. CASE p # r /\ entryReq[p].phase # "read"
    BY <1>2, <1>7, <2>3
  <2> QED
    BY <2>1, <2>2, <2>3
<1> QED
  BY <1>5, <1>6, <1>10, <1>11

\* The answered edit r of an entry with the history h.
LEMMA EditKeepsTelling ==
  ASSUME EntryInv, NEW r \in EntryRequest, entryReq[r].phase = "read",
         entryReq[r].input.op = "edit", AnswerEntry(r),
         NEW e \in Entry, e = entryReq[r].of, entry[e] # NoEntry,
         NEW h, h = entry[e].history,
         NEW c, c = [req |-> r, changes |-> Differing(entryReq[r])]
  PROVE  /\ c \in Change
         /\ Tells(Append(h, c), EditsOf(e) \cup {r}, entryReq[r].input.body)'
<1> USE DEF EntryInv
<1>1. PICK q, w, m : q = entryReq[r] /\ w = q.input.body /\ m = Len(q.seen.history)
  OBVIOUS
<1>2. /\ q # NoEntryReq /\ q.input \in EntryInput /\ q.seen \in EntryDoc /\ m \in Nat
      /\ q \in EntryReq
  <2>1. q # NoEntryReq
    BY <1>1 DEF NoEntryReq
  <2> QED
    BY <1>1, <2>1, EntryReqShape
<1>3. w \in Body /\ q.seen.body \in Body
  BY <1>1, <1>2 DEF EntryInput, EntryDoc
<1>4. PICK F : F = {f \in EntryField : q.seen.body[f] # w[f]}
  OBVIOUS
<1>5. Differing(q) = [f \in F |-> [from |-> q.seen.body[f], to |-> w[f]]]
  BY <1>1, <1>4 DEF Differing
<1>6. F \in SUBSET EntryField
  BY <1>4
<1>7. Differing(q) \in [F -> [from : EntryValue, to : EntryValue]]
  BY <1>3, <1>5, <1>6 DEF Body
<1>8. c \in Change
  BY <1>1, <1>6, <1>7 DEF Change
<1>9. c.req = r /\ c.changes = Differing(q) /\ DOMAIN c.changes = F
  BY <1>1, <1>5
<1>10. h \in Seq(Change) /\ Tells(h, EditsOf(e), entry[e].body) /\ Sees(q, h)
  BY <1>1, EntryShape
<1>11. m <= Len(h) /\ (m > 0 => q.seen.body = Written(h)[m])
  BY <1>1, <1>10 DEF Sees
<1>a. PICK W, S : W = Written(h) /\ S = SeenBy(h)
  OBVIOUS
<1>b. PICK g : g = Append(h, c)
  OBVIOUS
<1>12. PICK V, T :
         /\ V = [n \in 1..Len(g) |-> IF n = Len(g) THEN w ELSE W[n]]
         /\ T = [n \in 1..Len(g) |-> IF n = Len(g) THEN m ELSE S[n]]
  OBVIOUS
<1>14. PICK l \in Nat : l = Len(h)
  BY <1>10
<1>15. /\ Len(g) = l + 1 /\ g[l + 1] = c /\ \A i \in 1..l : g[i] = h[i]
       /\ \A n \in 1..(l + 1) : n \in 1..l \/ n = l + 1
       /\ g # <<>>
  <2>1. h \in Seq(Change) /\ l = Len(h) /\ g = Append(h, c)
    BY <1>10, <1>14, <1>b
  <2>2. /\ Len(g) = l + 1 /\ g[l + 1] = c /\ \A i \in 1..l : g[i] = h[i]
        /\ g \in Seq(Change)
    BY <1>8, <2>1, SMTT(20)
  <2>3. g # <<>>
    BY <2>2
  <2> QED
    BY <2>2, <2>3
<1>13. Told(g, V, T) /\ Standing(g, V, T)
  <2>1. TellsOf(c, w, m, W)
    <3>1. \A f \in DOMAIN c.changes : /\ c.changes[f].to = w[f]
                                      /\ m > 0 => c.changes[f].from = W[m][f]
      BY <1>5, <1>9, <1>11, <1>a
    <3>2. \A f \in EntryField \ DOMAIN c.changes : m > 0 => w[f] = W[m][f]
      BY <1>4, <1>9, <1>11, <1>a
    <3> QED
      BY <3>1, <3>2 DEF TellsOf
  <2>2. Told(h, W, S) /\ Standing(h, W, S)
    BY <1>10, <1>a DEF Tells
  <2> QED
    <3>1. OneMore(Len(h), W, S, w, m, V, T)
      <4>1. W \in [1..l -> Body] /\ S \in [1..l -> Nat]
        BY <1>14, <2>2 DEF Told
      <4>2. /\ V = [n \in 1..(l + 1) |-> IF n = l + 1 THEN w ELSE W[n]]
            /\ T = [n \in 1..(l + 1) |-> IF n = l + 1 THEN m ELSE S[n]]
        BY <1>12, <1>15
      <4>3. V \in [1..(l + 1) -> Body]
        BY <1>3, <1>15, <4>1, <4>2
      <4>4. T \in [1..(l + 1) -> Nat]
        BY <1>2, <1>15, <4>1, <4>2
      <4>5. \A n \in 1..l : V[n] = W[n] /\ T[n] = S[n]
        BY <4>2
      <4>6. V[l + 1] = w /\ T[l + 1] = m
        BY <4>2
      <4> QED
        BY <1>14, <4>3, <4>4, <4>5, <4>6 DEF OneMore
    <3>2. h \in Seq(Change) /\ m <= Len(h)
      BY <1>10, <1>11
    <3> QED
      <4>1. /\ h \in Seq(Change) /\ Told(h, W, S) /\ Standing(h, W, S)
            /\ c \in Change /\ w \in Body /\ m \in Nat /\ m <= Len(h)
            /\ g = Append(h, c)
        BY <1>2, <1>3, <1>8, <1>b, <2>2, <3>2
      <4> QED
        BY <2>1, <3>1, <4>1, EditTold
<1>16. /\ entryReq'[r].input = q.input /\ entryReq'[r].seen = q.seen
       /\ \A p \in EntryRequest \ {r} : entryReq'[p] = entryReq[p]
  BY <1>1, <1>2 DEF AnswerEntry, EntryTypeOK, EntryReq
<1>17. Written(h)' = Written(h) /\ SeenBy(h)' = SeenBy(h)
  BY <1>1, <1>16, StoryKept
<1>18. Written(g)' = V /\ SeenBy(g)' = T
  <2>1. /\ Written(g)' = [n \in 1..Len(g) |-> entryReq'[g[n].req].input.body]
        /\ SeenBy(g)' = [n \in 1..Len(g) |-> Len(entryReq'[g[n].req].seen.history)]
    BY DEF Written, SeenBy
  <2>2. ASSUME NEW n \in 1..Len(g)
        PROVE  /\ entryReq'[g[n].req].input.body = V[n]
               /\ Len(entryReq'[g[n].req].seen.history) = T[n]
    <3>1. CASE n = l + 1
      BY <1>1, <1>9, <1>12, <1>15, <1>16, <3>1
    <3>2. CASE n \in 1..l
      <4>1. V[n] = W[n] /\ T[n] = S[n] /\ g[n] = h[n]
        BY <1>12, <1>14, <1>15, <3>2
      <4>2. W = Written(h)' /\ S = SeenBy(h)'
        BY <1>17, <1>a
      <4> QED
        BY <1>14, <3>2, <4>1, <4>2 DEF Written, SeenBy
    <3> QED
      BY <1>15, <3>1, <3>2
  <2>3. V = [n \in 1..Len(g) |-> V[n]] /\ T = [n \in 1..Len(g) |-> T[n]]
    BY <1>12
  <2> QED
    BY <2>1, <2>2, <2>3
<1>19. Lists(g, EditsOf(e) \cup {r})
  <2>1. {h[i].req : i \in 1..l} = EditsOf(e)
        /\ \A i, j \in 1..l : h[i].req = h[j].req => i = j
    BY <1>10, <1>14 DEF Tells, Lists
  <2>2. r \notin EditsOf(e)
    BY DEF EditsOf
  <2>3. {g[i].req : i \in 1..Len(g)} = EditsOf(e) \cup {r}
    <3>1. 1..Len(g) = 1..l \cup {l + 1}
      BY <1>15
    <3> QED
      BY <1>9, <1>15, <2>1, <3>1
  <2>4. \A i, j \in 1..Len(g) : g[i].req = g[j].req => i = j
    <3>1. \A i \in 1..l : h[i].req # r
      BY <2>1, <2>2
    <3> QED
      BY <1>9, <1>15, <2>1, <3>1
  <2> QED
    BY <2>3, <2>4 DEF Lists
<1>20. w = V[Len(g)]
  BY <1>12, <1>15
<1>21. EditsOf(e)' = EditsOf(e) \cup {r}
  <2>1. entryReq'[r].phase = "done" /\ entryReq'[r].of = e
    BY <1>1, <1>2 DEF AnswerEntry, EntryTypeOK, EntryReq
  <2> QED
    BY <1>1, <1>16, <2>1 DEF EditsOf
<1> QED
  BY <1>1, <1>8, <1>13, <1>16, <1>18, <1>19, <1>20, <1>21, <1>b DEF Tells

\* A write whose body and history go together keeps the invariant: both stay, or
\* the edit that gives the body appends what it tells.
LEMMA EntryWriteKeeps ==
  ASSUME EntryInv, NEW r \in EntryRequest, entryReq[r].phase = "read",
         AnswerEntry(r), NEW e \in Entry, e = entryReq[r].of, NEW d \in EntryDoc,
         entry' = [entry EXCEPT ![e] = d],
         d.status = "deleted" <=> d.deletedBy # {},
         \/ /\ entryReq[r].input.op # "edit"
            /\ d.history = entry[e].history
            /\ d.body = entry[e].body
         \/ /\ entryReq[r].input.op = "edit"
            /\ d.body = entryReq[r].input.body
            /\ d.history = Append(entry[e].history,
                             [req |-> r, changes |-> Differing(entryReq[r])])
  PROVE  EntryInv'
<1> USE DEF EntryInv
<1>1. PICK q : q = entryReq[r]
  OBVIOUS
<1>a. PICK a : a = [q EXCEPT !.phase = "done"]
  OBVIOUS
<1>2. /\ q # NoEntryReq /\ q \in EntryReq /\ q.input \in EntryInput
      /\ q.seen \in EntryDoc
  <2>1. q # NoEntryReq
    BY <1>1 DEF NoEntryReq
  <2> QED
    BY <1>1, <2>1, EntryReqShape
<1>3. /\ a \in EntryReq /\ a # NoEntryReq /\ a.phase = "done"
      /\ a.user = q.user /\ a.of = q.of /\ a.input = q.input /\ a.seen = q.seen
  BY <1>a, <1>2 DEF EntryReq, NoEntryReq
<1>4. /\ entryReq'[r] = a
      /\ \A p \in EntryRequest \ {r} : entryReq'[p] = entryReq[p]
  BY <1>1, <1>a DEF AnswerEntry, EntryTypeOK
<1>5. \A x \in Entry : entry'[x] = (IF x = e THEN d ELSE entry[x])
  BY DEF EntryTypeOK
<1>6. d # NoEntry /\ entry[e] # NoEntry
  BY <1>1, <1>2 DEF EntryDoc, NoEntry
<1>7. /\ entry[e] \in EntryDoc /\ entry[e].history \in Seq(Change)
      /\ d.history \in Seq(Change)
  BY <1>6, EntryShape DEF EntryDoc
<1>8. EntryTypeOK'
  <2>1. entry' \in [Entry -> {NoEntry} \cup EntryDoc]
    BY DEF EntryTypeOK
  <2>2. entryReq' = [entryReq EXCEPT ![r] = a]
    BY <1>1, <1>a DEF AnswerEntry
  <2>3. entryReq' \in [EntryRequest -> {NoEntryReq} \cup EntryReq]
    BY <1>3, <2>2 DEF EntryTypeOK
  <2> QED
    BY <2>1, <2>3 DEF EntryTypeOK
<1>9. DeletionSigned'
  BY <1>5 DEF DeletionSigned
<1>10. ASSUME NEW x \in Entry, entry[x] # NoEntry, NEW h, h = entry[x].history
       PROVE  Written(h)' = Written(h) /\ SeenBy(h)' = SeenBy(h)
  BY <1>1, <1>3, <1>4, <1>10, StoryKept
<1>11. ASSUME NEW x \in Entry, x # e \/ q.input.op # "edit"
       PROVE  EditsOf(x)' = EditsOf(x)
  <2> SUFFICES ASSUME NEW p PROVE p \in EditsOf(x)' <=> p \in EditsOf(x)
    OBVIOUS
  <2>1. CASE p = r
    BY <1>1, <1>3, <1>4, <1>11, <2>1 DEF EditsOf
  <2>2. CASE p # r
    BY <1>4, <2>2 DEF EditsOf
  <2> QED
    BY <2>1, <2>2
<1>12. ASSUME NEW x \in Entry, entry'[x] # NoEntry
       PROVE  Tells(entry[x].history, EditsOf(x), entry[x].body)'
  <2>1. CASE x # e \/ q.input.op # "edit"
    <3>1. /\ entry[x] # NoEntry /\ entry'[x].history = entry[x].history
          /\ entry'[x].body = entry[x].body
      BY <1>1, <1>5, <1>6, <1>12, <2>1
    <3>2. PICK h : h = entry[x].history
      OBVIOUS
    <3>3. Written(h)' = Written(h) /\ SeenBy(h)' = SeenBy(h)
      BY <1>10, <3>1, <3>2
    <3>4. Tells(h, EditsOf(x), entry[x].body)
      BY <3>1, <3>2
    <3> QED
      BY <1>11, <2>1, <3>1, <3>2, <3>3, <3>4 DEF Tells
  <2>2. CASE x = e /\ q.input.op = "edit"
    <3>1. PICK h, c : /\ h = entry[e].history
                      /\ c = [req |-> r, changes |-> Differing(q)]
      OBVIOUS
    <3>2. Tells(Append(h, c), EditsOf(e) \cup {r}, q.input.body)'
      <4>1. Tells(Append(h, c), EditsOf(e) \cup {r}, entryReq[r].input.body)'
        BY <1>1, <1>6, <2>2, <3>1, EditKeepsTelling
      <4>2. entryReq'[r].input.body = q.input.body
        BY <1>3, <1>4
      <4> QED
        BY <4>1, <4>2
    <3>3. EditsOf(e)' \cup {r} = EditsOf(e)'
      BY <1>1, <1>3, <1>4, <2>2 DEF EditsOf
    <3>4. entry'[x].history = Append(h, c) /\ entry'[x].body = q.input.body
      BY <1>1, <1>5, <2>2, <3>1
    <3> QED
      BY <2>2, <3>2, <3>3, <3>4
  <2> QED
    BY <2>1, <2>2
<1>13. ASSUME NEW n \in 1..Len(entry[e].history)
       PROVE  /\ Len(entry[e].history) <= Len(d.history)
              /\ Written(d.history)'[n] = Written(entry[e].history)[n]
  <2>1. PICK h : h = entry[e].history /\ h \in Seq(Change)
    BY <1>7
  <2>2. Written(h)' = Written(h)
    BY <1>6, <1>10, <2>1
  <2>3. CASE d.history = h
    BY <2>1, <2>2, <2>3
  <2>4. CASE d.history # h
    <3>1. PICK c : d.history = Append(h, c)
      BY <2>1, <2>4
    <3>2. /\ Len(h) <= Len(d.history) /\ d.history[n] = h[n]
          /\ n \in 1..Len(d.history) /\ n \in 1..Len(h)
      BY <2>1, <3>1, SMTT(20)
    <3>3. Written(d.history)'[n] = Written(h)'[n]
      BY <3>2 DEF Written
    <3> QED
      BY <2>1, <2>2, <3>2, <3>3
  <2> QED
    BY <2>3, <2>4
<1>14. Len(entry[e].history) <= Len(d.history)
  <2>1. PICK h : h = entry[e].history /\ h \in Seq(Change)
    BY <1>7
  <2>2. CASE d.history = h
    BY <2>1, <2>2
  <2>3. ASSUME NEW c, d.history = Append(h, c)
        PROVE  Len(h) <= Len(d.history)
    BY <2>1, <2>3, SMTT(20)
  <2> QED
    BY <2>1, <2>2, <2>3
<1>15. ASSUME NEW p \in EntryRequest, entryReq'[p].phase = "read"
       PROVE  Sees(entryReq[p], entry[entryReq[p].of].history)'
  <2>1. p # r /\ entryReq'[p] = entryReq[p] /\ entryReq[p] # NoEntryReq
    BY <1>3, <1>4, <1>15 DEF NoEntryReq
  <2>2. PICK x, m : x = entryReq[p].of /\ m = Len(entryReq[p].seen.history)
    OBVIOUS
  <2>3. x \in Entry /\ m \in Nat /\ entry[x] # NoEntry
    BY <2>1, <2>2, EntryReqShape
  <2>4. /\ m <= Len(entry[x].history)
        /\ m > 0 => entryReq[p].seen.body = Written(entry[x].history)[m]
        /\ Len(entry[x].history) \in Nat
    BY <1>15, <2>1, <2>2, <2>3, EntryShape DEF Sees
  <2>5. CASE x = e
    <3>1. entry'[x].history = d.history /\ Len(d.history) \in Nat
      BY <1>5, <1>7, <2>3, <2>5
    <3>2. m > 0 => Written(d.history)'[m] = Written(entry[x].history)[m]
      BY <1>13, <2>3, <2>4, <2>5
    <3>3. m <= Len(d.history)
      BY <1>14, <2>3, <2>4, <2>5, <3>1
    <3> QED
      BY <2>1, <2>2, <2>4, <3>1, <3>2, <3>3 DEF Sees
  <2>6. CASE x # e
    <3>1. PICK h : h = entry[x].history /\ entry'[x].history = h
      BY <1>5, <2>3, <2>6
    <3>2. Written(h)' = Written(h)
      BY <1>10, <2>3, <3>1
    <3> QED
      BY <2>1, <2>2, <2>4, <3>1, <3>2 DEF Sees
  <2> QED
    BY <2>5, <2>6
<1>16. ASSUME NEW p \in EntryRequest, entryReq'[p] # NoEntryReq
       PROVE  entry'[entryReq'[p].of] # NoEntry
  <2>1. CASE p = r
    BY <1>1, <1>3, <1>4, <1>5, <1>6, <2>1
  <2>2. CASE p # r
    <3>1. entryReq'[p] = entryReq[p] /\ entryReq[p].of \in Entry
      BY <1>4, <1>16, <2>2, EntryReqShape
    <3> QED
      BY <1>5, <1>6, <1>16, <3>1
  <2> QED
    BY <2>1, <2>2
<1> QED
  BY <1>8, <1>9, <1>12, <1>15, <1>16

LEMMA EditEntryKeeps ==
  ASSUME EntryInv, NEW r \in EntryRequest, EditEntry(r)
  PROVE  EntryInv'
<1>1. PICK q, e : q = entryReq[r] /\ e = q.of
  OBVIOUS
<1>2. q.phase = "read" /\ q.input.op = "edit" /\ AnswerEntry(r)
  BY <1>1 DEF EditEntry
<1>3. q # NoEntryReq
  BY <1>2 DEF NoEntryReq
<1>4. e \in Entry /\ q.input \in EntryInput /\ q.seen \in EntryDoc
  BY <1>1, <1>3, EntryReqShape DEF EntryInv
<1>5. entry[e] # NoEntry /\ entry[e] \in EntryDoc
  BY <1>1, <1>3, <1>4, EntryShape DEF EntryInv
<1>6. PICK g, h : /\ g = (IF q.input.region = "same" THEN entry[e].region
                                                    ELSE q.input.region)
                  /\ h = Pushed(r, q, entry[e])
  OBVIOUS
<1>7. g \in Region
  BY <1>2, <1>4, <1>5, <1>6 DEF EntryInput, EntryDoc
<1>8. PICK c : c = [req |-> r, changes |-> Differing(q)]
  OBVIOUS
<1>9. q.input.body \in Body /\ c \in Change
  BY <1>1, <1>2, <1>4, <1>5, <1>8, EditKeepsTelling DEF EntryInput
<1>10. h = Append(entry[e].history, c) /\ h \in Seq(Change)
  <2>1. entry[e].history \in Seq(Change)
    BY <1>5 DEF EntryDoc
  <2> QED
    BY <1>6, <1>8, <1>9, <2>1 DEF Pushed
<1>11. PICK d : d = [entry[e] EXCEPT !.body = q.input.body, !.region = g,
                                     !.history = h]
  OBVIOUS
<1>12. /\ d \in EntryDoc /\ d.status = entry[e].status
       /\ d.deletedBy = entry[e].deletedBy
       /\ d.body = q.input.body /\ d.history = h
  BY <1>5, <1>7, <1>9, <1>10, <1>11 DEF EntryDoc
<1>13. entry' = [entry EXCEPT ![e] = d]
  BY <1>1, <1>6, <1>11 DEF EditEntry
<1>14. d.status = "deleted" <=> d.deletedBy # {}
  BY <1>1, <1>3, <1>4, <1>5, <1>12 DEF EntryInv, DeletionSigned
<1> QED
  BY <1>1, <1>2, <1>4, <1>8, <1>10, <1>12, <1>13, <1>14, EntryWriteKeeps

LEMMA SoftDeleteKeeps ==
  ASSUME EntryInv, NEW r \in EntryRequest, SoftDelete(r)
  PROVE  EntryInv'
<1>1. PICK q, e : q = entryReq[r] /\ e = q.of
  OBVIOUS
<1>2. q.phase = "read" /\ q.input.op = "delete" /\ AnswerEntry(r)
  BY <1>1 DEF SoftDelete
<1>3. q # NoEntryReq
  BY <1>2 DEF NoEntryReq
<1>4. e \in Entry /\ q.user \in User
  BY <1>1, <1>3, EntryReqShape DEF EntryInv
<1>5. entry[e] \in EntryDoc
  BY <1>1, <1>3, <1>4, EntryShape DEF EntryInv
<1>6. PICK d : d = [entry[e] EXCEPT !.status = "deleted", !.deletedBy = {q.user}]
  OBVIOUS
<1>7. /\ d \in EntryDoc /\ d.status = "deleted" /\ d.deletedBy # {}
      /\ d.body = entry[e].body /\ d.history = entry[e].history
  BY <1>4, <1>5, <1>6 DEF EntryDoc
<1>8. entry' = [entry EXCEPT ![e] = d]
  <2>1. entry' = [entry EXCEPT ![q.of].status = "deleted",
                               ![q.of].deletedBy = {q.user}]
    BY <1>1 DEF SoftDelete
  <2> QED
    BY <1>1, <1>4, <1>6, <2>1 DEF EntryInv, EntryTypeOK
<1> QED
  BY <1>1, <1>2, <1>4, <1>7, <1>8, EntryWriteKeeps

LEMMA RestoreEntryKeeps ==
  ASSUME EntryInv, NEW r \in EntryRequest, RestoreEntry(r)
  PROVE  EntryInv'
<1>1. PICK q, e : q = entryReq[r] /\ e = q.of
  OBVIOUS
<1>2. q.phase = "read" /\ q.input.op = "restore" /\ AnswerEntry(r)
  BY <1>1 DEF RestoreEntry
<1>3. q # NoEntryReq
  BY <1>2 DEF NoEntryReq
<1>4. e \in Entry
  BY <1>1, <1>3, EntryReqShape DEF EntryInv
<1>5. entry[e] \in EntryDoc
  BY <1>1, <1>3, <1>4, EntryShape DEF EntryInv
<1>6. PICK d : d = Restored(entry[e])
  OBVIOUS
<1>7. /\ d \in EntryDoc /\ d.status = "active" /\ d.deletedBy = {}
      /\ d.body = entry[e].body /\ d.history = entry[e].history
  BY <1>5, <1>6 DEF Restored, EntryDoc
<1>8. entry' = [entry EXCEPT ![e] = d]
  BY <1>1, <1>6 DEF RestoreEntry
<1> QED
  BY <1>1, <1>2, <1>4, <1>7, <1>8, EntryWriteKeeps

LEMMA EntryStepKeeps == EntryInv /\ [EntryNext]_entryVars => EntryInv'
<1> SUFFICES ASSUME EntryInv, [EntryNext]_entryVars PROVE EntryInv'
  OBVIOUS
<1>1. CASE EntryCreation
  BY <1>1, CreateEntryKeeps DEF EntryCreation
<1>2. CASE EntryArrival
  BY <1>2, ReadEntryKeeps DEF EntryArrival
<1>3. CASE EntryWrite
  BY <1>3, EditEntryKeeps, SoftDeleteKeeps, RestoreEntryKeeps DEF EntryWrite
<1>4. CASE UNCHANGED entryVars
  <2>1. entry' = entry /\ entryReq' = entryReq
    BY <1>4 DEF entryVars
  <2>2. EntryTypeOK' /\ DeletionSigned'
    BY <2>1 DEF EntryInv, EntryTypeOK, DeletionSigned
  <2>3. \A h : Written(h)' = Written(h) /\ SeenBy(h)' = SeenBy(h)
    BY <2>1 DEF Written, SeenBy
  <2>4. \A h, body, e : Tells(h, EditsOf(e), body)' <=> Tells(h, EditsOf(e), body)
    BY <2>1, <2>3 DEF Tells, EditsOf
  <2>5. \A q, h : Sees(q, h)' <=> Sees(q, h)
    BY <2>3 DEF Sees
  <2> QED
    BY <2>1, <2>2, <2>4, <2>5 DEF EntryInv
<1> QED
  BY <1>1, <1>2, <1>3, <1>4 DEF EntryNext

\* A history that tells its story explains the entry.
LEMMA StoryExplains == EntryInv => HistoryExplains
<1> SUFFICES ASSUME EntryInv, NEW e \in Entry, entry[e] # NoEntry,
                    NEW h, h = entry[e].history
             PROVE  /\ Lists(h, EditsOf(e))
                    /\ \A f \in EntryField, i \in 1..Len(h) :
                         /\ LastTold(h, f, i, Len(h)) =>
                              \/ entry[e].body[f] = h[i].changes[f].to
                              \/ Stale(h, i, Len(h))
                         /\ \A j \in (i + 1)..Len(h) :
                              LastTold(h, f, i, j - 1) /\ f \in DOMAIN h[j].changes =>
                                \/ h[j].changes[f].from = h[i].changes[f].to
                                \/ Stale(h, i, j)
  BY DEF HistoryExplains, Lists, EditsOf
<1>1. h \in Seq(Change) /\ Tells(h, EditsOf(e), entry[e].body)
  BY EntryShape DEF EntryInv
<1>2. ASSUME NEW i \in 1..Len(h), NEW j \in 1..Len(h),
             \E k \in (i + 1)..j : SeenBy(h)[k] < i
      PROVE  Stale(h, i, j)
  <2>1. \A k \in (i + 1)..j : k \in 1..Len(h)
    BY <1>1
  <2> QED
    BY <1>2, <2>1 DEF Stale, SeenBy
<1>3. ASSUME NEW f \in EntryField, NEW i \in 1..Len(h), LastTold(h, f, i, Len(h))
      PROVE  entry[e].body[f] = h[i].changes[f].to \/ Stale(h, i, Len(h))
  <2>1. Len(h) \in 1..Len(h) /\ i \in 1..Len(h) /\ h # <<>>
    BY <1>1
  <2>2. \/ Written(h)[Len(h)][f] = h[i].changes[f].to
        \/ \E k \in (i + 1)..Len(h) : SeenBy(h)[k] < i
    BY <1>1, <1>3, <2>1 DEF Tells, Standing
  <2> QED
    BY <1>1, <1>2, <2>1, <2>2 DEF Tells
<1>4. ASSUME NEW f \in EntryField, NEW i \in 1..Len(h), NEW j \in (i + 1)..Len(h),
             LastTold(h, f, i, j - 1), f \in DOMAIN h[j].changes
      PROVE  h[j].changes[f].from = h[i].changes[f].to \/ Stale(h, i, j)
  <2>1. j \in 1..Len(h)
    BY <1>1
  <2>2. \/ h[j].changes[f].from = h[i].changes[f].to
        \/ \E k \in (i + 1)..j : SeenBy(h)[k] < i
    BY <1>1, <1>4, FromStands DEF Tells
  <2> QED
    BY <1>2, <2>1, <2>2
<1> QED
  BY <1>1, <1>3, <1>4 DEF Tells

-------------------------------------------------------------------------------
(* The two collections together.                                           *)

IInv == ExpenseInv /\ EntryInv

LEMMA StepOfEach ==
  ASSUME [Next]_cashVars
  PROVE  [ExpenseNext]_expenseVars /\ [EntryNext]_entryVars
BY DEF Next, OnExpenses, OnEntries, ExpenseNext, EntryNext, cashVars

LEMMA InvariantHolds == Spec => []IInv
<1>1. Init => IInv
  BY ExpenseInitial, EntryInitial DEF Init, IInv
<1>2. IInv /\ [Next]_cashVars => IInv'
  BY StepOfEach, ExpenseStepKeeps, EntryStepKeeps DEF IInv
<1> QED
  BY <1>1, <1>2, PTL DEF Spec

\* Every document and request is one the schemas and the handlers produce.
THEOREM TypeCorrect == Spec => []TypeOK
<1>1. IInv => TypeOK
  BY DEF IInv, ExpenseInv, EntryInv, TypeOK
<1> QED
  BY <1>1, InvariantHolds, PTL

\* No order of validations, rejections, edits, deletions and restorations leaves a
\* decision or a deletion without its author, or signs with a name that had no
\* right to.
THEOREM AlwaysSigned == Spec => []RecordsSigned
<1>1. IInv => RecordsSigned
  BY DEF IInv, ExpenseInv, EntryInv, RecordsSigned, DecisionSigned, SignedDoc
<1> QED
  BY <1>1, InvariantHolds, PTL

\* The notes of a decided expense hold the line of the decision that stands, or
\* that of an edit that had read the expense before it.
THEOREM AlwaysNoted == Spec => []DecisionNoted
<1>1. IInv => DecisionNoted
  BY DEF IInv, ExpenseInv, DecisionNoted, BackedDoc, ExpenseExists
<1> QED
  BY <1>1, InvariantHolds, PTL

\* Somebody named on a decided expense decided it so, or is the administrator whose
\* edit had read the opposite decision and wrote its names back.
THEOREM AlwaysBacked == Spec => []VerdictSigned
<1>1. IInv => VerdictSigned
  BY DEF IInv, ExpenseInv, VerdictSigned, BackedDoc, ExpenseExists
<1> QED
  BY <1>1, InvariantHolds, PTL

\* editHistory loses no edit, however edits of one entry overlap, and what it last
\* tells of a field is what the field is, and what the next change of it starts
\* from, unless an edit in between had read the entry before.
THEOREM HistoryTold == Spec => []HistoryExplains
<1>1. IInv => HistoryExplains
  BY StoryExplains DEF IInv
<1> QED
  BY <1>1, InvariantHolds, PTL

-------------------------------------------------------------------------------
(* Exchange rates and categories.                                          *)

\* A rate is there exactly when the request that sets it was served.
MadeWhenServed == \A x \in RateId : rate[x].made <=> setting[x] = "done"

\* What a request replaced stays replaced: nothing makes a rate active again.
ReplacedInactive ==
  \A x \in RateId : \A y \in replaced[x] : y \in Made /\ ~rate[y].isActive

\* A request on a rate loaded it, so that it is there.
FixesMade == \A k \in RateFix : fixing[k] # NoFix => rate[fixing[k].of].made

RateInv ==
  /\ RateTypeOK
  /\ FixesMade
  /\ MadeWhenServed
  /\ ReplacedInactive
  /\ RateUnlessLeft

\* What a request adds is one name of each key that it did not see, and what it
\* saw is still there.
AddsAreMissing ==
  \A c \in CategoryRequest : categoryReq[c] # NoCategoryReq =>
    /\ categoryReq[c].adds \in Missing(categoryReq[c].wants, categoryReq[c].seen)
    /\ categoryReq[c].seen \subseteq category

\* A request that was served has its names in the collection, and a category that
\* a request made is one that it added.
MadeByServed ==
  /\ \A c \in CategoryRequest : categoryReq[c].phase = "done"
                                => categoryReq[c].adds \subseteq category
  /\ \A n \in CategoryName : \A c \in madeBy[n] :
       /\ categoryReq[c].phase = "done"
       /\ n \in categoryReq[c].adds

CategoryInv ==
  /\ CategoryTypeOK
  /\ AddsAreMissing
  /\ MadeByServed

ReferenceInv == RateInv /\ CategoryInv

-------------------------------------------------------------------------------
(* Rates.                                                                  *)

LEMMA RateInitial == RateInit => RateInv
BY DEF RateInit, RateInv, RateTypeOK, FixesMade, MadeWhenServed,
       ReplacedInactive, RateUnlessLeft, Made, NoRate, NoFix

\* A document is there or it is not.
LEMMA RateShape ==
  ASSUME RateTypeOK, NEW x \in RateId
  PROVE  /\ rate[x].made => rate[x] \in RateDoc
         /\ ~rate[x].made => rate[x] = NoRate
<1>1. CASE rate[x] = NoRate
  BY <1>1 DEF NoRate
<1>2. CASE rate[x] \in RateDoc
  BY <1>2 DEF RateDoc
<1> QED
  BY <1>1, <1>2 DEF RateTypeOK

\* A request on a rate names one.
LEMMA FixShape ==
  ASSUME RateTypeOK, NEW k \in RateFix, fixing[k] # NoFix
  PROVE  fixing[k] \in Fix /\ fixing[k].of \in RateId
BY DEF RateTypeOK, Fix

LEMMA ReadCurrentKeeps ==
  ASSUME RateInv, NEW x \in RateId, ReadCurrent(x)
  PROVE  RateInv'
<1> USE DEF RateInv, ReadCurrent
<1>1. RateTypeOK'
  BY DEF RateTypeOK
<1>2. FixesMade' /\ MadeWhenServed' /\ ReplacedInactive'
  BY DEF FixesMade, RateTypeOK, MadeWhenServed, ReplacedInactive, Made
<1>3. RateUnlessLeft'
  <2>1. \A y \in RateId : setting[y] = setting'[y] \/ setting[y] = "idle"
    BY DEF RateTypeOK
  <2> QED
    BY <2>1 DEF RateUnlessLeft, LeftByASetting, LeftByHand, Made, ActiveRates
<1> QED
  BY <1>1, <1>2, <1>3

\* What updateMany leaves: the same rates, all of them inactive.
LEMMA ClearedShape ==
  ASSUME RateTypeOK, NEW x \in RateId
  PROVE  /\ Cleared[x].made = rate[x].made
         /\ Cleared[x] \in {NoRate} \cup RateDoc
         /\ rate[x].made => ~Cleared[x].isActive
<1>1. CASE x \in ActiveRates
  <2>1. rate[x] \in RateDoc
    BY <1>1, RateShape DEF ActiveRates, Made
  <2>2. Cleared[x] = [rate[x] EXCEPT !.isActive = FALSE]
    BY <1>1 DEF Cleared
  <2> QED
    BY <2>1, <2>2 DEF RateDoc
<1>2. CASE x \notin ActiveRates
  <2>1. Cleared[x] = rate[x]
    BY <1>2 DEF Cleared
  <2> QED
    BY <1>2, <2>1, RateShape DEF ActiveRates, Made
<1> QED
  BY <1>1, <1>2

LEMMA ClearRatesKeeps ==
  ASSUME RateInv, NEW x \in RateId, ClearRates(x)
  PROVE  RateInv'
<1> USE DEF RateInv
<1>1. rate' = Cleared /\ DOMAIN Cleared = RateId
  BY DEF ClearRates, Cleared
<1>2. \A y \in RateId : /\ rate'[y].made = rate[y].made
                        /\ rate'[y] \in {NoRate} \cup RateDoc
                        /\ rate[y].made => ~rate'[y].isActive
  BY <1>1, ClearedShape
<1>3. /\ replaced' = [replaced EXCEPT ![x] = Made]
      /\ setting' = [setting EXCEPT ![x] = "inserting"]
      /\ setting[x] = "clearing"
      /\ fixing' = fixing /\ retired' = retired
  BY DEF ClearRates
<1>4. rate' = [y \in RateId |-> rate'[y]]
  BY <1>1 DEF Cleared
<1>5. Made \subseteq RateId
  BY DEF Made
<1>6. RateTypeOK'
  <2>1. rate' \in [RateId -> {NoRate} \cup RateDoc]
    BY <1>2, <1>4
  <2> QED
    BY <1>3, <1>5, <2>1 DEF RateTypeOK
<1>7. MadeWhenServed' /\ FixesMade'
  <2>1. MadeWhenServed'
    BY <1>2, <1>3 DEF MadeWhenServed, RateTypeOK
  <2>2. FixesMade'
    BY <1>2, <1>3, FixShape DEF FixesMade
  <2> QED
    BY <2>1, <2>2
<1>8. ReplacedInactive'
  <2> SUFFICES ASSUME NEW z \in RateId, NEW y \in replaced'[z]
               PROVE  y \in RateId /\ rate'[y].made /\ ~rate'[y].isActive
    BY DEF ReplacedInactive, Made
  <2>1. y \in Made
    BY <1>3 DEF ReplacedInactive, RateTypeOK
  <2> QED
    BY <1>2, <2>1 DEF Made
<1>9. RateUnlessLeft'
  <2>1. Made' = Made
    BY <1>2 DEF Made
  <2>2. setting'[x] = "inserting" /\ replaced'[x] = Made
    BY <1>3 DEF RateTypeOK
  <2> QED
    BY <2>1, <2>2 DEF RateUnlessLeft, LeftByASetting
<1> QED
  BY <1>6, <1>7, <1>8, <1>9

LEMMA InsertRateKeeps ==
  ASSUME RateInv, NEW x \in RateId, NEW n \in RateValue, NEW d \in RateDate,
         InsertRate(x, n, d)
  PROVE  RateInv'
<1> USE DEF RateInv
<1>1. /\ rate' = [rate EXCEPT ![x] = Inserted(n, d)]
      /\ setting' = [setting EXCEPT ![x] = "done"]
      /\ setting[x] = "inserting"
      /\ fixing' = fixing /\ retired' = retired /\ replaced' = replaced
  BY DEF InsertRate
<1>2. Inserted(n, d) \in RateDoc /\ Inserted(n, d).made /\ Inserted(n, d).isActive
  BY DEF Inserted, RateDoc
<1>3. ~rate[x].made
  BY <1>1 DEF MadeWhenServed
<1>4. RateTypeOK'
  BY <1>1, <1>2 DEF RateTypeOK
<1>5. MadeWhenServed' /\ FixesMade'
  <2>1. MadeWhenServed'
    BY <1>1, <1>2 DEF RateTypeOK, MadeWhenServed
  <2>2. FixesMade'
    BY <1>1, <1>2, FixShape DEF FixesMade, RateTypeOK
  <2> QED
    BY <2>1, <2>2
<1>6. ReplacedInactive'
  <2> SUFFICES ASSUME NEW z \in RateId, NEW y \in replaced[z]
               PROVE  y \in RateId /\ rate'[y].made /\ ~rate'[y].isActive
    BY <1>1 DEF ReplacedInactive, Made
  <2>1. y \in RateId /\ rate[y].made /\ ~rate[y].isActive /\ y # x
    BY <1>3 DEF ReplacedInactive, Made
  <2> QED
    BY <1>1, <2>1 DEF RateTypeOK
<1>7. x \in RateId /\ rate'[x].made /\ rate'[x].isActive
  BY <1>1, <1>2 DEF RateTypeOK
<1>8. RateUnlessLeft'
  BY <1>7 DEF RateUnlessLeft, ActiveRates, Made
<1> QED
  BY <1>4, <1>5, <1>6, <1>8

LEMMA FailRateKeeps ==
  ASSUME RateInv, NEW x \in RateId, FailRate(x)
  PROVE  RateInv'
<1> USE DEF RateInv, FailRate
<1>1. RateTypeOK'
  BY DEF RateTypeOK
<1>2. FixesMade' /\ MadeWhenServed' /\ ReplacedInactive'
  BY DEF FixesMade, RateTypeOK, MadeWhenServed, ReplacedInactive, Made
<1>3. RateUnlessLeft'
  <2>1. \A y \in RateId : setting[y] \in {"inserting", "failed"}
                          => setting'[y] \in {"inserting", "failed"}
    BY DEF RateTypeOK
  <2> QED
    BY <2>1 DEF RateUnlessLeft, LeftByASetting, LeftByHand, Made, ActiveRates
<1> QED
  BY <1>1, <1>2, <1>3

LEMMA ReadRateKeeps ==
  ASSUME RateInv, NEW k \in RateFix, NEW x \in RateId, NEW n \in RateValue,
         NEW op \in {"correct", "deactivate"}, ReadRate(k, x, op, n)
  PROVE  RateInv'
<1> USE DEF RateInv, ReadRate
<1>1. rate[x] \in RateDoc
  BY RateShape DEF Made
<1>2. RateTypeOK'
  BY <1>1 DEF RateTypeOK, Fix
<1>3. FixesMade' /\ MadeWhenServed' /\ ReplacedInactive'
  <2>1. FixesMade'
    BY DEF FixesMade, RateTypeOK, Made
  <2> QED
    BY <2>1 DEF MadeWhenServed, ReplacedInactive, Made
<1>4. RateUnlessLeft'
  BY DEF RateUnlessLeft, LeftByASetting, LeftByHand, Made, ActiveRates
<1> QED
  BY <1>2, <1>3, <1>4


\* A write that leaves which rates there are, and makes none active, keeps what
\* the invariant says of them.
LEMMA WriteShape ==
  ASSUME RateInv, NEW z \in RateId, rate[z].made, NEW d \in RateDoc,
         rate' = [rate EXCEPT ![z] = d], d.isActive => rate[z].isActive,
         NEW k \in RateFix, fixing[k] # NoFix,
         fixing' = [fixing EXCEPT ![k].phase = "done"],
         UNCHANGED <<setting, replaced>>,
         \/ retired' = retired /\ d.isActive = rate[z].isActive
         \/ retired' = retired \cup {z}
  PROVE  RateInv'
<1> USE DEF RateInv
<1>1. d.made = TRUE
  BY DEF RateDoc
<1>2. \A y \in RateId : rate'[y] = (IF y = z THEN d ELSE rate[y])
  BY DEF RateTypeOK
<1>3. \A y \in RateId : rate'[y].made <=> rate[y].made
  BY <1>1, <1>2
<1>4. \A y \in RateId : rate'[y].isActive => rate[y].isActive
  BY <1>2
<1>5. fixing[k] \in Fix
  BY FixShape
<1>6. RateTypeOK'
  <2>1. [fixing[k] EXCEPT !.phase = "done"] \in Fix
    BY <1>5 DEF Fix
  <2>2. fixing' \in [RateFix -> {NoFix} \cup Fix]
    BY <2>1 DEF RateTypeOK
  <2> QED
    BY <2>2 DEF RateTypeOK
<1>7. FixesMade'
  <2> SUFFICES ASSUME NEW j \in RateFix, fixing'[j] # NoFix
               PROVE  rate'[fixing'[j].of].made
    BY DEF FixesMade
  <2>1. fixing'[k].of = fixing[k].of
    BY <1>5 DEF RateTypeOK, Fix
  <2>2. fixing[j] # NoFix /\ fixing'[j].of = fixing[j].of
    BY <2>1 DEF RateTypeOK
  <2> QED
    BY <1>3, <2>2, FixShape DEF FixesMade
<1>8. MadeWhenServed'
  BY <1>3 DEF MadeWhenServed
<1>9. ReplacedInactive'
  <2> SUFFICES ASSUME NEW x \in RateId, NEW y \in replaced[x]
               PROVE  y \in RateId /\ rate'[y].made /\ ~rate'[y].isActive
    BY DEF ReplacedInactive, Made
  <2>1. y \in RateId /\ rate[y].made /\ ~rate[y].isActive
    BY DEF ReplacedInactive, Made
  <2> QED
    BY <1>3, <1>4, <2>1
<1>10. RateUnlessLeft'
  <2>1. Made' = Made
    BY <1>3 DEF Made
  <2>2. CASE ActiveRates' # {}
    BY <2>2 DEF RateUnlessLeft
  <2>3. CASE z \in ActiveRates /\ ActiveRates' = {}
    <3>1. z \in retired'
      BY <1>2, <2>1, <2>3 DEF ActiveRates, Made
    <3>2. \A x \in Made : z \notin replaced[x]
      BY <2>3 DEF ReplacedInactive, ActiveRates, Made
    <3> QED
      BY <2>1, <3>1, <3>2 DEF RateUnlessLeft, LeftByHand
  <2>4. CASE z \notin ActiveRates /\ ActiveRates' = {}
    <3>1. ActiveRates = {}
      BY <1>2, <1>3, <2>1, <2>4 DEF ActiveRates, Made
    <3>2. LeftByASetting => LeftByASetting'
      BY <2>1 DEF LeftByASetting
    <3>3. LeftByHand => LeftByHand'
      BY <2>1 DEF LeftByHand
    <3> QED
      BY <2>1, <3>1, <3>2, <3>3 DEF RateUnlessLeft
  <2> QED
    BY <2>2, <2>3, <2>4
<1> QED
  BY <1>6, <1>7, <1>8, <1>9, <1>10

LEMMA CorrectRateKeeps ==
  ASSUME RateInv, NEW k \in RateFix, CorrectRate(k)
  PROVE  RateInv'
<1>1. PICK q, z : q = fixing[k] /\ z = q.of
  OBVIOUS
<1>2. fixing[k] # NoFix
  BY DEF CorrectRate, NoFix
<1>3. q \in Fix /\ z \in RateId /\ rate[z].made
  BY <1>1, <1>2, FixShape DEF RateInv, FixesMade
<1>4. rate[z] \in RateDoc
  BY <1>3, RateShape DEF RateInv
<1>5. PICK d : d = Corrected(q, rate[z])
  OBVIOUS
<1>6. d \in RateDoc /\ d.isActive = rate[z].isActive
  BY <1>3, <1>4, <1>5 DEF Corrected, RateDoc, Fix
<1>7. /\ rate' = [rate EXCEPT ![z] = d]
      /\ fixing' = [fixing EXCEPT ![k].phase = "done"]
      /\ UNCHANGED <<setting, replaced, retired>>
  BY <1>1, <1>5 DEF CorrectRate
<1> QED
  BY <1>2, <1>3, <1>6, <1>7, WriteShape

LEMMA DeactivateRateKeeps ==
  ASSUME RateInv, NEW k \in RateFix, DeactivateRate(k)
  PROVE  RateInv'
<1>1. PICK z : z = fixing[k].of
  OBVIOUS
<1>2. fixing[k] # NoFix
  BY DEF DeactivateRate, NoFix
<1>3. z \in RateId /\ rate[z].made
  BY <1>1, <1>2, FixShape DEF RateInv, FixesMade
<1>4. rate[z] \in RateDoc
  BY <1>3, RateShape DEF RateInv
<1>5. PICK d : d = [rate[z] EXCEPT !.isActive = FALSE]
  OBVIOUS
<1>6. d \in RateDoc /\ ~d.isActive
  BY <1>4, <1>5 DEF RateDoc
<1>7. /\ rate' = [rate EXCEPT ![z] = d]
      /\ fixing' = [fixing EXCEPT ![k].phase = "done"]
      /\ UNCHANGED <<setting, replaced>>
      /\ retired' = retired \cup {z}
  BY <1>1, <1>5 DEF DeactivateRate
<1> QED
  BY <1>2, <1>3, <1>6, <1>7, WriteShape

LEMMA RateStepKeeps == RateInv /\ [RateNext]_rateVars => RateInv'
<1> SUFFICES ASSUME RateInv, [RateNext]_rateVars PROVE RateInv'
  OBVIOUS
<1>1. CASE RateArrival
  BY <1>1, ReadCurrentKeeps, ReadRateKeeps DEF RateArrival
<1>2. CASE RateWrite
  BY <1>2, ClearRatesKeeps, InsertRateKeeps, FailRateKeeps, CorrectRateKeeps, DeactivateRateKeeps
     DEF RateWrite
<1>3. CASE UNCHANGED rateVars
  <2> USE <1>3 DEF RateInv, rateVars
  <2>1. RateTypeOK' /\ FixesMade' /\ MadeWhenServed'
    BY DEF RateTypeOK, FixesMade, MadeWhenServed
  <2>2. ReplacedInactive' /\ RateUnlessLeft'
    BY DEF ReplacedInactive, RateUnlessLeft, LeftByASetting, LeftByHand,
           Made, ActiveRates
  <2> QED
    BY <2>1, <2>2
<1> QED
  BY <1>1, <1>2, <1>3 DEF RateNext

\* What was replaced is inactive, so that of two active rates neither replaced
\* the other.
LEMMA InactiveDoNotMeet ==
  ASSUME RateInv
  PROVE  ActiveTogetherOnlyIfOverlapping
BY DEF RateInv, RateTypeOK, ReplacedInactive, ActiveTogetherOnlyIfOverlapping,
       ActiveRates, Made

-------------------------------------------------------------------------------
(* Categories.                                                             *)

LEMMA CategoryInitial == CategoryInit => CategoryInv
BY DEF CategoryInit, CategoryInv, CategoryTypeOK, AddsAreMissing, MadeByServed,
       NoCategoryReq

\* A request that was begun has all its fields.
LEMMA CategoryShape ==
  ASSUME CategoryTypeOK, NEW c \in CategoryRequest,
         categoryReq[c] # NoCategoryReq
  PROVE  categoryReq[c] \in CategoryReq
BY DEF CategoryTypeOK

LEMMA ReadCategoriesKeeps ==
  ASSUME CategoryInv, NEW c \in CategoryRequest, NEW op \in {"post", "script"},
         NEW W \in SUBSET CategoryName, ReadCategories(c, op, W)
  PROVE  CategoryInv'
<1> USE DEF CategoryInv
<1>1. PICK A \in Missing(W, category) :
        categoryReq' = [categoryReq EXCEPT
          ![c] = [phase |-> "read", op |-> op, wants |-> W, adds |-> A,
                  seen |-> category]]
  BY DEF ReadCategories
<1>2. categoryReq[c] = NoCategoryReq /\ UNCHANGED <<category, madeBy>>
  BY DEF ReadCategories
<1>3. A \subseteq W /\ W \subseteq CategoryName /\ category \subseteq CategoryName
  BY DEF Missing, CategoryTypeOK
<1>4. PICK q : q = [phase |-> "read", op |-> op, wants |-> W, adds |-> A,
                    seen |-> category]
  OBVIOUS
<1>5. /\ q \in CategoryReq /\ q.phase = "read" /\ q # NoCategoryReq
      /\ q.adds \in Missing(q.wants, q.seen) /\ q.seen = category
  BY <1>3, <1>4 DEF CategoryReq, NoCategoryReq
<1>6. categoryReq' = [categoryReq EXCEPT ![c] = q]
  BY <1>1, <1>4
<1>7. CategoryTypeOK'
  BY <1>2, <1>5, <1>6 DEF CategoryTypeOK
<1>8. AddsAreMissing'
  BY <1>2, <1>5, <1>6 DEF AddsAreMissing, CategoryTypeOK
<1>9. MadeByServed'
  <2>1. categoryReq[c].phase # "done"
    BY <1>2 DEF NoCategoryReq
  <2> QED
    BY <1>2, <1>5, <1>6, <2>1 DEF MadeByServed, CategoryTypeOK
<1> QED
  BY <1>7, <1>8, <1>9

LEMMA InsertCategoriesKeeps ==
  ASSUME CategoryInv, NEW c \in CategoryRequest, InsertCategories(c)
  PROVE  CategoryInv'
<1> USE DEF CategoryInv
<1>1. PICK q, B : q = categoryReq[c] /\ B = Insertable(q)
  OBVIOUS
<1>2. /\ q.phase = "read"
      /\ category' = category \cup B
      /\ madeBy' = [n \in CategoryName |-> IF n \in B THEN {c} ELSE madeBy[n]]
      /\ categoryReq' = [categoryReq EXCEPT ![c].phase = "done"]
  BY <1>1 DEF InsertCategories
<1>3. q # NoCategoryReq
  BY <1>2 DEF NoCategoryReq
<1>4. q \in CategoryReq
  BY <1>1, <1>3, CategoryShape
<1>5. B = q.adds \ category /\ B \subseteq CategoryName
  BY <1>1, <1>4 DEF Insertable, CategoryReq
<1>6. PICK p : p = [q EXCEPT !.phase = "done"]
  OBVIOUS
<1>7. /\ p \in CategoryReq /\ p.phase = "done" /\ p # NoCategoryReq
      /\ p.wants = q.wants /\ p.adds = q.adds /\ p.seen = q.seen
  BY <1>4, <1>6 DEF CategoryReq, NoCategoryReq
<1>8. categoryReq' = [categoryReq EXCEPT ![c] = p]
  BY <1>1, <1>2, <1>6
<1>9. CategoryTypeOK'
  BY <1>2, <1>5, <1>7, <1>8 DEF CategoryTypeOK
<1>10. AddsAreMissing'
  BY <1>1, <1>2, <1>3, <1>7, <1>8 DEF AddsAreMissing, CategoryTypeOK
<1>11. MadeByServed'
  <2>1. ASSUME NEW d \in CategoryRequest, categoryReq'[d].phase = "done"
        PROVE  categoryReq'[d].adds \subseteq category'
    BY <1>2, <1>5, <1>7, <1>8, <2>1 DEF MadeByServed, CategoryTypeOK
  <2>2. ASSUME NEW n \in CategoryName, NEW d \in madeBy'[n]
        PROVE  categoryReq'[d].phase = "done" /\ n \in categoryReq'[d].adds
    <3>1. CASE n \in B
      BY <1>2, <1>5, <1>7, <1>8, <2>2, <3>1 DEF CategoryTypeOK
    <3>2. CASE n \notin B
      <4>1. d \in madeBy[n] /\ d \in CategoryRequest
        BY <1>2, <2>2, <3>2 DEF CategoryTypeOK
      <4>2. categoryReq[d].phase = "done" /\ n \in categoryReq[d].adds
        BY <4>1 DEF MadeByServed
      <4>3. d # c
        BY <1>1, <1>2, <4>2
      <4> QED
        BY <1>8, <4>1, <4>2, <4>3 DEF CategoryTypeOK
    <3> QED
      BY <3>1, <3>2
  <2> QED
    BY <2>1, <2>2 DEF MadeByServed
<1> QED
  BY <1>9, <1>10, <1>11

LEMMA CategoryStepKeeps == CategoryInv /\ [CategoryNext]_categoryVars => CategoryInv'
<1> SUFFICES ASSUME CategoryInv, [CategoryNext]_categoryVars PROVE CategoryInv'
  OBVIOUS
<1>1. CASE CategoryNext
  BY <1>1, ReadCategoriesKeeps, InsertCategoriesKeeps
     DEF CategoryNext, CategoryArrival, CategoryWrite
<1>2. CASE UNCHANGED categoryVars
  BY <1>2 DEF CategoryInv, CategoryTypeOK, AddsAreMissing, MadeByServed,
              categoryVars
<1> QED
  BY <1>1, <1>2

\* What is missing has no key that was seen.
LEMMA MissingIsNew ==
  ASSUME NEW W, NEW S, NEW A \in Missing(W, S), NEW a \in A
  PROVE  CategoryKey[a] \notin KeysOf(S)
<1>1. CategoryKey[a] \in KeysOf(A)
  BY DEF KeysOf
<1>2. KeysOf(A) = KeysOf(W) \ KeysOf(S)
  BY DEF Missing
<1> QED
  BY <1>1, <1>2

\* Of two spellings of one category, neither request saw the other's: what a
\* request adds has a key that it saw nothing of, and one name of each.
LEMMA TwinsDidNotMeet ==
  ASSUME CategoryInv
  PROVE  TwinsOnlyIfOverlapping
<1> USE DEF CategoryInv
<1> SUFFICES ASSUME NEW m \in category, NEW n \in category, m # n,
                    CategoryKey[m] = CategoryKey[n],
                    NEW c \in madeBy[m], NEW d \in madeBy[n]
             PROVE  c # d /\ m \notin categoryReq[d].seen
                          /\ n \notin categoryReq[c].seen
  BY DEF TwinsOnlyIfOverlapping
<1>1. /\ m \in CategoryName /\ n \in CategoryName
      /\ c \in CategoryRequest /\ d \in CategoryRequest
  BY DEF CategoryTypeOK
<1>2. /\ categoryReq[c].phase = "done" /\ m \in categoryReq[c].adds
      /\ categoryReq[d].phase = "done" /\ n \in categoryReq[d].adds
  BY <1>1 DEF MadeByServed
<1>3. categoryReq[c] # NoCategoryReq /\ categoryReq[d] # NoCategoryReq
  BY <1>2 DEF NoCategoryReq
<1>4. /\ categoryReq[c].adds \in Missing(categoryReq[c].wants, categoryReq[c].seen)
      /\ categoryReq[d].adds \in Missing(categoryReq[d].wants, categoryReq[d].seen)
  BY <1>1, <1>3 DEF AddsAreMissing
<1>5. ASSUME c = d PROVE FALSE
  BY <1>2, <1>4, <1>5 DEF Missing
<1>6. \A a \in categoryReq[d].adds : CategoryKey[a] \notin KeysOf(categoryReq[d].seen)
  BY <1>4, MissingIsNew
<1>7. \A a \in categoryReq[c].adds : CategoryKey[a] \notin KeysOf(categoryReq[c].seen)
  BY <1>4, MissingIsNew
<1>8. ASSUME m \in categoryReq[d].seen PROVE FALSE
  <2>1. CategoryKey[m] \in KeysOf(categoryReq[d].seen)
    BY <1>8 DEF KeysOf
  <2> QED
    BY <1>2, <1>6, <2>1
<1>9. ASSUME n \in categoryReq[c].seen PROVE FALSE
  <2>1. CategoryKey[n] \in KeysOf(categoryReq[c].seen)
    BY <1>9 DEF KeysOf
  <2> QED
    BY <1>2, <1>7, <2>1
<1> QED
  BY <1>5, <1>8, <1>9

\* What was asked for was seen or was added, and neither goes away.
LEMMA ServedRemain ==
  ASSUME CategoryInv
  PROVE  ServedCategoriesExist
<1> USE DEF CategoryInv
<1> SUFFICES ASSUME NEW c \in CategoryRequest, categoryReq[c].phase = "done"
             PROVE  KeysOf(categoryReq[c].wants) \subseteq KeysOf(category)
  BY DEF ServedCategoriesExist
<1>1. categoryReq[c] # NoCategoryReq
  BY DEF NoCategoryReq
<1>2. /\ KeysOf(categoryReq[c].adds)
            = KeysOf(categoryReq[c].wants) \ KeysOf(categoryReq[c].seen)
      /\ categoryReq[c].seen \subseteq category
  BY <1>1 DEF AddsAreMissing, Missing
<1>3. categoryReq[c].adds \subseteq category
  BY DEF MadeByServed
<1>4. /\ KeysOf(categoryReq[c].adds) \subseteq KeysOf(category)
      /\ KeysOf(categoryReq[c].seen) \subseteq KeysOf(category)
  BY <1>2, <1>3 DEF KeysOf
<1> QED
  BY <1>2, <1>4

-------------------------------------------------------------------------------
(* The two collections together.                                           *)

LEMMA ReferenceInvHolds == ReferenceSpec => []ReferenceInv
<1>1. ReferenceInit => ReferenceInv
  BY RateInitial, CategoryInitial DEF ReferenceInit, ReferenceInv
<1>2. ReferenceInv /\ [ReferenceNext]_referenceVars => ReferenceInv'
  <2> SUFFICES ASSUME ReferenceInv, [ReferenceNext]_referenceVars PROVE ReferenceInv'
    OBVIOUS
  <2>1. [RateNext]_rateVars /\ [CategoryNext]_categoryVars
    BY DEF ReferenceNext, OnRates, OnCategories, RateNext, CategoryNext, referenceVars
  <2> QED
    BY <2>1, RateStepKeeps, CategoryStepKeeps DEF ReferenceInv
<1> QED
  BY <1>1, <1>2, PTL DEF ReferenceSpec

\* Every document and request is one the schemas and the handlers produce, in
\* every state that overlapping requests reach.
THEOREM ReferenceTypeCorrect == ReferenceSpec => []ReferenceTypeOK
<1>1. ReferenceInv => ReferenceTypeOK
  BY DEF ReferenceInv, RateInv, CategoryInv, ReferenceTypeOK
<1> QED
  BY <1>1, ReferenceInvHolds, PTL

\* Two active rates come from overlapping requests of POST /api/exchange-rates and
\* from nothing else: no rate that was replaced is ever active again.
THEOREM ReplacedForGood == ReferenceSpec => []ActiveTogetherOnlyIfOverlapping
<1>1. ReferenceInv => ActiveTogetherOnlyIfOverlapping
  BY InactiveDoNotMeet DEF ReferenceInv
<1> QED
  BY <1>1, ReferenceInvHolds, PTL

\* However settings and corrections overlap, the shop is without a rate only when
\* a setting deactivated those there are and has not inserted its own, or after one
\* was deactivated by hand and none was set since.
THEOREM SomeRateRemains == ReferenceSpec => []RateUnlessLeft
<1>1. ReferenceInv => RateUnlessLeft
  BY DEF ReferenceInv, RateInv
<1> QED
  BY <1>1, ReferenceInvHolds, PTL

\* Two spellings of one category come from overlapping requests and script runs.
THEOREM TwinsOverlapped == ReferenceSpec => []TwinsOnlyIfOverlapping
<1>1. ReferenceInv => TwinsOnlyIfOverlapping
  BY TwinsDidNotMeet DEF ReferenceInv
<1> QED
  BY <1>1, ReferenceInvHolds, PTL

\* A request that was served, even with 409, leaves all it asked for.
THEOREM ServedAreThere == ReferenceSpec => []ServedCategoriesExist
<1>1. ReferenceInv => ServedCategoriesExist
  BY ServedRemain DEF ReferenceInv
<1> QED
  BY <1>1, ReferenceInvHolds, PTL
===============================================================================
