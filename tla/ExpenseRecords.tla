---------------------------- MODULE ExpenseRecords ----------------------------
(***************************************************************************)
(* routes/expenses.js: an expense is recorded as pending, decided once     *)
(* (validated or rejected), edited and deleted.  Every handler but the     *)
(* creation reads the document, checks what it read, and then writes by    *)
(* id: the write repeats the region filter and nothing else, so handlers   *)
(* interleave between their two accesses.                                  *)
(*                                                                         *)
(* The notes are one text that each handler extends from the copy it read. *)
(* A line of it is known by the request that added it.  validatedBy is     *)
(* text too, "x (Modified by: y)": the set of the names in it.  Reason,    *)
(* recipient, payment method and mails are left out; a refused request     *)
(* changes nothing and is left out as well.  A request whose process dies  *)
(* between its accesses takes no further step.                             *)
(***************************************************************************)
EXTENDS Staff, FiniteSets

CONSTANTS
  Expense,          \* ids of expenses, each created at most once
  ExpenseRequest,   \* requests on existing expenses, each served once
  ExpenseAmount     \* amounts that requests name

VARIABLES
  expense,      \* expense[x]: the document
  expenseReq    \* expenseReq[r]: what request r does, read and is told

expenseVars == <<expense, expenseReq>>

-------------------------------------------------------------------------------

Decisions == {"validated", "rejected"}

NoExpense == [status |-> "none"]
GoneExpense == [status |-> "deleted"]

ExpenseDoc == [status : {"pending"} \cup Decisions,
               amount : ExpenseAmount,
               region : Region,
               recordedBy : User,
               validatedBy : SUBSET User,
               notes : SUBSET ExpenseRequest]

\* edit carries the new amount and the region, if it names one; decide carries
\* the verdict.
ExpenseInput == [op : {"decide"}, verdict : Decisions]
                \cup [op : {"edit"}, amount : ExpenseAmount,
                      region : Region \cup {"same"}]
                \cup [op : {"delete", "purge"}]

NoExpenseReq == [phase |-> "idle"]

\* seen is the document the handler read first; told is its answer.
ExpenseReq == [phase : {"read"}, user : User, of : Expense,
               input : ExpenseInput, seen : ExpenseDoc]
              \cup [phase : {"done"}, user : User, of : Expense,
                    input : ExpenseInput, seen : ExpenseDoc,
                    told : {"ok", "failed"}]

ExpenseExists(x) == expense[x].status \in {"pending"} \cup Decisions

\* A query of u by id.
ExpenseFound(u, x) == ExpenseExists(x) /\ InReach(u, expense[x].region)

ExpenseInit ==
  /\ expense = [x \in Expense |-> NoExpense]
  /\ expenseReq = [r \in ExpenseRequest |-> NoExpenseReq]

-------------------------------------------------------------------------------
(* The handlers.                                                           *)

\* POST /: pending, in the account's own region when it has only one.
CreateExpense(u, x, n, g) ==
  /\ expense[x] = NoExpense
  /\ InReach(u, g)
  /\ expense' = [expense EXCEPT
       ![x] = [status |-> "pending", amount |-> n, region |-> g,
               recordedBy |-> u, validatedBy |-> {}, notes |-> {}]]
  /\ UNCHANGED expenseReq

\* isRecordedBy or isAdminUser
MayManage(u, d) == d.recordedBy = u \/ CanValidate(u)

\* What each handler checks on the document it read.
MayProceed(u, input, d) ==
  CASE input.op = "decide" -> CanValidate(u) /\ d.status = "pending"
    [] input.op = "edit"   -> IF d.status = "pending" THEN MayManage(u, d)
                                                      ELSE IsAdmin(u)
    [] input.op = "delete" -> d.status = "pending" /\ MayManage(u, d)
    [] input.op = "purge"  -> IsAdmin(u)

\* findById and the checks that follow it.
ReadExpense(r, u, x, input) ==
  /\ expenseReq[r] = NoExpenseReq
  /\ ExpenseFound(u, x)
  /\ MayProceed(u, input, expense[x])
  /\ expenseReq' = [expenseReq EXCEPT
       ![r] = [phase |-> "read", user |-> u, of |-> x, input |-> input,
               seen |-> expense[x]]]
  /\ UNCHANGED expense

AnswerExpense(r, answer) ==
  expenseReq' = [expenseReq EXCEPT
    ![r] = [phase |-> "done", user |-> @.user, of |-> @.of,
            input |-> @.input, seen |-> @.seen, told |-> answer]]

\* Mutant: the notes start again from the handler's own line.
NotedAlone(r, q) == {r}

\* The notes a handler writes: those it read and its own line.
Noted(r, q) == q.seen.notes \cup {r}

DecideExpense(r) ==
  LET q == expenseReq[r] IN
  /\ q.phase = "read" /\ q.input.op = "decide"
  /\ IF ExpenseFound(q.user, q.of)
     THEN expense' = [expense EXCEPT ![q.of].status = q.input.verdict,
                                     ![q.of].validatedBy = {q.user},
                                     ![q.of].notes = Noted(r, q)]
     ELSE UNCHANGED expense
  /\ AnswerExpense(r, "ok")          \* even when nothing was found: null

\* Mutant: the name of an edit replaces those that were there.
SignedAfresh(q, d) ==
  IF q.seen.status = "validated" /\ IsAdmin(q.user) THEN {q.user} ELSE d.validatedBy

\* Mutant: an edit by an administrator of any expense signs it.
SignedAlways(q, d) == q.seen.validatedBy \cup {q.user}

\* An administrator's edit of what it read as validated adds its name.
Signed(q, d) ==
  IF q.seen.status = "validated" /\ IsAdmin(q.user)
  THEN q.seen.validatedBy \cup {q.user}
  ELSE d.validatedBy

\* Mutant: the region of the body is written whether it names one or not.
EditedRegionAsGiven(q, d) == q.input.region

EditedRegion(q, d) ==
  IF q.input.region = "same" THEN d.region ELSE q.input.region

EditExpense(r) ==
  LET q == expenseReq[r] IN
  /\ q.phase = "read" /\ q.input.op = "edit"
  /\ IF ExpenseFound(q.user, q.of)
     THEN /\ expense' = [expense EXCEPT
               ![q.of] = [@ EXCEPT !.amount = q.input.amount,
                                   !.region = EditedRegion(q, expense[q.of]),
                                   !.validatedBy = Signed(q, expense[q.of]),
                                   !.notes = Noted(r, q)]]
          /\ AnswerExpense(r, "ok")
     ELSE UNCHANGED expense /\ AnswerExpense(r, "failed")   \* null.toObject()

\* DELETE /:id and DELETE /:id/admin differ in what they checked.
DeleteExpense(r) ==
  LET q == expenseReq[r] IN
  /\ q.phase = "read" /\ q.input.op \in {"delete", "purge"}
  /\ expense' = IF ExpenseFound(q.user, q.of)
                THEN [expense EXCEPT ![q.of] = GoneExpense] ELSE expense
  /\ AnswerExpense(r, "ok")

ExpenseCreation ==
  \E u \in User, x \in Expense, n \in ExpenseAmount, g \in Region :
    CreateExpense(u, x, n, g)

ExpenseArrival ==
  \E r \in ExpenseRequest, u \in User, x \in Expense, i \in ExpenseInput :
    ReadExpense(r, u, x, i)

ExpenseWrite ==
  \E r \in ExpenseRequest :
    DecideExpense(r) \/ EditExpense(r) \/ DeleteExpense(r)

ExpenseNext == ExpenseCreation \/ ExpenseArrival \/ ExpenseWrite

ExpenseSpec == ExpenseInit /\ [][ExpenseNext]_expenseVars

-------------------------------------------------------------------------------
(* Properties, which CashRecords puts together with those of the entries.  *)

\* Every document and request is one the schema and the handlers produce.
ExpenseTypeOK ==
  /\ expense \in [Expense -> {NoExpense, GoneExpense} \cup ExpenseDoc]
  /\ expenseReq \in [ExpenseRequest -> {NoExpenseReq} \cup ExpenseReq]

\* An expense names validators exactly when it is decided, and all of them may
\* decide: no order of racing validations, rejections and edits unsigns a
\* decision, signs a pending expense or signs with a name without the right.
DecisionSigned ==
  \A x \in Expense : ExpenseExists(x) =>
    /\ expense[x].status \in Decisions <=> expense[x].validatedBy # {}
    /\ \A u \in expense[x].validatedBy : Role[u] # "cashier"

\* A line that supports the status s: the decision itself, or an edit by a
\* request that had read another status.
Supports(r, s) ==
  LET q == expenseReq[r] IN
  /\ q.phase = "done"
  /\ \/ q.input.op = "decide" /\ q.input.verdict = s
     \/ q.input.op = "edit" /\ q.seen.status # s

\* The notes are the only history of an expense (GET /:id/history).  The line
\* of the decision that stands is in them, unless an edit that had read the
\* expense before that decision wrote over it.
DecisionNoted ==
  \A x \in Expense : expense[x].status \in Decisions =>
    \E r \in expense[x].notes : Supports(r, expense[x].status)

\* Request r signs d, a state of expense x: it decided as d says and is among the
\* names on d, or it is among them as an edit that had read the opposite decision.
Signs(r, x, d) ==
  LET q == expenseReq[r] IN
  /\ q.phase = "done" /\ q.of = x /\ q.user \in d.validatedBy
  /\ \/ q.input.op = "decide" /\ q.input.verdict = d.status
     \/ q.input.op = "edit" /\ q.seen.status \in Decisions \ {d.status}

\* Among the names on a decided expense is somebody who decided it so, unless the
\* edit of an administrator, who is among them, had read the opposite decision and
\* wrote its names back over those of the one that stands.
VerdictSigned ==
  \A x \in Expense : expense[x].status \in Decisions =>
    \E r \in ExpenseRequest : Signs(r, x, expense[x])

\* The write of request r.
ExpenseServed(r) ==
  expenseReq[r].phase = "read" /\ expenseReq'[r].phase = "done"

-------------------------------------------------------------------------------
(* Claims of the source that the code does not keep: TLC violates them, see *)
(* the README.                                                              *)

\* "Prevent deleting validated or rejected expenses via regular route": what
\* DELETE /:id removes was still pending, or already gone.
DecidedNotDeleted ==
  [][\A r \in ExpenseRequest : ExpenseServed(r) =>
       LET q == expenseReq[r] IN
       q.input.op = "delete" /\ expense'[q.of] # expense[q.of] =>
         expense[q.of].status = "pending"
    ]_expenseVars

\* "Region-scoped accounts only ever read/write their own region": the document
\* a request leaves behind is still in its account's regions.
RegionKept ==
  [][\A r \in ExpenseRequest : ExpenseServed(r) =>
       LET q == expenseReq[r] IN
       \/ expense'[q.of] \in {expense[q.of], GoneExpense}
       \/ expense'[q.of].region \in Reach[q.user]
    ]_expenseVars
===============================================================================
