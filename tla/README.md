# Verification of the DIEU-MERCI point-of-sale backend

TLA+ models of the Node/Express + MongoDB backend in `src/`, checked with TLC and, for the
properties that matter most, proved with TLAPS. The source is the reference: every definition that
models code names the lines it models in `PROJECT.json` ("map"), and every property is preceded by a
comment that says which behaviour of the code it is about.

## 1. The system

One Express process (several may run against one database) serves tills, administrators and
shareholders. All durable state is in MongoDB; a handler is an `async` function that interleaves
with every other handler at each `await`. Some sequences of writes run in
`session.withTransaction`, most do not.

| Part | Code | State | Operations | What is hard | What makes it correct |
|---|---|---|---|---|---|
| Sales ledger | `routes/sales.js`, `utils/saleCreation.js`, `utils/saleMutations.js` | `Sale` documents, `Product.stock` | create, sync, edit, void, delete | pre-checks outside the transaction, edits from an old read, stock returned on two paths | no overselling; shelf + held = entered; a sale takes and returns its stock once |
| Sale intake | `POST /api/sales`, `POST /api/sales/sync` | `clientSaleId`, `barcodeToken` unique indexes | offer, look up, create, replay | lost answers, copies in flight, crash after commit, offline window | one receipt makes one sale; the till learns it in the end, and about its own sale |
| Products | `routes/products.js` | `Product` | create, edit stock, delete | level written after an earlier read | the levels and the sales explain the stock |
| Refresh sessions | `utils/sessionTokens.js`, `routes/auth.js`, `models/RefreshSession.js` | `RefreshSession` rows | login, refresh, logout, revoke, purge | concurrent tabs, retries, crash between claim and create, TTL | one heir a session, fixed end, ended stays ended |
| User administration | `routes/users.js`, `models/User.js` | `User`: role, status, isActive, tokenVersion | approve, reject, suspend, reactivate, role, region, password, delete | read–check–save on whole documents, partial saves by Mongoose | an active administrator remains; status and isActive agree; nobody is let in by accident |
| Login throttle | `middleware/loginThrottle.js`, `models/LoginAttempt.js` | `LoginAttempt` counters | fail, succeed, lock, unlock | five accesses a failure, any of which may fail, window resets, TTL, restarts | the limit locks, a lock holds, the tries of a window are bounded |
| Expenses, entries | `routes/expenses.js`, `routes/entries.js` | records with a status, notes, `editHistory` | create, validate, reject, edit, delete, restore | status checked, then written by id; notes extended from an old copy | decisions are signed by who made them and noted; the history explains the entry |
| Rates, categories | `routes/exchangeRates.js`, `routes/categories.js`, `scripts/populateCategories.js` | active rate, names | set, correct, deactivate; create, add defaults | deactivate-then-insert, read-then-insert | a replaced rate stays replaced, there is a rate unless a setting failed half-way; doubles come from an overlap only |
| Customers | `routes/customers.js`, `utils/walkInCustomer.js` | `Customer` and its statistics, the walk-in record | upsert, recalculate, delete, ensure | recalculation outside a transaction, find-then-create | statistics equal the sales; the walk-in record stays |
| Sale arithmetic | `utils/saleIntegrity.js` | none | totals, allocation of charges, shares | rounding of fractions of a cent, at three places | the parts add up to the whole |
| Reports | `routes/reports.js`, `utils/reporting*.js`, `utils/cashflowSeries.js` | none | aggregate | calendar boundaries, sales dated ahead of the clock, two computations of one number | totals agree; what is shown is what is reported |
| Scope and permissions | `utils/regionScope.js`, `utils/saleAccess.js`, `middleware/*` | none | decide | several layers | the layers agree |
| Startup maintenance | `index.js` | all collections | backfill, repair | runs once after a deployment | — |
| Codes, validation, audit, health | `utils/barcodeId.js`, `utils/saleCode.js`, `utils/validate.js`, `utils/audit.js` | audit log | format, check, append | audit written after the commit, best effort | — |

They interact through shared documents only: sales and products share `stock`; sales and customers
share the statistics; users, sessions and the access-token middleware share `tokenVersion`; there is
no message queue and no in-process cache of documents. The till and the browser are outside the
repository and are modelled from how the handlers are written to be called.

`PROJECT.json` lists every hazard found, at its line, with the properties that cover it.

## 2. Modules

```
StockLedger              what the shop promises about stock (abstract)
   ^ refined by
SaleLedger               handlers of sales and products, cut at every await
SaleIntake               a till retrying one receipt against the server
RefreshSessions          login, rotation, logout, revocation, expiry
UserAdmin                administrators changing accounts, and each other
LoginThrottle            failed logins counted and locked, access by access
Staff                    who is behind a request, and what its queries match
   ^ extended by
ExpenseRecords, EntryRecords
   ^ extended by
CashRecords              requests on both collections
ExchangeRates, Categories
   ^ extended by
ReferenceData            requests on both collections
Customers                statistics under sales, recalculations and deletions
SaleShares               charges over lines, shares of regions (no state)
ReportCalendar           periods and buckets (no state)
   ^ extended by
Reports                  one report read while sales change
Sums                     what reduce and $sum compute (no state; used by the ledger, the
                         intake, the customers, the shares and the calendar)
```

For a module `X` with a run, `MCX` instantiates it and `X.cfg` (and its variants) bound it.
Theorems are in `SumsProofs`, `SaleLedgerProofs`, `SaleIntakeProofs`, `RefreshSessionsProofs`,
`AccountProofs` (UserAdmin and LoginThrottle), `RecordsProofs` (CashRecords and ReferenceData),
`CustomersProofs` and `ReportsProofs` (SaleShares, ReportCalendar and Reports). A module that shares
its proof module with another has its name in its operators (`ThrottleSpec`, `ReferenceInit`).

**StockLedger** knows shelves, sales that hold units, and three moves (sell, amend, close) that each
exchange units between the shelf and one sale. It has no requests, reads or versions.

**SaleLedger** models the handlers. `creation[s]`, `edit[e]` and `keeper[k]` are the requests, with
what each has read so far. A creation looks its lines up one product at a time (`CheckLine`, line
160–182 of `saleCreation.js`) and then commits (`CommitSale`): guarded decrements and the insert,
both or neither. An edit remembers `originalSale` (`ReadSaleForEdit`) and commits deltas computed
from it, filtered on its `updatedAt` (`CommitEdit`). A void and a deletion read inside their
transaction and are one step. A stock edit is a read and a later write of the level (`ReadProduct`,
`WriteStock`). An item list is reduced to two numbers a product — the sum over its lines and the
largest line — because the pre-check compares lines one by one and the transaction compares sums.

**SaleIntake** cuts the same creation at its retries: look-up by `clientSaleId`, stock pre-check,
transaction with its unique indexes, the look-up of the catch block, and the answer. Several copies
of a request are in flight; a copy may die at any point (`Lose`); the offline window may pass
(`Expire`); sales may be edited, voided and deleted meanwhile. All products are one counter here;
lines and catalogue are SaleLedger's.

**RefreshSessions** has one account whose logins (families) hold tokens. A request reads its row,
reads the user, claims the row and creates its successor in separate steps, with the clock reading
it took at the start, as `rotateSession` does. Requests may die between steps, answers may be lost,
and a replaced token may be presented by somebody who kept it (`PresentCopy`). Administrators change
the account, the clock ticks, and the TTL index purges rows.

**UserAdmin** has administrators whose requests authenticate (`Authenticate`), load an account and
return early on its status (`Load`), count the other administrators where the handler does
(`Count`), and save (`Save`) or delete (`Delete`). A save works on the copy that was loaded:
`Changes` is what the handler makes of it, `Synced` the pre-save hook, and `Written` the update that
Mongoose sends, which has only the paths that differ from the load and lands on the document as it
is by then. `admitted` and `raced` are history: who was ever let in by an administrator, and whether
a write fell between the load and the write of another request. Roles other than `admin` are one
role; profiles, module permissions and regions change none of the modelled fields, except that a
change of region raises `tokenVersion`. Shops start with accounts whose flags agree.

**LoginThrottle** follows one counter through `isBlocked`, `recordSuccess` and the accesses of
`recordFailure`: restart an elapsed window, find-and-increment, the insertion of the upsert, the
second count after a duplicate key, and the lock. Each failure works with the instant at which it
began (`login[s].now`), which other failures may have left behind; a failure takes at most `MaxStall`,
and the module assumes a stall shorter than a lock (a lock lasts two hours). Any access
may fail (`Break`): the handler answers 500 (`auth.js:114`) and makes none of the accesses that were
still to come; a restart (`Restart`) does the same to all logins under way. `late`, `missed` and
`dropped` are history: whether the lock came from a count that was over by then, whether a lock due
in this count was never written, and how many such locks there were.

**CashRecords** puts **ExpenseRecords** and **EntryRecords** side by side over **Staff** (roles and
regions as `middleware/auth.js` leaves them). Each handler is a read with its checks (`ReadExpense`,
`ReadEntry`) and a write by id. An expense's notes are the set of the requests whose line is in
the text. An entry has some fields (`EntryField`, two in the run); an edit writes all of them back and
pushes on `editHistory` those that differ from the copy it read (`Differing`, `Pushed`). A write
repeats the region filter and nothing else, so what it finds may be deleted, decided or edited; a validation that finds nothing
answers with null and an edit with an error, as the code does. (A refused request writes nothing and
is no step.)

**ReferenceData** puts **ExchangeRates** (deactivate all, then insert, which may be refused while what
was deactivated stays so, `FailRate`; load, `save()` of the assigned paths) beside **Categories** (read all names, insert those whose key is new; the collection's index
is on the name, not on the key, and a duplicate does not hold back the other names of a request).
`replaced`, `retired` and `madeBy` are history.

**Customers** has the sale handlers as far as customers go: `Commit` is a transaction that upserts a
customer, writes the sale and recalculates the statistics of everyone concerned. The
recalculation route makes the same aggregate and writes it later (`ReadStats`, `WriteStats`). A
sale's phone is compared with the walk-in's before it is trimmed, so a sale may name that phone as
one like any other (`Upserts`). Deletions read the flag they check; `ensureWalkInCustomer` finds,
creates or flags in separate steps. `overtaken` is history: whose statistics were last written from an old aggregate.

**SaleShares** is the arithmetic of money. Totals, charges and net lines are whole cents; the amount
of a line is `price * quantity`, which the code does not round, and is counted in fractions of a cent
(`Cent` of them to one, any number). `Round` is `Math.round`, at the places where the code has it: the
sum of the lines for the total, each line for its net, and a legacy line without a subtotal in
`calculateRegionTotal` but not in the pipeline. `Spread` is `allocate` of `saleIntegrity.js`;
`RegionTotal` sorts by fractions as `calculateRegionTotal` does, `RegionRevenue` counts ranks as the
aggregation expression does. The code divides in binary floating point; the model divides
exactly. **ReportCalendar** has the period of a query (`Frame`), its buckets (`Keys`, with the bound
of the loop) and what has elapsed of it (`Elapsed`), over a calendar that is a parameter. **Reports**
composes them: one cash-flow request takes its plan from one reading of the clock and then makes
two aggregations, before, between and after which sales are made, edited and voided. A sale may be
dated as far back as `OfflineWindow` and as far ahead as `FutureTolerance` (five minutes in the code).

### What the models assume about the code's environment

* *Transactions are one step.* `withTransaction` reads a snapshot; a write that meets a concurrent
  write of the same document aborts, and the driver runs the callback again. What commits is
  therefore what the callback does on the state it commits to. Reads outside the transaction are
  separate steps. (The callbacks of void and deletion write the sale they read, so a stale read of
  it conflicts.)
* *`updatedAt` differs between two writes of one document.* It has millisecond resolution; two
  writes within one millisecond would share it and `Unchanged` would miss the second.
* *A crash* is a handler that never continues. Without fairness every handler may do so, which is how
  SaleLedger, CashRecords, ReferenceData, Customers and Reports have it; a database error that is
  answered 500 leaves the same state there, because what was written stays and nothing more is
  written. Where the handler's end matters to the rest it is an action: `Lose` in SaleIntake and
  RefreshSessions, `Abandon` in UserAdmin (each frees the request for another), `Break` and `Restart`
  in LoginThrottle, `FailRate` in ExchangeRates.
* `updateMany` of `revokeFamily` is one step. MongoDB does it row by row; the rows of a family other
  than its live one are rotated already and no rotation can claim them, so the order is not visible
  except through the creation race that is modelled.
* A `reservation` is a sale: every stock rule treats the two alike (`SALE_RECORD_TYPES`).
* Of several violated unique indexes the server reports one; which one is not specified, so the
  model chooses.
* Quantities and stock are naturals. `utils/validate.js` accepts any positive number, fractions too; the
  modelled rules only compare, add and subtract them, and the rounding of binary fractions is left out.

## 3. Runs

| Run | Shows | Bounds |
|---|---|---|
| `sale_ledger` | types and no negative stock; conservation; optimistic edits; refinement of StockLedger | 2 products, 2 sales, 2 edits, 1 stock edit, levels 0..2, orders "one of each" and "two lines of one product" |
| `sale_intake` | one sale a receipt; stock moves once; answers are true | 3 receipts of 1, 2 and 1 units, two of them with one `clientSaleId`, 2 units in stock, 2 requests in flight, 1 deletion an id |
| `intake_retry` | a sale that landed is acknowledged in the end | 1 receipt, 2 requests, fairness below |
| `refresh_sessions` | one heir; fixed end and version; ended stays ended | 1 login, 3 tokens, 2 requests, idle 2, session 3, grace 1, clock to 3, 1 account change |
| `user_admin` | nobody let in or brought back by accident; the count and the hook are right without races | 3 accounts, 3 requests |
| `login_throttle` | the limit locks; tries are bounded; a lock ends early only on purpose | 3 logins at a time, limit 3, window 2, lock 4, a failure stalls 1, clock to 6, 2 locks lost in failed accesses or restarts |
| `cash_records` | decisions signed, by who made them, and noted; history explains | 1 expense, 1 entry of 2 fields with 2 values, 3 requests of an administrator, a manager of both regions and a cashier of one |
| `reference_data` | doubles come from an overlap only; a rate is missing only after a setting left none or one was deactivated by hand; served categories exist | 3 rates of 2 values and 2 dates, 2 corrections or deactivations, 3 category requests over 3 names of 2 keys, 4 requests in all |
| `customers` | statistics equal the sales unless overtaken; the walk-in record stays | 2 sales of 1 or 2, 2 phones and the walk-in's, 3 ids, 1 edit, 1 recalculation, 1 deletion, 2 calls of `ensureWalkInCustomer` |
| `reports` | shares add up; shown is reported; the series agrees with the totals | 1 sale of 2 lines with half cents or 3 uneven lines in two regions with discount and charges, or an older one without codes or subtotals, dated 1 ahead or 1 back; months of 2, 1 and 1 days of 2 hours; clock to 4; any query |
| `refresh_logout_race` (violation) | a logout misses the row a rotation is about to create | 2 tokens, 2 requests |
| `last_admin` (violation) | two administrators remove each other | 2 accounts, 2 requests |

Why the bounds are enough: each hazard needs two actors at most (two requests racing, or one request
and one administrator), and every actor has a step between its read and its write, so two of each
give all the orders; stock of 0..2 has levels at which one of two orders fits, both fit and none
fits; two products make a partial failure possible. The clock of `refresh_sessions` passes the idle
end, the grace and the session end, and three tokens make a chain of two rotations. Three
requests of `user_admin` put an approval, a rejection and a third change of one account between the
load and the write of each other; three of `cash_records` do so with a decision, an edit and a
deletion or restoration. In `login_throttle` a window and a lock both end before the clock does, and
as many logins as the limit run at the same time, so that all can pass the check before the first
lock, and two locks may be lost, so that a count passes the limit twice without one. The handlers of the two halves of `cash_records` and of `reference_data` share no document;
the halves run side by side to share a bound on the requests. The periods of `reports` have one
hour, several days, several months, an end in the future and a bound on the buckets that some of
them reach; one sale is enough because a report treats each sale alone and adds.

Deadlock checking is off where the bounds stop the system (every request served, every token
issued, every account deleted, the clock at its end): the real server goes on accepting requests.

Symmetry is used in safety runs only, over sets that no definition orders.

**Fairness** (`FairSpec` of SaleIntake). Each step of *some* request for a receipt is strongly fair.
The till keeps offering until it is told "taken" (it is the client the sync endpoint is written
for), Node runs every callback that becomes ready, and losses do not spoil every attempt. Weak
fairness would be too little: a loss disables the step of an attempt each time. No fairness is
assumed of edits, voids, deletions or the clock.

Each property of a passing run has a mutant: a definition changed the way a plausible bug would
change the code (a missing guard, no `updatedAt` filter, the age check before the look-up, a
successor with a fresh session end, ...), under which TLC finds the property violated. The mutants
stand beside the definitions they change, as `Mutant:` operators, which nothing else uses.

## 4. Disagreements found

Two runs show the disagreements with the widest consequences by a trace:

1. `utils/sessionTokens.js:120` (`refresh_logout_race`, `LogoutEndsSession`) — a logout between the
   claim and the creation of a rotation leaves the successor live, although "the session can't be
   renewed anymore".
2. `routes/users.js:86` (`last_admin`, `SomeActiveAdmin`) — the count of other administrators and
   the save are two calls: two administrators who remove each other leave none, though "the shop
   must always keep at least one active admin".

The following are stated as definitions at the end of their modules, which no run lists; TLC finds a
trace against each one when it is put in the configuration of its module:

3. `utils/saleCreation.js:258` (`MismatchIsConflict`) — the replay after a lost race does not compare
   payloads: two different receipts that share a `clientSaleId` are both told "taken", though
   `sales.js:510` says "a semantic mismatch means the id was reused [...], which is a conflict, not a
   safe replay". The bounds of `sale_intake` contain the case, and `TakenIsOwnSale` says that it is
   the only one.
4. `routes/expenses.js:870` (`DecidedNotDeleted`) — "Prevent deleting validated or rejected expenses
   via regular route" checks the copy that was read; an expense validated since then is deleted.
5. `routes/entries.js:413` (`DeletedNotEdited`) — "Prevent editing deleted entries", in the same way.
6. `utils/saleIntegrity.js:73` (`NetsReconcile`) — the net lines of a sale "reconcile" with its total
   (`saleIntegrity.test.js:67`) only when each `price * quantity` is whole cents: two lines of 1.5 at
   0.99 have a total of 2.97 and nets of 1.49 each. `SharesAddUp` bounds the difference by half a cent
   for each line that is not whole cents.
7. `routes/products.js:243` (`AuditExplainsStock`) — the audit entry of a stock edit takes "before"
   from a read that sales may overtake.
8. `routes/sales.js:854` (`VoidedRecordFrozen`) — the expense branch of an edit does not repeat its
   status check, so a record voided since it was read is edited. `VoidedChangesExplained` shows that
   this is the only way.
9. `utils/saleCreation.js:257` (`LostRaceIsReplay`) — a lost race against one's own copy is a 400/409
   when the last units went to the winner, and a 500 when `barcodeToken` is the index reported.
10. `utils/sessionTokens.js:97` (`ReuseMeansCopied`) — "it was copied" is not what a rotated token
    means when the answer that replaced it was lost.
11. `models/ExchangeRate.js:23` (`OneActiveRate`) — "only one active rate at a time" fails when two
    settings overlap; `getCurrentRate` then takes the latest date, or one of them in a tie.
12. `models/Expense.js:79` (`RegionKept`) — "region-scoped accounts only ever read/write their own
    region": the filter is on the document that is found, and an edit may move it to another region.

Smaller ones, met while reading and not stated as properties:

* `middleware/loginThrottle.js:8` says "5 failures within 1 minute"; the window is fixed at its first
  failure, so five failures within a minute that straddle two windows do not lock.
* `routes/exchangeRates.js:105`: a rate below 0.0001, or notes of more than 500 characters, pass the
  checks of the handler and are refused by the schema after every other rate was deactivated; the
  shop is without a rate until the next setting (`LeftByASetting` of `RateUnlessLeft`).
* An edit of an entry writes every field of its form and records those that differ from the copy it
  read (`entries.js:472`): what another edit changed in between is reverted with no trace in
  `editHistory` (`Stale` of `HistoryExplains`).
* A sale dated ahead of the clock is in the series of a period that is not over and not in
  `comparison.current`. The comment at `reports.js:141` speaks of `/analytics`, which counts the whole
  period and agrees; `TotalsAgree` states both, with the difference (`DatedAhead`).
* A line of a legacy sale with the name of a region and no code is counted by the reports of that
  region and left out of what `calculateRegionTotal` shows; `ShownIsReported` excludes such lines
  (`Coded`); nor has a line without a subtotal whose price * quantity is not whole cents the same
  weight in both.
* `listBucketKeys` stops after 1000 buckets; a monthly series longer than 83 years loses its end
  (`Truncated`, excluded from `TotalsAgree`).
* An edit of an entry that changes its region only is refused as "no changes", and a move between
  regions beside another change is not recorded in `editHistory`.
* Charges that nearly cancel a subtotal can round the net total of a line to minus one cent, which
  the schema refuses with a validation error (`Storable`).

## 5. Proofs

All theorems hold for every value of the constants that satisfies the modules' named assumptions
(`OrderAssumption`, `SalesAssumption`, `IntakeAssumption`, `SessionAssumption`, `ThrottleAssumption`,
`StaffAssumption`, `RateAssumption`, `CategoryAssumption`, `CustomersAssumption`,
`SharesAssumption`, `CalendarAssumption`, `ReportsAssumption`, `MaxRequestsAssumption`, `MaxReferenceRequestsAssumption`;
UserAdmin needs none), and TLC evaluates those on every run. Three of them say that the set of ids
of sales is finite, which a sum over sales needs.

**What the proofs about numbers rest on (SumsProofs).** `SumOver` is a fold of the community modules,
a recursive function, and the induction theorems of the proof library take the property as an
operator, which the installed provers cannot instantiate. Two lemmas take it as a set instead:
`SetInduction` (over the subsets of a finite set, from the library's fact that strict inclusion is
well founded there) and, from it, `NatInductionSet` (over the naturals). With them `UnfoldingExists` and
`SumUnfolds` show that the fold is what its equation says, and the rest follows: `SumInsert`,
`SumRemove`, `SumChange` (one summand changes), `SumAdd` (linearity), `SumBound`, `SumClasses` (a
sum is the sum over the classes of a partition), `SumSplit` (in two parts) and `SumSupport` (what is
zero does not count).

* **SaleLedgerProofs.** `TypeCorrect`. `EditsAreOptimistic` from the inductive invariant
  `TypeOK /\ RequestsMatchDocs /\ EditSnapshotCurrent`: by itself EditSnapshotCurrent is not
  inductive, because a creation could write a document that an edit has already read; that
  documents appear only once is what RequestsMatchDocs adds. The argument is `DocStep`: each action
  leaves a document, creates it, rewrites it under a new version, or deletes it.
  `LedgerImplemented` then maps every action to a ledger move or a stutter; the case that needs the
  invariant is `CommitEdit`, where `old` must be what the sale holds now. `VoidedStays` uses the same
  invariant: a sale's edit that passes its filter found the sale open. `StockIsAccountedFor` follows
  from the refinement's moves: each is an exchange of units between the shelf and one sale, which
  `SumChange` turns into a change of the sum (`SoldMoves`, `ExchangeBalances`). Conservation alone is
  not inductive, because a product that is created has to start with nothing sold; `UnbornUnsold`
  adds that.
* **SaleIntakeProofs.** `TypeCorrect`, `OneSaleForOneReceipt`, `StockFollowsSales` and `TakenIsTrue`, for any
  receipts, those that share an id included. The invariant adds that an id has one live document at most, that
  `made - removed` counts it, and that the document was sold as some receipt says. For the stock
  `Balanced` adds that the documents are finitely many, which the sum over them needs.
* **RefreshSessionsProofs.** `NeverTwoHeirs`, `NeverProlonged`, `NeverRevived`. The invariant adds
  that tokens in anybody's hands were issued (so a fresh token is nobody's), and that a rotation
  under way carries what its row and its login say. The argument is `HeirStep`: a step takes heirs
  away, passes one from a row to the rotation that claims it or on to the new row, or gives one to
  a login that has none.
* **AccountProofs, user administration.** `TypeCorrect`, `StrangersRefused`, `NeverLiftedByAccident`,
  `AdminKept`, `FlagsAgree`. The invariant adds that accounts nobody let in are pending or rejected
  in the database *and in every copy a request holds* (`StrangersWait`), that what a request holds
  passed its handler's check (`HeldWasAllowed`), and, while nothing raced, that a held copy is the
  document (`HeldIsCurrent`) and that the count still stands (`CountStands`). `ChangesShape` says once
  what the handlers may do to a status or a role, `WrittenShape` what the hook and Mongoose make of
  it.
* **AccountProofs, login throttle.** `ThrottleTypeCorrect`, `LimitIsLocked`, `LocksAreEarned`,
  `LockStays` and `TriesAreBounded`, for any limit, window, lock and number of logins. The invariant
  adds that the instant of a failure is at most `MaxStall` behind the clock (`Prompt`), that a failure
  about to lock the count it reached finds it there (`MineIsThere`), and that a lock never outlasts
  its document (`KeptWhileLocked`). `LockStays` rests on `MaxStall < Lock`: a lock written late still
  ends in the future. `TriesAreBounded` counts who may still add to a document: before its lock every
  count above the limit belongs to a failure that is about to lock, after it each login that can
  still add to the count has left room for itself (`Room`); a lock ends after everybody who passed
  the restart of its window (`Timely`), and each lock that was due and is never written raises the
  bound by one (`Allowance`). It assumes `StallsAreShort`, that two stalls are shorter than a lock (a
  lock is two hours). The assumption is needed: with a window of 1, a stall of 2 and a lock of 4, TLC
  finds a count past the bound: a login is let in when the lock has run out, a failure that stalled
  then locks the same count again, and the login adds to it instead of starting anew.
* **RecordsProofs, expenses and entries.** `TypeCorrect`, `AlwaysSigned`, `AlwaysNoted`, `AlwaysBacked`,
  `HistoryTold`, all from `ExpenseInv` and `EntryInv`. Signatures are not inductive alone: an
  administrator's edit writes the validators it read, so the invariant says of every copy a request
  holds that it is itself a document that is signed and backed by a decision as its status asks
  (`SignedDoc`, `BackedDoc`), and that its request had the right it was given; what is decided stays
  decided until it is gone. For the entries `Written` is, for each element of `editHistory`, all that
  its edit wrote, recorded or not. `EntryInv` says that the fields are what the last one wrote, that
  each change records exactly what differs between what its edit wrote and what it had seen, and that
  what it had seen is what some earlier one wrote (`Standing`, `Sees`). `HistoryExplains` follows: a
  field that no later change records has the value it had, unless one of them had seen less.
* **RecordsProofs, reference data.** `ReferenceTypeCorrect`, `ReplacedForGood`, `SomeRateRemains`,
  `TwinsOverlapped`, `ServedAreThere`. `RateInv` says that what was replaced is inactive for good,
  since no handler sets `isActive` back; with that `RateUnlessLeft` is inductive, because a setting
  that clears the rates has replaced all there are. `CategoryInv` says that what a request saw is
  still there (no route deletes a category) and that the names it adds were missing from what it
  saw, so that two makers of one key cannot have seen each other.
* **CustomersProofs.** `TypeCorrect`, `StatisticsFollowSales`, `WalkInStays`. Two halves that share
  only the type invariant. The statistics are not inductive alone: an edit recalculates for the
  customer it read and for the new one, so that customer must be the one of the sale
  (`EditSnapshotCurrent`), a recalculation under way must hold the numbers of now unless a sale
  overtook it (`RecalcCurrent`), and a customer that is made has no sales yet (`UnbornUnnamed`). The
  walk-in record stays because a phone has one customer (`UniquePhones`) and a deletion or a call
  of `ensureWalkInCustomer` under way still means the customer with the phone it read
  (`RemovalsRead`, `EnsuresFound`).
* **ReportsProofs, shares.** `SameShare`: the sort of the JavaScript and the ranks of the aggregation
  give every region the same cents. `SharesAreTheTotal`: the shares are the whole total, for any
  total and weights, because the remainders add up to none, one or two wholes (`RemaindersLeft`), as
  many codes get a cent, and a code without a line is never among them (`CentsGiven`). The same of
  the charges over the lines of a basket, however many there are (`SpreadIsTheAmount`): the
  remainders add up to fewer wholes than there are lines, and in any total order exactly `n` elements
  have fewer than `n` before them (`FirstOnesAre`). The nets are then near the total by a lemma about
  rounding alone: amounts that are rounded one by one differ from their rounded sum by at
  most half a cent for each one that is not whole (`RoundsAreNear`, `NetsAreNear`).
* **ReportsProofs, calendar.** `DailySeriesAreComplete`: the bound of `listBucketKeys` never cuts a series
  by hour or by day short. `KeysCover`: a list that is not cut short has the bucket of every instant
  of its period, for months of any lengths. `StepsExist` and `CursorSteps` unfold the recursion of
  the cursor, as SumsProofs does for the sum.
* **ReportsProofs, reports.** `TypeCorrect`, `SharesAlwaysAddUp`, `ShownAlwaysReported`,
  `TotalsAlwaysAgree`. The invariant adds that no sale is dated further after the clock than the
  tolerance (`NotFarAhead`), that a total is what the lines of its sale say (`LinesStand`), that the
  elapsed part of a period has all of its sales but those of the tolerance (`PeriodStands`, which
  needs `NotFarAhead` when the request comes), and that what was read is what would be read now,
  until a sale changes (`ReadingsStand`). `TotalsAlwaysAgree` is then `SumClasses` over the buckets,
  which `KeysCover` makes a partition of the sales of the period, and `SumSplit` at the end of what
  has elapsed.

The strengthened invariants hold on the bounds of section 3 as well: each was checked with TLC before
it was proved.

Every invariant and every action property of a passing run has a theorem. Only model-checked are
`SoldIsAcknowledged` (liveness under fairness, out of the prover's reach), the two runs that expect a
violation, and the properties of section 4 that no run lists.

## 6. Not modelled

* **Startup maintenance** (`index.js`). The backfills run once after a deployment, on documents that
  older versions of the program made. No handler of this one makes such documents, so there are no
  initial states to give a model from the source. One hazard stands: the repair of a sale's items
  writes back an array it read earlier, and an edit in between would be undone.
* **Module permissions** (`requireModulePermission`): a table looked up when a request enters.
* **Codes, validation, audit, health and conflict reports**: formatting, stateless checks, append-only
  records and read-only routes. The one place where an audit entry means more, the stock edit, is in
  SaleLedger.
* **Parts of modelled components**: prices, names, profiles and user history; the address counter of
  the throttle, which runs through the same steps beside the account's; the profit, category,
  product and customer sections of the analytics, which sum other fields over the same sales; the
  legacy free text of an expense (reason, recipient, mails).
* **Floating point**: quantities may be fractions in the code and are naturals where stock is counted; an
  amount of money is exact, in fractions of a cent, and a quotient is compared exactly where the code
  compares binary fractions.
* **Transactions from snapshots and conflicts**: assumed to be one step, see section 2. Deriving this
  would model the database and not this program.
