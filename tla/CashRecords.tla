------------------------------ MODULE CashRecords ------------------------------
(***************************************************************************)
(* The money that moves outside the sales: expenses and entries.  Their    *)
(* handlers share one process, its staff and its habit of reading,         *)
(* checking and writing in separate accesses; no handler touches both      *)
(* collections.  MaxRequests bounds the requests on existing records over  *)
(* both; creations are bounded by the ids.                                 *)
(***************************************************************************)
EXTENDS ExpenseRecords, EntryRecords

CONSTANT MaxRequests

ASSUME MaxRequestsAssumption == MaxRequests \in Nat

cashVars == <<expenseVars, entryVars>>

-------------------------------------------------------------------------------

Begun == Cardinality({r \in ExpenseRequest : expenseReq[r] # NoExpenseReq})
         + Cardinality({r \in EntryRequest : entryReq[r] # NoEntryReq})

Init == ExpenseInit /\ EntryInit

OnExpenses ==
  /\ ExpenseCreation \/ (Begun < MaxRequests /\ ExpenseArrival) \/ ExpenseWrite
  /\ UNCHANGED entryVars

OnEntries ==
  /\ EntryCreation \/ (Begun < MaxRequests /\ EntryArrival) \/ EntryWrite
  /\ UNCHANGED expenseVars

Next == OnExpenses \/ OnEntries

Spec == Init /\ [][Next]_cashVars

-------------------------------------------------------------------------------
(* Properties.                                                             *)

\* Every document and request is one the schemas and the handlers produce.
TypeOK == ExpenseTypeOK /\ EntryTypeOK

\* Nobody's decision or deletion is left without its author: whatever racing
\* validations, rejections, edits, deletions and restorations wrote last, an
\* expense names validators exactly when it is decided, all of them with the
\* right to decide, and an entry names who deleted it exactly when it is deleted.
RecordsSigned == DecisionSigned /\ DeletionSigned
===============================================================================
