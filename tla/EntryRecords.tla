----------------------------- MODULE EntryRecords -----------------------------
(***************************************************************************)
(* routes/entries.js: money received is recorded by anyone and then edited,*)
(* soft-deleted and restored by administrators.  Like the expenses, every  *)
(* handler but the creation reads the entry, checks what it read and then  *)
(* updates it by id with no condition, so handlers interleave between the  *)
(* two accesses.  Unlike the notes of an expense, editHistory grows by     *)
(* $push, which loses nothing; but an edit writes all the fields of its    *)
(* form and pushes those of them that differ from the copy it read.        *)
(*                                                                         *)
(* The fields are amount, source, payment method, category and description *)
(* (receivedFrom, which is compared as JSON text, is left out); the region *)
(* is written without being compared.  updatedBy and the times are left    *)
(* out, and refused requests, which change nothing.                        *)
(***************************************************************************)
EXTENDS Staff, Integers, Sequences

CONSTANTS
  Entry,          \* ids of entries, each created at most once
  EntryRequest,   \* requests on existing entries, each served once
  EntryField,     \* the fields of the form
  EntryValue      \* the values that requests name for them

VARIABLES
  entry,      \* entry[e]: the document
  entryReq    \* entryReq[r]: what request r does and has read

entryVars == <<entry, entryReq>>

-------------------------------------------------------------------------------

NoEntry == [status |-> "none"]

Body == [EntryField -> EntryValue]

\* One element of editHistory: its edit, and for some fields what it says they
\* were and became.
Change == [req : EntryRequest,
           changes : UNION {[F -> [from : EntryValue, to : EntryValue]] :
                              F \in SUBSET EntryField}]

EntryDoc == [status : {"active", "deleted"},
             body : Body,
             region : Region,
             deletedBy : SUBSET User,      \* {} is null
             history : Seq(Change)]

EntryInput == [op : {"delete", "restore"}]
              \cup [op : {"edit"}, body : Body, region : Region \cup {"same"}]

NoEntryReq == [phase |-> "idle"]

EntryReq == [phase : {"read", "done"}, user : User, of : Entry,
             input : EntryInput, seen : EntryDoc]

EntryInit ==
  /\ entry = [e \in Entry |-> NoEntry]
  /\ entryReq = [r \in EntryRequest |-> NoEntryReq]

-------------------------------------------------------------------------------
(* The handlers.                                                           *)

\* POST /: in the account's own region when it has only one.
CreateEntry(u, e, b, g) ==
  /\ entry[e] = NoEntry
  /\ InReach(u, g)
  /\ entry' = [entry EXCEPT ![e] = [status |-> "active", body |-> b,
                                    region |-> g, deletedBy |-> {},
                                    history |-> <<>>]]
  /\ UNCHANGED entryReq

\* What the handlers check on the document they read.
MayTouch(u, input, d) ==
  /\ IsAdmin(u)
  /\ CASE input.op = "edit"    -> d.status = "active" /\ input.body # d.body
       [] input.op = "delete"  -> d.status = "active"
       [] input.op = "restore" -> d.status = "deleted"

\* findById and the checks that follow it.  An administrator sees both regions.
ReadEntry(r, u, e, input) ==
  /\ entryReq[r] = NoEntryReq
  /\ entry[e] # NoEntry
  /\ MayTouch(u, input, entry[e])
  /\ entryReq' = [entryReq EXCEPT
       ![r] = [phase |-> "read", user |-> u, of |-> e, input |-> input,
               seen |-> entry[e]]]
  /\ UNCHANGED entry

AnswerEntry(r) == entryReq' = [entryReq EXCEPT ![r].phase = "done"]

\* The fields that differ from the copy that was read, with both values.
Differing(q) ==
  [f \in {f \in EntryField : q.seen.body[f] # q.input.body[f]} |->
     [from |-> q.seen.body[f], to |-> q.input.body[f]]]

\* Mutant: the history is written from the copy that was read.
PushedOnCopy(r, q, d) == Append(q.seen.history, [req |-> r, changes |-> Differing(q)])

\* $push: onto the history as it is now.
Pushed(r, q, d) == Append(d.history, [req |-> r, changes |-> Differing(q)])

EditEntry(r) ==
  LET q == entryReq[r]
      d == entry[q.of]
  IN
  /\ q.phase = "read" /\ q.input.op = "edit"
  /\ entry' = [entry EXCEPT
       ![q.of] = [d EXCEPT !.body = q.input.body,    \* every field, changed or not
                           !.region = IF q.input.region = "same"
                                      THEN d.region ELSE q.input.region,
                           !.history = Pushed(r, q, d)]]
  /\ AnswerEntry(r)

\* status and deletedBy are set together.
SoftDelete(r) ==
  LET q == entryReq[r] IN
  /\ q.phase = "read" /\ q.input.op = "delete"
  /\ entry' = [entry EXCEPT ![q.of].status = "deleted",
                            ![q.of].deletedBy = {q.user}]
  /\ AnswerEntry(r)

\* status: "active", deletedBy: null
Restored(d) == [d EXCEPT !.status = "active", !.deletedBy = {}]

RestoreEntry(r) ==
  LET q == entryReq[r] IN
  /\ q.phase = "read" /\ q.input.op = "restore"
  /\ entry' = [entry EXCEPT ![q.of] = Restored(entry[q.of])]
  /\ AnswerEntry(r)

EntryCreation ==
  \E u \in User, e \in Entry, b \in Body, g \in Region : CreateEntry(u, e, b, g)

EntryArrival ==
  \E r \in EntryRequest, u \in User, e \in Entry, i \in EntryInput :
    ReadEntry(r, u, e, i)

EntryWrite ==
  \E r \in EntryRequest : EditEntry(r) \/ SoftDelete(r) \/ RestoreEntry(r)

EntryNext == EntryCreation \/ EntryArrival \/ EntryWrite

EntrySpec == EntryInit /\ [][EntryNext]_entryVars

-------------------------------------------------------------------------------
(* Properties, which CashRecords puts together with those of the expenses. *)

\* Every document and request is one the schema and the handlers produce.
EntryTypeOK ==
  /\ entry \in [Entry -> {NoEntry} \cup EntryDoc]
  /\ entryReq \in [EntryRequest -> {NoEntryReq} \cup EntryReq]

\* An entry names who deleted it exactly when it is deleted, whatever deletions,
\* restorations and edits overlapped.
DeletionSigned ==
  \A e \in Entry : entry[e] # NoEntry =>
    (entry[e].status = "deleted" <=> entry[e].deletedBy # {})

\* Did an edit after the i-th and up to the j-th read the entry before the i-th?
Stale(h, i, j) ==
  \E k \in (i + 1)..j : Len(entryReq[h[k].req].seen.history) < i

\* The i-th edit of h changed f, and none of the next ones up to the n-th says it did.
LastTold(h, f, i, n) ==
  /\ f \in DOMAIN h[i].changes
  /\ \A k \in (i + 1)..n : f \notin DOMAIN h[k].changes

\* editHistory explains the entry.  It holds every edit that was answered, once
\* each.  What it last says of a field is what the field is, and what it says a
\* field was is what it last said before: unless an edit in between had read the
\* entry earlier, which writes the field back and does not say so.
HistoryExplains ==
  \A e \in Entry : entry[e] # NoEntry =>
    LET h == entry[e].history
        edits == {r \in EntryRequest : /\ entryReq[r].phase = "done"
                                       /\ entryReq[r].of = e
                                       /\ entryReq[r].input.op = "edit"}
    IN /\ {h[i].req : i \in 1..Len(h)} = edits
       /\ \A i, j \in 1..Len(h) : h[i].req = h[j].req => i = j
       /\ \A f \in EntryField, i \in 1..Len(h) :
            /\ LastTold(h, f, i, Len(h)) =>
                 entry[e].body[f] = h[i].changes[f].to \/ Stale(h, i, Len(h))
            /\ \A j \in (i + 1)..Len(h) :
                 LastTold(h, f, i, j - 1) /\ f \in DOMAIN h[j].changes =>
                   h[j].changes[f].from = h[i].changes[f].to \/ Stale(h, i, j)

\* The write of request r.
EntryServed(r) ==
  entryReq[r].phase = "read" /\ entryReq'[r].phase = "done"

-------------------------------------------------------------------------------
(* A claim of the source that the code does not keep: TLC violates it, see  *)
(* the README.                                                              *)

\* "Prevent editing deleted entries": no edit writes to a deleted entry.
DeletedNotEdited ==
  [][\A r \in EntryRequest : EntryServed(r) =>
       LET q == entryReq[r] IN
       q.input.op = "edit" => entry[q.of].status # "deleted"
    ]_entryVars
===============================================================================
