----------------------------- MODULE ExchangeRates -----------------------------
(***************************************************************************)
(* routes/exchangeRates.js and models/ExchangeRate.js.  Setting a rate is  *)
(* three accesses of the collection with nothing around them: read the     *)
(* current rate for the audit, deactivate every active rate, insert the    *)
(* new one.  Correcting and deactivating a rate each load a document and   *)
(* save it; save() writes only the paths that were assigned.               *)
(*                                                                         *)
(* The insert validates what the checks before it let through (notes of    *)
(* more than 500 characters, a rate below 0.0001), after the update: it    *)
(* may fail there, or at the database, and the request is refused.         *)
(*                                                                         *)
(* The notes and the role check are left out, and refused corrections,     *)
(* which change nothing.  updateMany is one step: a rate inserted while it *)
(* scans counts as inserted before or after it.  A request whose process   *)
(* dies takes no further step.                                             *)
(***************************************************************************)
EXTENDS Integers

CONSTANTS
  RateId,       \* the rates that may be set, one for each POST request
  RateFix,      \* PUT and PATCH /:id/deactivate requests, each served once
  RateValue,    \* rates that requests name
  RateDate      \* effectiveFrom dates

RateAssumption == RateDate \subseteq Int

ASSUME RateAssumption

VARIABLES
  rate,      \* rate[x]: the document
  setting,   \* setting[x]: the POST request that makes x
  fixing,    \* fixing[k]: the request k on an existing rate
  replaced,  \* replaced[x]: the rates there were when the request for x
             \* deactivated them (history variable)
  retired    \* rates deactivated by hand (history variable)

rateVars == <<rate, setting, fixing, replaced, retired>>

-------------------------------------------------------------------------------

NoRate == [made |-> FALSE]

RateDoc == [made : {TRUE}, value : RateValue, from : RateDate,
            isActive : BOOLEAN]

NoFix == [phase |-> "idle"]

Fix == [phase : {"read", "done"}, op : {"correct", "deactivate"},
        of : RateId, value : RateValue, seen : RateDoc]

Made == {x \in RateId : rate[x].made}

ActiveRates == {x \in Made : rate[x].isActive}

\* getCurrentRate: the active rate with the latest date, one of them in a tie.
CurrentRates == {x \in ActiveRates :
                   \A y \in ActiveRates : rate[y].from <= rate[x].from}

RateInit ==
  /\ rate = [x \in RateId |-> NoRate]
  /\ setting = [x \in RateId |-> "idle"]
  /\ fixing = [k \in RateFix |-> NoFix]
  /\ replaced = [x \in RateId |-> {}]
  /\ retired = {}

-------------------------------------------------------------------------------
(* POST /.                                                                 *)

\* getCurrentRate, which only the audit entry uses.
ReadCurrent(x) ==
  /\ setting[x] = "idle"
  /\ setting' = [setting EXCEPT ![x] = "clearing"]
  /\ UNCHANGED <<rate, fixing, replaced, retired>>

\* Mutant: only the current rate is deactivated.
ClearedCurrent == [x \in RateId |-> IF x \in CurrentRates
                                    THEN [rate[x] EXCEPT !.isActive = FALSE]
                                    ELSE rate[x]]

\* updateMany({ isActive: true }, { isActive: false })
Cleared == [x \in RateId |-> IF x \in ActiveRates
                             THEN [rate[x] EXCEPT !.isActive = FALSE]
                             ELSE rate[x]]

ClearRates(x) ==
  /\ setting[x] = "clearing"
  /\ rate' = Cleared
  /\ replaced' = [replaced EXCEPT ![x] = Made]
  /\ setting' = [setting EXCEPT ![x] = "inserting"]
  /\ UNCHANGED <<fixing, retired>>

\* Mutant: the default of isActive is lost.
InsertedInactive(n, d) == [made |-> TRUE, value |-> n, from |-> d,
                           isActive |-> FALSE]

\* Mutant: the document without the default of isActive.
InsertedWithoutDefault(n, d) == [made |-> TRUE, value |-> n, from |-> d]

\* new ExchangeRate: isActive by default, whatever its date.
Inserted(n, d) == [made |-> TRUE, value |-> n, from |-> d, isActive |-> TRUE]

InsertRate(x, n, d) ==
  /\ setting[x] = "inserting"
  /\ rate' = [rate EXCEPT ![x] = Inserted(n, d)]
  /\ setting' = [setting EXCEPT ![x] = "done"]
  /\ UNCHANGED <<fixing, replaced, retired>>

\* save() fails: 400 for a validation error, else 500.  What updateMany did stays.
FailRate(x) ==
  /\ setting[x] = "inserting"
  /\ setting' = [setting EXCEPT ![x] = "failed"]
  /\ UNCHANGED <<rate, fixing, replaced, retired>>

(* PUT /:id and PATCH /:id/deactivate.                                     *)

ReadRate(k, x, op, n) ==
  /\ fixing[k] = NoFix
  /\ x \in Made
  /\ op = "deactivate" => rate[x].isActive
  /\ fixing' = [fixing EXCEPT ![k] = [phase |-> "read", op |-> op, of |-> x,
                                      value |-> n, seen |-> rate[x]]]
  /\ UNCHANGED <<rate, setting, replaced, retired>>

\* Mutant: the whole document is written back.
CorrectedWhole(q, d) == [q.seen EXCEPT !.value = q.value]

\* save() after existingRate.rate = parsedRate
Corrected(q, d) == [d EXCEPT !.value = q.value]

CorrectRate(k) ==
  LET q == fixing[k] IN
  /\ q.phase = "read" /\ q.op = "correct"
  /\ rate' = [rate EXCEPT ![q.of] = Corrected(q, rate[q.of])]
  /\ fixing' = [fixing EXCEPT ![k].phase = "done"]
  /\ UNCHANGED <<setting, replaced, retired>>

DeactivateRate(k) ==
  LET q == fixing[k] IN
  /\ q.phase = "read" /\ q.op = "deactivate"
  /\ rate' = [rate EXCEPT ![q.of].isActive = FALSE]
  /\ fixing' = [fixing EXCEPT ![k].phase = "done"]
  /\ retired' = retired \cup {q.of}
  /\ UNCHANGED <<setting, replaced>>

RateArrival ==
  \/ \E x \in RateId : ReadCurrent(x)
  \/ \E k \in RateFix, x \in RateId, n \in RateValue :
       \E op \in {"correct", "deactivate"} : ReadRate(k, x, op, n)

RateWrite ==
  \/ \E x \in RateId : ClearRates(x) \/ FailRate(x)
  \/ \E x \in RateId, n \in RateValue, d \in RateDate : InsertRate(x, n, d)
  \/ \E k \in RateFix : CorrectRate(k) \/ DeactivateRate(k)

RateNext == RateArrival \/ RateWrite

RateSpec == RateInit /\ [][RateNext]_rateVars

-------------------------------------------------------------------------------
(* Properties.                                                             *)

\* Every document and request is one the schema and the handlers produce.
RateTypeOK ==
  /\ rate \in [RateId -> {NoRate} \cup RateDoc]
  /\ setting \in [RateId -> {"idle", "clearing", "inserting", "done", "failed"}]
  /\ fixing \in [RateFix -> {NoFix} \cup Fix]
  /\ replaced \in [RateId -> SUBSET RateId]
  /\ retired \subseteq RateId

\* Two rates are active together only when their requests overlapped: each was
\* not there yet when the other's request deactivated what there was.  A rate
\* that was once replaced never comes back beside its successor.
ActiveTogetherOnlyIfOverlapping ==
  \A x, y \in ActiveRates : x # y => x \notin replaced[y] /\ y \notin replaced[x]

\* The rates there are were all deactivated by a setting that has not inserted
\* its own: it is about to, it died, or it was refused.
LeftByASetting ==
  \E x \in RateId : setting[x] \in {"inserting", "failed"} /\ replaced[x] = Made

\* A rate was deactivated by hand and none has been set since that replaced it.
LeftByHand ==
  \E y \in retired : \A x \in Made : y \notin replaced[x]

\* Once a rate was set, the shop is without one only because of a setting that
\* has not inserted its own after it deactivated the others, or of a deactivation
\* by hand, and only until the next setting: no overlap of settings that succeed,
\* and no late correction, takes the rate away.
RateUnlessLeft ==
  ActiveRates # {} \/ Made = {} \/ LeftByASetting \/ LeftByHand

-------------------------------------------------------------------------------
(* A claim of the source that the code does not keep: TLC violates it, see  *)
(* the README.                                                              *)

\* "Only one active rate at a time"
OneActiveRate == \A x, y \in ActiveRates : x = y
===============================================================================
