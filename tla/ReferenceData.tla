----------------------------- MODULE ReferenceData -----------------------------
(***************************************************************************)
(* The two collections everybody reads and few write: exchange rates and   *)
(* categories.  Neither has a transaction or a unique index that says what *)
(* its handlers mean (one active rate, one category of each key); no       *)
(* handler touches both.  MaxReferenceRequests bounds the requests over both.       *)
(***************************************************************************)
EXTENDS ExchangeRates, Categories, FiniteSets

CONSTANT MaxReferenceRequests

ASSUME MaxReferenceRequestsAssumption == MaxReferenceRequests \in Nat

referenceVars == <<rateVars, categoryVars>>

-------------------------------------------------------------------------------

ReferenceBegun == Cardinality({x \in RateId : setting[x] # "idle"})
         + Cardinality({k \in RateFix : fixing[k] # NoFix})
         + Cardinality({c \in CategoryRequest : categoryReq[c] # NoCategoryReq})

ReferenceInit == RateInit /\ CategoryInit

OnRates ==
  /\ (ReferenceBegun < MaxReferenceRequests /\ RateArrival) \/ RateWrite
  /\ UNCHANGED categoryVars

OnCategories ==
  /\ (ReferenceBegun < MaxReferenceRequests /\ CategoryArrival) \/ CategoryWrite
  /\ UNCHANGED rateVars

ReferenceNext == OnRates \/ OnCategories

ReferenceSpec == ReferenceInit /\ [][ReferenceNext]_referenceVars

-------------------------------------------------------------------------------

\* Every document and request is one the schemas and the handlers produce.
ReferenceTypeOK == RateTypeOK /\ CategoryTypeOK
===============================================================================
