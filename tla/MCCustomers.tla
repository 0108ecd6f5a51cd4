----------------------------- MODULE MCCustomers -----------------------------
(* Two sales, two registered phones and the walk-in's, one edit, one         *)
(* recalculation, one deletion and two calls of ensureWalkInCustomer.        *)
EXTENDS Customers, TLC

\* Ids and requests of one kind are alike; nothing here is a liveness property.
MCSymmetry == Permutations(CustomerId) \cup Permutations(Sale)
              \cup Permutations(EnsureReq)
              \cup Permutations(Phone \ {WalkIn})
===============================================================================
