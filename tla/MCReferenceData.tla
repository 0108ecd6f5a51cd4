---------------------------- MODULE MCReferenceData ----------------------------
(* Three spellings, two of them of one category, and two default names. *)
EXTENDS ReferenceData, TLC

CONSTANTS robe, robes, jupe

MCCategoryName == {robe, robes, jupe}
MCCategoryKey == [n \in MCCategoryName |-> IF n = jupe THEN "jupe" ELSE "robe"]
MCDefaultName == {robe, jupe}

\* Requests of one kind are alike; nothing here is a liveness property.
MCSymmetry == Permutations(RateId) \cup Permutations(RateFix)
              \cup Permutations(CategoryRequest)
===============================================================================
