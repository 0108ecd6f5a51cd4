---------------------------------- MODULE Sums ----------------------------------
(***************************************************************************)
(* The sum of the values of a function over a set: what `reduce` computes  *)
(* over an array and `$sum` over the documents of a group.                 *)
(***************************************************************************)
EXTENDS Integers, FiniteSets, FiniteSetsExt

SumOver(f, S) == MapThenSumSet(LAMBDA x : f[x], S)
===============================================================================
