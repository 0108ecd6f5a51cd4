----------------------------- MODULE MCUserAdmin -----------------------------
(***************************************************************************)
(* Small instances of UserAdmin: accounts and requests are alike.          *)
(***************************************************************************)
EXTENDS UserAdmin, TLC

MCSymmetry == Permutations(User) \cup Permutations(Request)
===============================================================================
