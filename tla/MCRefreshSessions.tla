-------------------------- MODULE MCRefreshSessions --------------------------
(***************************************************************************)
(* Small instances of RefreshSessions: tokens and handlers are alike, and  *)
(* the symmetry of each is used where only safety is checked.              *)
(***************************************************************************)
EXTENDS RefreshSessions, TLC

MCSymmetry == Permutations(Token) \cup Permutations(Handler)
===============================================================================
