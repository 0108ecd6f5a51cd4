---------------------------- MODULE MCLoginThrottle ----------------------------
(* Three logins at a time, and a limit, a window and a lock of a few instants. *)
EXTENDS LoginThrottle, TLC

\* Logins are alike; nothing here is a liveness property.
MCSymmetry == Permutations(Slot)
===============================================================================
