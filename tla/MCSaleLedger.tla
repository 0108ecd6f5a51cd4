----------------------------- MODULE MCSaleLedger -----------------------------
(***************************************************************************)
(* Small instances of SaleLedger.  The orders are the two shapes that      *)
(* matter: one unit of every product (all of it is taken or none), and two *)
(* units of one product on two lines (each line passes the pre-check on    *)
(* its own when a single unit is left).                                    *)
(***************************************************************************)
EXTENDS SaleLedger, TLC

Of(p, n) == [r \in Product |-> IF r = p THEN n ELSE 0]

Each == [r \in Product |-> 1]

MCOrder == {[qty |-> Each, line |-> Each]}
             \cup {[qty |-> Of(p, 2), line |-> Of(p, 1)] : p \in Product}

MCQuantity == 0..2

MCAmount == {1}

MCSymmetry == Permutations(Sale) \cup Permutations(Editor) \cup Permutations(Product)
===============================================================================
