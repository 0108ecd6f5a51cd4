----------------------------- MODULE MCSaleIntake -----------------------------
(***************************************************************************)
(* Small instances of SaleIntake: two different sales with one             *)
(* clientSaleId, a sale that leaves no stock for the larger of them, and a *)
(* single receipt for the liveness property.                               *)
(***************************************************************************)
EXTENDS SaleIntake, TLC

CONSTANTS i1, i2, t1, t2, t3, one, two

MCId == {i1, i2}
MCToken == {t1, t2, t3}
MCPayload == {one, two}
MCNeed == [x \in {one, two} |-> IF x = one THEN 1 ELSE 2]

MCReceipt == {[id |-> i1, token |-> t1, payload |-> one],
              [id |-> i1, token |-> t2, payload |-> two],
              [id |-> i2, token |-> t3, payload |-> one]}

\* The handlers of two requests are alike; for the runs of safety properties.
MCSymmetry == Permutations(Request)

MCSingle == {[id |-> i1, token |-> t1, payload |-> one]}
===============================================================================
