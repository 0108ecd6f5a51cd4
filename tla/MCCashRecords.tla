----------------------------- MODULE MCCashRecords -----------------------------
(* A small office: an administrator, a manager of both regions and a cashier *)
(* of Butembo.                                                               *)
EXTENDS CashRecords, TLC

CONSTANTS boss, manager, cashier, Bbbb, Cnnn

MCUser == {boss, manager, cashier}
MCRegion == {Bbbb, Cnnn}
MCRole == [u \in MCUser |-> CASE u = boss -> "admin"
                              [] u = manager -> "manager"
                              [] u = cashier -> "cashier"]
MCReach == [u \in MCUser |-> IF u = cashier THEN {Bbbb} ELSE MCRegion]

\* Requests of one kind are alike; nothing here is a liveness property.
MCSymmetry == Permutations(ExpenseRequest) \cup Permutations(EntryRequest)
===============================================================================
