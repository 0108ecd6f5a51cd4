----------------------------- MODULE StockLedger -----------------------------
(***************************************************************************)
(* What the shop promises about its stock, with no request, no snapshot    *)
(* and no version in sight: a unit of a product is on the shelf or in the  *)
(* hands of one open sale, it moves between the two in one step, and a     *)
(* sale that has been closed (voided or hard-deleted) never takes stock    *)
(* or gives it back again.  SaleLedger is shown to implement this module.  *)
(***************************************************************************)
EXTENDS Naturals

CONSTANTS
  Product,  \* products that ever exist; an id is never reused
  Sale,     \* sale documents that ever exist
  Quantity  \* the amounts of a product a sale or a stock count may name

VARIABLES
  stock,    \* stock[p]: units of p on the shelf
  shelf,    \* shelf[p]: "unborn", "live" or "deleted"
  held,     \* held[s][p]: units of p that sale s took and has not returned
  life      \* life[s]: "new", "open" or "closed"

vars == <<stock, shelf, held, life>>

Nothing == [p \in Product |-> 0]

Init ==
  /\ shelf \in [Product -> {"unborn", "live"}]
  /\ stock \in [Product -> Quantity]
  /\ held = [s \in Sale |-> Nothing]
  /\ life = [s \in Sale |-> "new"]

\* Sale s, which holds held[s], comes to hold q.  What it takes must be on the
\* shelf; what it returns goes back to the products that still exist.
Exchange(s, q) ==
  /\ \A p \in Product : q[p] > held[s][p] =>
       shelf[p] = "live" /\ stock[p] + held[s][p] >= q[p]
  /\ stock' = [p \in Product |->
                 IF shelf[p] = "live" THEN (stock[p] + held[s][p]) - q[p]
                                      ELSE stock[p]]
  /\ held' = [held EXCEPT ![s] = q]
  /\ UNCHANGED shelf

Sell(s, q) ==
  /\ life[s] = "new"
  /\ life' = [life EXCEPT ![s] = "open"]
  /\ Exchange(s, q)

Amend(s, q) ==
  /\ life[s] = "open"
  /\ Exchange(s, q)
  /\ UNCHANGED life

Close(s) ==
  /\ life[s] = "open"
  /\ life' = [life EXCEPT ![s] = "closed"]
  /\ Exchange(s, Nothing)

\* A product appears with an opening stock.
Enter(p, n) ==
  /\ shelf[p] = "unborn"
  /\ shelf' = [shelf EXCEPT ![p] = "live"]
  /\ stock' = [stock EXCEPT ![p] = n]
  /\ UNCHANGED <<held, life>>

\* An administrator writes a stock level, whatever it was.
Count(p, n) ==
  /\ shelf[p] = "live"
  /\ stock' = [stock EXCEPT ![p] = n]
  /\ UNCHANGED <<shelf, held, life>>

Retire(p) ==
  /\ shelf[p] = "live"
  /\ shelf' = [shelf EXCEPT ![p] = "deleted"]
  /\ UNCHANGED <<stock, held, life>>

Next ==
  \/ \E s \in Sale, q \in [Product -> Quantity] : Sell(s, q) \/ Amend(s, q)
  \/ \E s \in Sale : Close(s)
  \/ \E p \in Product, n \in Quantity : Enter(p, n) \/ Count(p, n)
  \/ \E p \in Product : Retire(p)

Spec == Init /\ [][Next]_vars
=============================================================================
