------------------------------- MODULE MCReports -------------------------------
(* A calendar of three months, the first of two days of two hours, and sales *)
(* whose charges do not divide evenly over their lines.                      *)
EXTENDS Reports

MCMonthDays == <<2, 1, 1>>

Of(g, n) == [region |-> g, subtotal |-> n]

\* In half cents.  The lines of the first round up to a cent more than its total.
MCBasket == {<<Of("Bbbb", 3), Of("Cnnn", 3)>>,
             <<Of("Cnnn", 4), Of("Bbbb", 2), Of("Cnnn", 8)>>}

MCOldLines ==
  {<<[code |-> "none", name |-> "Bbbb", kept |-> TRUE, subtotal |-> 4, net |-> 2],
     [code |-> "Cnnn", name |-> "Cnnn", kept |-> FALSE, subtotal |-> 3, net |-> 2]>>,
   <<[code |-> "none", name |-> "none", kept |-> FALSE, subtotal |-> 2, net |-> 1],
     [code |-> "Bbbb", name |-> "Bbbb", kept |-> TRUE, subtotal |-> 3, net |-> 2]>>}
===============================================================================
