SPECIFICATION Spec
CONSTANTS
  Product = {p1, p2}
  Sale = {s1, s2}
  Editor = {e1, e2}
  Keeper = {k1}
  Quantity <- MCQuantity
  Order <- MCOrder
  Amount <- MCAmount
SYMMETRY MCSymmetry
CHECK_DEADLOCK FALSE
INVARIANTS
  TypeOK
  StockAccountedFor
  EditSnapshotCurrent
PROPERTIES
  ImplementsLedger
  VoidedChangesExplained
