SPECIFICATION Spec
CONSTANTS
  boss = boss
  manager = manager
  cashier = cashier
  Bbbb = Bbbb
  Cnnn = Cnnn
  User <- MCUser
  Region <- MCRegion
  Role <- MCRole
  Reach <- MCReach
  Expense = {x1}
  ExpenseRequest = {q1, q2, q3}
  ExpenseAmount = {1}
  Entry = {e1}
  EntryRequest = {w1, w2, w3}
  EntryField = {amount, source}
  EntryValue = {1, 2}
  MaxRequests = 3
SYMMETRY MCSymmetry
CHECK_DEADLOCK FALSE
INVARIANTS
  TypeOK
  RecordsSigned
  DecisionNoted
  VerdictSigned
  HistoryExplains
