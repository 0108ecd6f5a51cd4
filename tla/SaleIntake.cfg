SPECIFICATION Spec
CONSTANTS
  i1 = i1
  i2 = i2
  t1 = t1
  t2 = t2
  t3 = t3
  one = one
  two = two
  Id <- MCId
  Token <- MCToken
  Payload <- MCPayload
  Need <- MCNeed
  Receipt <- MCReceipt
  Request = {r1, r2}
  StartStock = 2
  MaxDeletes = 1
SYMMETRY MCSymmetry
CHECK_DEADLOCK FALSE
INVARIANTS
  TypeOK
  MadeOnce
  StockMatchesSales
  TakenIsOwnSale
