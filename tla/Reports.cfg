SPECIFICATION Spec
CONSTANTS
  HourLen = 1
  DayLen = 2
  MonthDays <- MCMonthDays
  MaxDailySpan = 2
  MaxKeys = 2
  Cent = 2
  Sale = {s1}
  Basket <- MCBasket
  Discount = {1}
  Added = {0, 3}
  OldLines <- MCOldLines
  OfflineWindow = 1
  FutureTolerance = 1
  MaxTime = 4
CHECK_DEADLOCK FALSE
INVARIANTS
  TypeOK
  
  ShownIsReported
  TotalsAgree
