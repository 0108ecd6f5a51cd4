SPECIFICATION ThrottleSpec
CONSTANTS
  Slot = {s1, s2, s3}
  Max = 3
  Window = 2
  Lock = 4
  MaxStall = 1
  MaxTime = 6
  MaxDropped = 2
SYMMETRY MCSymmetry
CHECK_DEADLOCK FALSE
INVARIANTS
  ThrottleTypeOK
  LimitLocks
  TriesBounded
PROPERTY LockHolds
