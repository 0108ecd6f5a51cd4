SPECIFICATION Spec
CONSTANTS
  User = {u1, u2}
  Request = {r1, r2}
SYMMETRY MCSymmetry
CHECK_DEADLOCK FALSE
INVARIANT SomeActiveAdmin
