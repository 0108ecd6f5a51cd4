SPECIFICATION Spec
CONSTANTS
  Family = {f1}
  Token = {t1, t2}
  Handler = {h1, h2}
  NoToken = NoToken
  IdleMax = 2
  SessionMax = 3
  Grace = 1
  MaxTime = 1
  MaxVersion = 0
SYMMETRY MCSymmetry
CHECK_DEADLOCK FALSE
INVARIANT LogoutEndsSession
