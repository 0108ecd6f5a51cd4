SPECIFICATION Spec
CONSTANTS
  Family = {f1}
  Token = {t1, t2, t3}
  Handler = {h1, h2}
  NoToken = NoToken
  IdleMax = 2
  SessionMax = 3
  Grace = 1
  MaxTime = 3
  MaxVersion = 1
SYMMETRY MCSymmetry
CHECK_DEADLOCK FALSE
INVARIANTS
  TypeOK
  OneHeir
  RenewalKeepsLogin
PROPERTY EndedStaysEnded
