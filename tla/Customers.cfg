SPECIFICATION Spec
CONSTANTS
  CustomerId = {c1, c2, c3}
  Phone = {p1, p2, walkin}
  WalkIn = walkin
  Sale = {s1, s2}
  Total = {1, 2}
  EditReq = {e1}
  RecalcReq = {r1}
  RemoveReq = {d1}
  EnsureReq = {w1, w2}
SYMMETRY MCSymmetry
CHECK_DEADLOCK FALSE
INVARIANTS
  TypeOK
  StatsMatchSales
  WalkInPermanent
