SPECIFICATION Spec
CONSTANTS
  User = {u1, u2, u3}
  Request = {r1, r2, r3}
SYMMETRY MCSymmetry
CHECK_DEADLOCK FALSE
INVARIANTS
  TypeOK
  UsableWasAdmitted
  AdminKeptUnlessRaced
  AgreesUnlessRaced
PROPERTY LiftedOnPurpose
