CONSTANTS
  Order = {o1}
  Request = {r1,r2,r3}
  PaymentId = {p1}
  Null = Null
  MaxInFlight = 2
SYMMETRY RequestSymmetry
SPECIFICATION Spec
PROPERTY LegalTransitions
CHECK_DEADLOCK FALSE
