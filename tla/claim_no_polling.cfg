CONSTANTS
  Order = {o1}
  Request = {r1,r2}
  PaymentId = {p1}
  Null = Null
  MaxInFlight = 1
SYMMETRY RequestSymmetry
SPECIFICATION Spec
INVARIANT StatusChangesEmitted
CHECK_DEADLOCK FALSE
