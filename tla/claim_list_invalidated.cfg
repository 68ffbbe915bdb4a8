CONSTANTS
  Restaurant = {x1}
  Phone = {p1}
  Request = {r1, r2}
  Null = Null
  List = List
  MaxInFlight = 1
  MaxFailures = 0
SYMMETRY RestaurantSymmetry
VIEW LiveState
SPECIFICATION Spec
INVARIANT ListInvalidated
CHECK_DEADLOCK FALSE
