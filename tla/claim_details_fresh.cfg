CONSTANTS
  Restaurant = {x1}
  Phone = {p1, p2}
  Request = {r1, r2, r3}
  Null = Null
  List = List
  MaxInFlight = 2
  MaxFailures = 0
SYMMETRY RestaurantSymmetry
VIEW LiveState
SPECIFICATION Spec
INVARIANT DetailsFresh
CHECK_DEADLOCK FALSE
