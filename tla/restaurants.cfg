CONSTANTS
  Restaurant = {x1, x2}
  Phone = {p1, p2}
  Request = {r1, r2, r3, r4}
  Null = Null
  List = List
  MaxInFlight = 3
  MaxFailures = 1
SYMMETRY RestaurantSymmetry
VIEW LiveState
SPECIFICATION Spec
INVARIANTS
  CachedWasStored
  DetailsInvalidated
PROPERTIES
  SaveTouchesOwnColumns
  CreateKeepsPhonesApart
CHECK_DEADLOCK FALSE
