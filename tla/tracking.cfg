CONSTANTS
  Order = {o1}
  Request = {r1, r2, r3}
  Null = Null
  MaxInFlight = 2
  Client = {owner, stranger}
  CustomerOf <- Customer
  Admins = {}
  owner = owner
SPECIFICATION TrackingSpec
INVARIANTS
  TrackingTypeOK
  OnlyOwnUpdates
  UntrackIsFinal
  LastToldIsCurrent
PROPERTY
  CommitReachesWatchers
SYMMETRY RequestSymmetry
CHECK_DEADLOCK FALSE
