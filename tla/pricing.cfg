CONSTANTS
  Menu = {m1, m2}
  Price = {1, 2}
  Quantity = {2, 3, 4}
  MaxAmount = 12
  MaxItems = 2
  MaxChanges = 2
  Null = Null
SPECIFICATION Spec
INVARIANTS
  StoredAsAsked
  PricesWereOffered
CHECK_DEADLOCK FALSE
