CONSTANTS
  Order = {o1}
  Updates = 2
  MaxFaults = 3
  Null = Null
SPECIFICATION Spec
INVARIANTS
  CompletedWasSent
  RepeatsNeedAFault
PROPERTIES
  LateOnlyAfterFault
  OutboxSpec
CHECK_DEADLOCK FALSE
