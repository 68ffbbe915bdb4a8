CONSTANTS
  Order = {o1}
  Request = {r1, r2, r3, r4}
  PaymentId = {p1}
  Null = Null
  MaxInFlight = 3
SYMMETRY RequestSymmetry
SPECIFICATION Spec
INVARIANTS
  TypeOK
  NoStageSkipped
  AuditStampsTruthful
  ReportsCommitted
  EffectsInOrder
  ConfirmationHasPayment
  AckedPaymentSettles
PROPERTIES
  NeverPendingAgain
  OnlyStaleWritesBreakTheTable
  LifecycleUnlessStale
CHECK_DEADLOCK FALSE
