CONSTANTS
  o1 = o1
  p1 = p1
  Order = {o1}
  Request = {r1, r2, r3, r4}
  PaymentId = {p1}
  Null = Null
  MaxInFlight = 4
  Event = {success, failure, refund}
  failure = failure
  refund = refund
  EventKind <- Kinds
  EventOrder <- Orders
  EventPayment <- Payments
  MaxDisturbances = 1
SPECIFICATION DeliverySpec
INVARIANTS
  AckedPaymentRecorded
  RefundRecorded
PROPERTIES
  PaymentSettles
  EveryEventAcked
CHECK_DEADLOCK FALSE
