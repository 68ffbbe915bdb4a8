-------------------------- MODULE MCPaymentDelivery --------------------------
(* Constants for model checking PaymentDelivery: a payment of one order,   *)
(* which also fails once, and its refund.                                  *)
EXTENDS PaymentDelivery

CONSTANTS o1, p1, failure, refund

Kinds == [e \in Event |-> CASE e = failure -> "payment.failed"
                            [] e = refund  -> "payment.refunded"
                            [] OTHER       -> "payment.success"]
Orders == [e \in Event |-> o1]
Payments == [e \in Event |-> p1]
=============================================================================
