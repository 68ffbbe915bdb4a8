--------------------------- MODULE PaymentDelivery ---------------------------
(***************************************************************************)
(* OrderSystem with a payment provider that behaves as providers do: it    *)
(* sends each event, waits for the 200 answer, and sends it again when the *)
(* call fails or when it got tired of waiting (a timeout: the first call   *)
(* then still runs).  The provider is external; what the code relies on is *)
(* that it stops only at an acknowledgement.                               *)
(*                                                                         *)
(* The orders are already placed.  Admins change their status meanwhile.   *)
(***************************************************************************)
EXTENDS OrderSystem

CONSTANTS
  Event,         \* the events the provider has to deliver
  EventKind,     \* event -> payment.success, .failed or .refunded
  EventOrder,    \* event -> the order it is about
  EventPayment,  \* event -> providerPaymentId
  MaxDisturbances  \* bound: calls that fail, deliveries repeated while one
                   \* is still running, and status changes by an admin

ASSUME DeliveryAssumption ==
  /\ EventKind \in
       [Event -> {"payment.success", "payment.failed", "payment.refunded"}]
  /\ EventOrder \in [Event -> Order]
  /\ EventPayment \in [Event -> PaymentId]
  /\ MaxDisturbances \in Nat
  \* Every call there can be has a request, and none waits for admission.
  /\ Cardinality(Request) >= Cardinality(Event) + MaxDisturbances
  /\ MaxInFlight >= Cardinality(Request)

VARIABLES
  attempts,   \* event -> the requests that deliver or delivered it
  timeouts,   \* deliveries repeated early, up to now
  overtaken   \* history: refunds after whose last delivery a row was recorded

deliveryVars == <<vars, attempts, timeouts, overtaken>>

DeliveryInit ==
  /\ OrdersInit
  /\ PaymentsInit
  /\ rows = [o \in Order |-> PendingOrder]
  /\ reached = [o \in Order |-> {"pending"}]
  /\ pc = [r \in Request |-> "idle"]
  /\ call = [r \in Request |-> Null]
  /\ target = [r \in Request |-> Null]
  /\ seen = [r \in Request |-> PendingOrder]
  /\ entity = [r \in Request |-> PendingOrder]
  /\ dirty = [r \in Request |-> {}]
  /\ attempts = [e \in Event |-> {}]
  /\ timeouts = 0
  /\ overtaken = {}

-----------------------------------------------------------------------------
\* Requests are only names of calls: the next call takes any unused one.
IdleRequest == {r \in Request : pc[r] = "idle"}
NextRequest == CHOOSE r \in Request : pc[r] = "idle"

Disturbances ==
  timeouts + Cardinality({r \in Request : pc[r] = "failed"})
           + Cardinality({r \in Request : call[r] = "updateStatus"})

InState(e, l) == {r \in attempts[e] : pc[r] = l}

Acked(e) == InState(e, "done") # {}

RefundsOf(p) ==
  {e \in Event : EventKind[e] = "payment.refunded" /\ EventPayment[e] = p}

Send(e) ==
  /\ IdleRequest # {}
  /\ IF EventKind[e] = "payment.refunded"
     THEN /\ WebhookRefund(NextRequest, EventPayment[e])
          /\ overtaken' = overtaken \ {e}
     ELSE /\ WebhookRecord(NextRequest, EventKind[e], EventOrder[e],
                           EventPayment[e])
          /\ overtaken' = overtaken \cup RefundsOf(EventPayment[e])
  /\ UNCHANGED serviceVars
  /\ attempts' = [attempts EXCEPT ![e] = @ \cup {NextRequest}]

\* The first delivery, and the next one after an error answer.
Deliver(e) ==
  /\ attempts[e] = InState(e, "failed")
  /\ Send(e)
  /\ UNCHANGED timeouts

\* No answer in time: the event is sent again, the running call goes on.
DeliverAgain(e) ==
  /\ Disturbances < MaxDisturbances
  /\ ~Acked(e)
  /\ attempts[e] # InState(e, "failed")
  /\ Send(e)
  /\ timeouts' = timeouts + 1

AdminUpdate(o, s) ==
  /\ IdleRequest # {}
  /\ Disturbances < MaxDisturbances
  /\ UpdateRead(NextRequest, o, s)
  /\ UNCHANGED <<payments, attempts, timeouts, overtaken>>

Run(r) == Resume(r) /\ UNCHANGED <<attempts, timeouts, overtaken>>

Fail(r) ==
  /\ Disturbances < MaxDisturbances
  /\ Die(r)
  /\ UNCHANGED <<attempts, timeouts, overtaken>>

DeliveryNext ==
  \/ \E e \in Event : Deliver(e) \/ DeliverAgain(e)
  \/ \E o \in Order, s \in OrderStatus : AdminUpdate(o, s)
  \/ \E r \in Request : Run(r) \/ Fail(r)

(***************************************************************************)
(* A suspended call goes on: its database or Redis call settles, and the   *)
(* event loop runs the continuation.  An event without a running or        *)
(* acknowledged delivery is sent.  Timeouts, failures and updates by       *)
(* admins may happen or not.                                               *)
(***************************************************************************)
DeliverySpec ==
  /\ DeliveryInit
  /\ [][DeliveryNext]_deliveryVars
  /\ \A r \in Request : WF_deliveryVars(Run(r))
  /\ \A e \in Event : WF_deliveryVars(Deliver(e))

-----------------------------------------------------------------------------
(***************************************************************************)
(* Every order the provider has news of stops waiting for its payment for  *)
(* good: a call that fails after the payment row was inserted does not     *)
(* keep the redelivery from changing the order, and a late call of an      *)
(* event or of an admin does not put the order back.                       *)
(***************************************************************************)
PaymentSettles ==
  \A e \in Event \ UNION {RefundsOf(p) : p \in PaymentId} :
    <>[](rows[EventOrder[e]]["status"] # "pending")

(***************************************************************************)
(* The provider gets its answer: every event is acknowledged, whatever the *)
(* other calls did to the order, so redelivery stops.                      *)
(***************************************************************************)
EveryEventAcked == \A e \in Event : <>Acked(e)

(***************************************************************************)
(* Whenever the provider has been told that a success event is dealt with, *)
(* the payments table has it: the acknowledged money is on record for its  *)
(* order, whichever of several deliveries was acknowledged.                *)
(***************************************************************************)
AckedPaymentRecorded ==
  \A e \in Event : Acked(e) /\ EventKind[e] = "payment.success" =>
    \E r \in attempts[e] :
      /\ payments[r] # Null
      /\ payments[r].order = EventOrder[e]
      /\ payments[r].providerPaymentId = EventPayment[e]
      /\ payments[r].status \in {"success", "refunded"}

(***************************************************************************)
(* An acknowledged refund is on record: every row of that payment, those   *)
(* that redelivery added included, says refunded.  Only a row that is      *)
(* recorded after the refund was handled escapes it.                       *)
(***************************************************************************)
RefundRecorded ==
  \A e \in Event \ overtaken :
    Acked(e) /\ EventKind[e] = "payment.refunded" =>
      {payments[r].status : r \in {q \in Request :
         /\ payments[q] # Null
         /\ payments[q].providerPaymentId = EventPayment[e]}}
      \subseteq {"refunded"}
=============================================================================
