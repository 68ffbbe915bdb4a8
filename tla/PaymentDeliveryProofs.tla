------------------------ MODULE PaymentDeliveryProofs ------------------------
(***************************************************************************)
(* Proofs about PaymentDelivery, for any events, orders and payments: what *)
(* OrderSystemProofs shows of the two services holds for this provider     *)
(* too, and what it has been told is dealt with is on record.              *)
(***************************************************************************)
EXTENDS PaymentDelivery, OrderSystemProofs

(* A success event has a row for each of its deliveries. *)
AttemptsInv ==
  /\ attempts \in [Event -> SUBSET Request]
  /\ \A e \in Event : \A r \in attempts[e] :
       /\ pc[r] # "idle"
       /\ EventKind[e] = "payment.success" =>
            /\ Backed(r, EventOrder[e])
            /\ payments[r].providerPaymentId = EventPayment[e]

(* The rows of a payment, none of which says anything else than refunded   *)
(* once a refund was delivered and no row was recorded since.              *)
RowsOf(p) ==
  {r \in Request : payments[r] # Null /\ payments[r].providerPaymentId = p}

RefundInv ==
  \A e \in Event \ overtaken :
    attempts[e] # {} /\ EventKind[e] = "payment.refunded" =>
      \A r \in RowsOf(EventPayment[e]) : payments[r].status = "refunded"

DeliveryInv == TypeOK /\ Inv /\ AttemptsInv /\ RefundInv

-----------------------------------------------------------------------------
(* Every delivery is the start of a webhook call of OrderSystem, and every *)
(* other step is one of it, too.                                           *)

LEMMA NextRequestType ==
  ASSUME IdleRequest # {}
  PROVE  NextRequest \in Request /\ pc[NextRequest] = "idle"
  BY DEF IdleRequest, NextRequest

LEMMA EventType ==
  ASSUME NEW e \in Event
  PROVE  /\ EventKind[e] \in
              {"payment.success", "payment.failed", "payment.refunded"}
         /\ EventOrder[e] \in Order /\ EventPayment[e] \in PaymentId
  BY DeliveryAssumption

(* What a delivery does, and that it is a step of the called service.      *)
LEMMA SendIsStep ==
  ASSUME NEW e \in Event, Send(e)
  PROVE  \E r \in Request :
           /\ pc[r] = "idle" /\ Step(r)
           /\ attempts' = [attempts EXCEPT ![e] = @ \cup {r}]
           /\ IF EventKind[e] = "payment.refunded"
              THEN /\ WebhookRefund(r, EventPayment[e])
                   /\ overtaken' = overtaken \ {e}
              ELSE /\ WebhookRecord(r, EventKind[e], EventOrder[e],
                                    EventPayment[e])
                   /\ overtaken' = overtaken \cup RefundsOf(EventPayment[e])
<1> DEFINE r == NextRequest
<1>1. r \in Request /\ pc[r] = "idle"
  BY NextRequestType DEF Send
<1>2. WebhookStart(r)
  BY EventType DEF Send, WebhookStart, Kind
<1>3. Step(r)
  BY <1>2 DEF Send, Step, Arrive
<1> QED BY <1>1, <1>3 DEF Send

LEMMA OtherIsStep ==
  ASSUME DeliveryNext, ~(\E e \in Event : Send(e))
  PROVE  /\ \E r \in Request : Step(r)
         /\ UNCHANGED <<attempts, overtaken, payments>>
<1>1. ASSUME NEW o \in Order, NEW s \in OrderStatus, AdminUpdate(o, s)
      PROVE  /\ \E r \in Request : Step(r)
             /\ UNCHANGED <<attempts, overtaken, payments>>
  <2>1. NextRequest \in Request
    BY <1>1, NextRequestType DEF AdminUpdate
  <2>2. Step(NextRequest)
    BY <1>1 DEF AdminUpdate, Step, Arrive, OrdersStart
  <2> QED BY <1>1, <2>1, <2>2 DEF AdminUpdate
<1>2. ASSUME NEW r \in Request, Run(r) \/ Fail(r)
      PROVE  Step(r) /\ UNCHANGED <<attempts, overtaken, payments>>
  BY <1>2 DEF Run, Fail, Step, Resume, Save, WebhookStep, WebhookReadOrder,
     WebhookWrite, WebhookAck, Die
<1> QED BY <1>1, <1>2 DEF DeliveryNext, Deliver, DeliverAgain

LEMMA DeliveryIsNext == DeliveryNext => Next
  BY SendIsStep, OtherIsStep DEF Next, Step

-----------------------------------------------------------------------------
LEMMA DeliveryInitInv == DeliveryInit => DeliveryInv
<1> SUFFICES ASSUME DeliveryInit PROVE DeliveryInv
  OBVIOUS
<1> USE PendingOrderType, EntityNotNull DEF DeliveryInit
<1>1. TypeOK
  BY DEF OrdersInit, PaymentsInit, TypeOK, StoreTypeOK, OrdersTypeOK,
     PaymentsTypeOK, OrderStatus
<1>2. ControlInv
  BY DEF ControlInv, HasTarget, Settles
<1>3. HistoryInv /\ NoStageSkipped
  BY DEF Exists, HistoryInv, NoStageSkipped
<1>4. AuditStampsTruthful
  BY DEF AuditStampsTruthful
<1>5. WindowInv /\ CleanInv /\ SettledInv
  BY DEF WindowInv, CleanInv, SettledInv, InWindow, Settles
<1>6. EffectsInv
  BY DEF OrdersInit, EffectsInv, Announced, ReportsCommitted, EffectsInOrder
<1>7. BackingInv
  BY NullAssumption DEF BackingInv, InWindow, AuditColumn
<1>8. AttemptsInv /\ RefundInv
  BY DEF AttemptsInv, RefundInv
<1> QED BY <1>1, <1>2, <1>3, <1>4, <1>5, <1>6, <1>7, <1>8
        DEF DeliveryInv, Inv, StoreInv

(* A row that is recorded, spelled out. *)
LEMMA RecordEffect ==
  ASSUME TypeOK, NEW r \in Request, NEW k \in Kind, NEW o \in Order,
         NEW p \in PaymentId, WebhookRecord(r, k, o, p)
  PROVE  /\ pc'[r] # "idle"
         /\ \A q \in Request \ {r} : payments'[q] = payments[q]
         /\ payments'[r] # Null
         /\ payments'[r].order = o
         /\ payments'[r].providerPaymentId = p
         /\ payments'[r].status = RowStatus(k)
<1> DEFINE row == [order |-> o, providerPaymentId |-> p, status |-> RowStatus(k)]
<1>1. row \in PaymentRow
  BY DEF PaymentRow, PaymentStatus, RowStatus
<1>2. payments' = [payments EXCEPT ![r] = row] /\ pc'[r] = "readOrder"
  BY DEF WebhookRecord, Start, TypeOK, StoreTypeOK
<1> HIDE DEF row
<1>3. payments'[r] = row /\ \A q \in Request \ {r} : payments'[q] = payments[q]
  BY <1>2 DEF TypeOK, PaymentsTypeOK
<1> QED BY <1>1, <1>2, <1>3, NoPaymentAssumption DEF row

(* A refund, spelled out: the rows of p say refunded, the others stay. *)
LEMMA RefundEffect ==
  ASSUME TypeOK, NEW r \in Request, NEW p \in PaymentId, WebhookRefund(r, p)
  PROVE  /\ pc'[r] # "idle"
         /\ \A q \in Request :
              IF q \in RowsOf(p)
              THEN /\ payments'[q] # Null
                   /\ payments'[q].order = payments[q].order
                   /\ payments'[q].providerPaymentId = p
                   /\ payments'[q].status = "refunded"
              ELSE payments'[q] = payments[q]
<1>1. pc'[r] # "idle"
  BY DEF WebhookRefund, Start, TypeOK, StoreTypeOK
<1>2. ASSUME NEW q \in RowsOf(p)
      PROVE  /\ payments'[q] # Null
             /\ payments'[q].order = payments[q].order
             /\ payments'[q].providerPaymentId = p
             /\ payments'[q].status = "refunded"
  <2>1. payments[q] \in PaymentRow /\ payments[q].providerPaymentId = p
    BY DEF RowsOf, TypeOK, PaymentsTypeOK
  <2>2. payments'[q] = [payments[q] EXCEPT !.status = "refunded"]
    BY DEF WebhookRefund, RowsOf
  <2>3. payments'[q] \in PaymentRow
    BY <2>1, <2>2 DEF PaymentRow, PaymentStatus
  <2> QED BY <2>1, <2>2, <2>3, NoPaymentAssumption DEF PaymentRow
<1>3. ASSUME NEW q \in Request, q \notin RowsOf(p)
      PROVE  payments'[q] = payments[q]
  BY <1>3 DEF WebhookRefund, RowsOf
<1> QED BY <1>1, <1>2, <1>3

LEMMA AttemptsStep ==
  ASSUME DeliveryInv, DeliveryNext
  PROVE  AttemptsInv'
<1> USE DEF DeliveryInv
<1>a. ASSUME NEW e \in Event, NEW q \in attempts[e]
      PROVE  /\ q \in Request /\ pc'[q] # "idle"
             /\ Backed(q, EventOrder[e]) => Backed(q, EventOrder[e])'
  <2>1. \E r \in Request : Step(r)
    BY DeliveryIsNext DEF Next, Step
  <2> QED BY <2>1, StartedKeeps, EventType DEF AttemptsInv
<1>1. ASSUME NEW e \in Event, Send(e)
      PROVE  AttemptsInv'
  <2>1. PICK r \in Request :
          /\ pc[r] = "idle"
          /\ attempts' = [attempts EXCEPT ![e] = @ \cup {r}]
          /\ IF EventKind[e] = "payment.refunded"
             THEN WebhookRefund(r, EventPayment[e])
             ELSE WebhookRecord(r, EventKind[e], EventOrder[e],
                                EventPayment[e])
    BY <1>1, SendIsStep
  <2>2. \A d \in Event : attempts'[d] = IF d = e THEN attempts[e] \cup {r}
                                        ELSE attempts[d]
    BY <2>1 DEF AttemptsInv
  <2>3. attempts' \in [Event -> SUBSET Request]
    BY <2>1 DEF AttemptsInv
  <2>4. /\ pc'[r] # "idle"
        /\ EventKind[e] = "payment.success" =>
             /\ Backed(r, EventOrder[e])'
             /\ payments'[r].providerPaymentId = EventPayment[e]
    BY <2>1, RecordEffect, RefundEffect, EventType
       DEF Backed, RowStatus, Kind
  <2>5. ASSUME NEW q \in Request, pc[q] # "idle", payments[q] # Null
        PROVE  payments'[q].providerPaymentId = payments[q].providerPaymentId
    BY <2>1, <2>5, RecordEffect, RefundEffect, EventType DEF RowsOf, Kind
  <2>6. ASSUME NEW d \in Event, NEW q \in attempts[d],
               EventKind[d] = "payment.success"
        PROVE  payments'[q].providerPaymentId = EventPayment[d]
    BY <2>5, <2>6 DEF AttemptsInv, Backed
  <2> QED BY <1>a, <2>2, <2>3, <2>4, <2>6 DEF AttemptsInv
<1>2. CASE ~(\E e \in Event : Send(e))
  <2>1. UNCHANGED <<attempts, payments>>
    BY <1>2, OtherIsStep
  <2> QED BY <1>a, <2>1 DEF AttemptsInv
<1> QED BY <1>1, <1>2

LEMMA RefundStep ==
  ASSUME DeliveryInv, DeliveryNext
  PROVE  RefundInv'
<1> USE DEF DeliveryInv
<1> SUFFICES ASSUME NEW d \in Event, d \notin overtaken', attempts'[d] # {},
                    EventKind[d] = "payment.refunded",
                    NEW q \in RowsOf(EventPayment[d])'
             PROVE  payments'[q].status = "refunded"
  BY DEF RefundInv
<1>1. ASSUME NEW e \in Event, Send(e)
      PROVE  payments'[q].status = "refunded"
  <2>1. PICK r \in Request :
          /\ pc[r] = "idle"
          /\ attempts' = [attempts EXCEPT ![e] = @ \cup {r}]
          /\ IF EventKind[e] = "payment.refunded"
             THEN /\ WebhookRefund(r, EventPayment[e])
                  /\ overtaken' = overtaken \ {e}
             ELSE /\ WebhookRecord(r, EventKind[e], EventOrder[e],
                                   EventPayment[e])
                  /\ overtaken' = overtaken \cup RefundsOf(EventPayment[e])
    BY <1>1, SendIsStep
  <2>2. d # e => d \notin overtaken /\ attempts[d] # {}
    BY <2>1 DEF AttemptsInv
  <2>3. CASE EventKind[e] = "payment.refunded"
    <3>1. CASE q \in RowsOf(EventPayment[e])
      BY <2>1, <2>3, <3>1, RefundEffect, EventType DEF RowsOf
    <3>2. CASE q \notin RowsOf(EventPayment[e])
      <4>1. payments'[q] = payments[q] /\ q \in RowsOf(EventPayment[d])
        BY <2>1, <2>3, <3>2, RefundEffect, EventType DEF RowsOf
      <4> QED BY <2>2, <3>2, <4>1 DEF RefundInv
    <3> QED BY <3>1, <3>2
  <2>4. CASE EventKind[e] # "payment.refunded"
    <3>1. d # e /\ EventPayment[d] # EventPayment[e]
      BY <2>1, <2>4 DEF RefundsOf
    <3>2. q # r /\ payments'[q] = payments[q]
      BY <2>1, <2>4, <3>1, RecordEffect, EventType DEF RowsOf, Kind
    <3> QED BY <2>2, <3>1, <3>2 DEF RefundInv, RowsOf
  <2> QED BY <2>3, <2>4
<1>2. CASE ~(\E e \in Event : Send(e))
  <2>1. UNCHANGED <<attempts, payments, overtaken>>
    BY <1>2, OtherIsStep
  <2> QED BY <2>1 DEF RefundInv, RowsOf
<1> QED BY <1>1, <1>2

LEMMA DeliveryKept ==
  DeliveryInv /\ [DeliveryNext]_deliveryVars => DeliveryInv'
<1> SUFFICES ASSUME DeliveryInv, [DeliveryNext]_deliveryVars
             PROVE  DeliveryInv'
  OBVIOUS
<1>1. TypeOK' /\ Inv'
  BY DeliveryIsNext, NextInv DEF DeliveryInv, deliveryVars
<1>2. CASE DeliveryNext
  BY <1>1, <1>2, AttemptsStep, RefundStep DEF DeliveryInv
<1>3. CASE UNCHANGED deliveryVars
  <2>1. UNCHANGED <<pc, payments, attempts, overtaken>>
    BY <1>3 DEF deliveryVars, vars, storeVars
  <2>2. AttemptsInv'
    BY <2>1 DEF DeliveryInv, AttemptsInv, Backed
  <2>3. RefundInv'
    BY <2>1 DEF DeliveryInv, RefundInv, RowsOf
  <2> QED BY <1>1, <2>2, <2>3 DEF DeliveryInv
<1> QED BY <1>2, <1>3

(***************************************************************************)
(* The invariants of the two services, and those of the deliveries, hold   *)
(* however often the provider repeats an event and whatever fails.         *)
(***************************************************************************)
THEOREM DeliveryInvariance == DeliverySpec => []DeliveryInv
  BY DeliveryInitInv, DeliveryKept, PTL DEF DeliverySpec

(***************************************************************************)
(* Delivery by this provider is a behaviour of the two services: all their *)
(* action properties hold for it, from orders that are already placed.     *)
(***************************************************************************)
THEOREM DeliveryIsService == DeliverySpec => [][Next]_vars
<1>1. [DeliveryNext]_deliveryVars => [Next]_vars
  BY DeliveryIsNext DEF deliveryVars
<1> QED BY <1>1, PTL DEF DeliverySpec

(***************************************************************************)
(* What the provider was told is dealt with is on record for its order,    *)
(* whichever of several deliveries was acknowledged.                       *)
(***************************************************************************)
THEOREM AckedMoneyRecorded == DeliverySpec => []AckedPaymentRecorded
<1>1. DeliveryInv => AckedPaymentRecorded
  BY DEF DeliveryInv, AttemptsInv, Backed, AckedPaymentRecorded, Acked, InState
<1> QED BY <1>1, DeliveryInvariance, PTL

(***************************************************************************)
(* After an acknowledged refund every row of the payment says refunded,    *)
(* unless a row was recorded after it.                                     *)
(***************************************************************************)
THEOREM AckedRefundRecorded == DeliverySpec => []RefundRecorded
<1>1. DeliveryInv => RefundRecorded
  BY DEF DeliveryInv, RefundInv, RowsOf, RefundRecorded, Acked, InState
<1> QED BY <1>1, DeliveryInvariance, PTL
=============================================================================
