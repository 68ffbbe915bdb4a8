--------------------------- MODULE PaymentsService ---------------------------
(***************************************************************************)
(* PaymentsService.handleWebhook.  The payment provider is external: it    *)
(* may send any event at any time, more than once and in any order, and    *)
(* waits for a 200 answer.  The handler writes a payment row first and     *)
(* changes the order second; the order change does not go through the      *)
(* state machine service, and is announced to nobody.                      *)
(***************************************************************************)
EXTENDS OrderStore

CONSTANT PaymentId   \* payment ids of the provider (providerPaymentId)

VARIABLE payments    \* payments table; a webhook call inserts at most one row

PaymentStatus == {"pending", "success", "failed", "refunded"}

PaymentRow ==
  [order : Order, providerPaymentId : PaymentId, status : PaymentStatus]

ASSUME NoPaymentAssumption == Null \notin PaymentRow

\* What an event makes of a pending order, and the status its row records.
OrderOutcome(k) == IF k = "payment.success" THEN "confirmed" ELSE "cancelled"
RowStatus(k) == IF k = "payment.success" THEN "success" ELSE "failed"

-----------------------------------------------------------------------------
\* 401 for a wrong signature, 400 for a body that is not JSON.
WebhookReject(r) ==
  /\ Start(r, "payment.other", "rejected")
  /\ UNCHANGED <<rows, reached, target, seen, entity, dirty, payments>>

\* An event type the switch does not know is acknowledged and ignored.
WebhookIgnore(r) ==
  /\ Start(r, "payment.other", "done")
  /\ UNCHANGED <<rows, reached, target, seen, entity, dirty, payments>>

\* Mutants of WebhookRecord: the order comes first and the row is left for
\* later; a row is written only for a pending order.
OrderFirst(r, k, o, p) ==
  /\ k \in {"payment.success", "payment.failed"}
  /\ Exists(o)
  /\ Start(r, k, "readOrder")
  /\ target' = [target EXCEPT ![r] = o]
  /\ UNCHANGED <<rows, reached, seen, entity, dirty, payments>>

RecordIfPending(r, k, o, p) ==
  /\ k \in {"payment.success", "payment.failed"}
  /\ Exists(o)
  /\ Start(r, k, "readOrder")
  /\ target' = [target EXCEPT ![r] = o]
  /\ payments' = [payments EXCEPT ![r] =
       IF rows[o]["status"] = "pending"
       THEN [order |-> o, providerPaymentId |-> p, status |-> RowStatus(k)]
       ELSE Null]
  /\ UNCHANGED <<rows, reached, seen, entity, dirty>>

\* paymentRepository.save of a new row.
WebhookRecord(r, k, o, p) ==
  /\ k \in {"payment.success", "payment.failed"}
  /\ Exists(o)
  /\ Start(r, k, "readOrder")
  /\ target' = [target EXCEPT ![r] = o]
  /\ payments' = [payments EXCEPT ![r] =
       [order |-> o, providerPaymentId |-> p, status |-> RowStatus(k)]]
  /\ UNCHANGED <<rows, reached, seen, entity, dirty>>

\* The foreign key of payments.orderId refuses a row for an unknown order.
WebhookUnknownOrder(r, k, o) ==
  /\ k \in {"payment.success", "payment.failed"}
  /\ ~Exists(o)
  /\ Start(r, k, "failed")
  /\ UNCHANGED <<rows, reached, target, seen, entity, dirty, payments>>

\* Mutants of WebhookReadOrder: a payment id seen before is taken as dealt
\* with; the status is not looked at; a settled order is an error.
SkipKnownPayment(r) ==
  LET o == target[r]
      known == \E q \in Request \ {r} : payments[q] # Null
      pending == rows[o]["status"] = "pending" /\ ~known
  IN /\ Continue(r, "readOrder", IF pending THEN "reload" ELSE "ack")
     /\ IF pending THEN LoadAndChange(r, o, OrderOutcome(call[r]))
                   ELSE UNCHANGED <<seen, entity>>
     /\ UNCHANGED <<rows, reached, call, target, dirty, payments>>

UncheckedOutcome(r) ==
  /\ Continue(r, "readOrder", "reload")
  /\ LoadAndChange(r, target[r], OrderOutcome(call[r]))
  /\ UNCHANGED <<rows, reached, call, target, dirty, payments>>

RefuseSettled(r) ==
  LET o == target[r]
      pending == rows[o]["status"] = "pending"
  IN /\ Continue(r, "readOrder", IF pending THEN "reload" ELSE "failed")
     /\ IF pending THEN LoadAndChange(r, o, OrderOutcome(call[r]))
                   ELSE UNCHANGED <<seen, entity>>
     /\ UNCHANGED <<rows, reached, call, target, dirty, payments>>

\* The order is read; only a pending one is changed and saved.
WebhookReadOrder(r) ==
  LET o == target[r]
      pending == rows[o]["status"] = "pending"
  IN /\ Continue(r, "readOrder", IF pending THEN "reload" ELSE "ack")
     /\ IF pending THEN LoadAndChange(r, o, OrderOutcome(call[r]))
                   ELSE UNCHANGED <<seen, entity>>
     /\ UNCHANGED <<rows, reached, call, target, dirty, payments>>

WebhookWrite(r) ==
  /\ call[r] \in {"payment.success", "payment.failed"}
  /\ SaveWrite(r, "ack")
  /\ UNCHANGED payments

\* Mutant of WebhookRefund: one row is looked up and saved.
RefundOne(r, p) ==
  /\ Start(r, "payment.refunded", "ack")
  /\ \E q \in {t \in Request : payments[t] # Null
                                  /\ payments[t].providerPaymentId = p} :
       payments' = [payments EXCEPT ![q].status = "refunded"]
  /\ UNCHANGED <<rows, reached, target, seen, entity, dirty>>

\* One UPDATE of every row with the payment id; the order is not touched.
WebhookRefund(r, p) ==
  /\ Start(r, "payment.refunded", "ack")
  /\ payments' = [q \in Request |->
       IF payments[q] # Null /\ payments[q].providerPaymentId = p
       THEN [payments[q] EXCEPT !.status = "refunded"]
       ELSE payments[q]]
  /\ UNCHANGED <<rows, reached, target, seen, entity, dirty>>

\* { received: true } with status 200.
WebhookAck(r) ==
  /\ Continue(r, "ack", "done")
  /\ UNCHANGED <<rows, reached, call, target, seen, entity, dirty, payments>>

-----------------------------------------------------------------------------
WebhookStart(r) ==
  \/ WebhookReject(r)
  \/ WebhookIgnore(r)
  \/ \E k \in Kind, o \in Order :
       \/ \E p \in PaymentId : WebhookRecord(r, k, o, p)
       \/ WebhookUnknownOrder(r, k, o)
  \/ \E p \in PaymentId : WebhookRefund(r, p)

WebhookStep(r) ==
  \/ WebhookReadOrder(r)
  \/ WebhookWrite(r)
  \/ WebhookAck(r)

PaymentsInit == payments = [r \in Request |-> Null]

PaymentsTypeOK == payments \in [Request -> PaymentRow \cup {Null}]
=============================================================================
