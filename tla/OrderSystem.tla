----------------------------- MODULE OrderSystem -----------------------------
(***************************************************************************)
(* OrdersService and PaymentsService over one orders table.  Any number of *)
(* their requests (up to MaxInFlight) are open at once and interleave at   *)
(* every await; any open request may die at any await.                     *)
(***************************************************************************)
EXTENDS OrdersService, PaymentsService

vars == <<storeVars, serviceVars, payments>>

Init == StoreInit /\ OrdersInit /\ PaymentsInit

Save(r) == SaveReload(r) /\ UNCHANGED <<serviceVars, payments>>

Die(r) == Abort(r) /\ UNCHANGED <<serviceVars, payments>>

\* A new request arrives.
Arrive(r) ==
  \/ OrdersStart(r) /\ UNCHANGED payments
  \/ WebhookStart(r) /\ UNCHANGED serviceVars

\* An open request runs to its next await or to its end.
Resume(r) ==
  \/ OrdersStep(r) /\ UNCHANGED payments
  \/ WebhookStep(r) /\ UNCHANGED serviceVars
  \/ Save(r)

Next == \E r \in Request : Arrive(r) \/ Resume(r) \/ Die(r)

Spec == Init /\ [][Next]_vars

-----------------------------------------------------------------------------
(* The types of all the variables. *)
TypeOK == StoreTypeOK /\ OrdersTypeOK /\ PaymentsTypeOK

(***************************************************************************)
(* Interleaved requests never make an order skip a stage: whatever status  *)
(* a row has ever had, it has also had one the table allows before it.     *)
(* updateStatus and the webhook check the status they read, and write      *)
(* without checking it again; a status can be written late, but not out of *)
(* nothing.                                                                *)
(***************************************************************************)
NoStageSkipped ==
  \A o \in Order : \A s \in reached[o] :
    s = "pending" \/ \E t \in reached[o] : canTransition(t, s)

(***************************************************************************)
(* A stamp in an audit column is never invented: the order has really been *)
(* in that status.  The save writes the stamp and the status as separate   *)
(* columns of a difference, and may write the one without the other.       *)
(***************************************************************************)
AuditStampsTruthful ==
  \A o \in Order : Exists(o) =>
    \A c \in AuditColumn : rows[o][c] # Null => StatusOf(c) \in reached[o]

(***************************************************************************)
(* No job and no event reports a status that was not committed first, even *)
(* when requests fail between the save and the notifications.              *)
(***************************************************************************)
ReportsCommitted ==
  \A m \in jobs \cup emitted : m.status \in reached[m.order]

(***************************************************************************)
(* The side effects of a request form a prefix of their fixed order: an    *)
(* event is emitted only after the jobs of the same request are queued,    *)
(* and the restaurant is notified only after the confirmation is queued.   *)
(* A failed queue add leaves the later effects out, never an earlier one.  *)
(***************************************************************************)
EffectsInOrder ==
  /\ \A m \in emitted :
       [m EXCEPT !.name = IF m.name = "new-order" THEN "notify-restaurant"
                          ELSE "send-delivery-update"] \in jobs
  /\ \A m \in jobs : m.name = "notify-restaurant" =>
       [m EXCEPT !.name = "send-order-confirmation"] \in jobs

(***************************************************************************)
(* An order confirmed by a payment has the payment to show for it: when    *)
(* the confirmation stamp is a webhook's, the row of that delivery is in   *)
(* the payments table, for this order, as paid or since refunded.  The row *)
(* is written in an earlier transaction than the stamp.                    *)
(***************************************************************************)
ConfirmationHasPayment ==
  \A o \in Order, r \in Request :
    /\ Exists(o)
    /\ rows[o]["confirmedAt"] = r
    /\ call[r] = "payment.success"
    => /\ payments[r] # Null
       /\ payments[r].order = o
       /\ payments[r].status \in {"success", "refunded"}

(***************************************************************************)
(* Once a payment.success or payment.failed delivery is acknowledged, and  *)
(* the provider will not send it again, its order is not waiting for the   *)
(* payment any more, whatever other requests were doing at the time.       *)
(***************************************************************************)
AckedPaymentSettles ==
  \A r \in Request :
    /\ pc[r] = "done"
    /\ call[r] \in {"payment.success", "payment.failed"}
    => rows[target[r]]["status"] # "pending"

(***************************************************************************)
(* No write, however stale, makes an order pending again.                  *)
(***************************************************************************)
NeverPendingAgain ==
  [][\A o \in Order :
       Exists(o) /\ rows[o]["status"] # "pending"
         => rows[o]["status"]' # "pending"]_vars

(***************************************************************************)
(* A status change outside the table of transitions happens only when the  *)
(* row is not what the writing request had read.  A compare-and-set (or a  *)
(* row lock) in save would therefore be enough to enforce the table.       *)
(***************************************************************************)
OnlyStaleWritesBreakTheTable ==
  [][\A o \in Order :
       /\ Exists(o)
       /\ rows[o]["status"]' # rows[o]["status"]
       /\ ~canTransition(rows[o]["status"], rows[o]["status"]')
       => \E r \in Request :
            /\ pc[r] = "write" /\ pc[r]' # "write"
            /\ target[r] = o
            /\ seen[r] # rows[o]]_vars

-----------------------------------------------------------------------------
(***************************************************************************)
(* README.md:203 says that invalid transitions are rejected instead of     *)
(* written.  A status change of an existing order is one of the table.     *)
(***************************************************************************)
LegalTransitions ==
  [][\A o \in Order :
       Exists(o) /\ rows[o]["status"]' # rows[o]["status"]
         => canTransition(rows[o]["status"], rows[o]["status"]')]_vars

(***************************************************************************)
(* README.md:153 promises a live update over the order's room, so that the *)
(* client never has to poll: when nothing is open and nothing has failed,  *)
(* every status an order has reached since it was placed has been emitted. *)
(***************************************************************************)
StatusChangesEmitted ==
  (\A r \in Request : pc[r] \in {"idle", "done", "rejected"}) =>
    \A o \in Order : \A s \in reached[o] \ {"pending"} :
      \E m \in emitted :
        m.name = "order-status-update" /\ m.order = o /\ m.status = s

-----------------------------------------------------------------------------
(***************************************************************************)
(* What the order table keeps of the promise of OrderLifecycle, whose      *)
(* absent order is no other state of an order.                             *)
(***************************************************************************)
ASSUME AbsentAssumption ==
  Null \notin [status : OrderStatus, stamped : SUBSET OrderStatus]

StampsOf(e) == {StatusOf(c) : c \in {d \in AuditColumn : e[d] # Null}}

StateOf(o) ==
  IF Exists(o)
  THEN [status |-> rows[o]["status"], stamped |-> StampsOf(rows[o])]
  ELSE Null

orderStates == [o \in Order |-> StateOf(o)]

Lifecycle == INSTANCE OrderLifecycle WITH
  Absent <- Null,
  state <- orderStates

\* With one request at a time the promise is kept.
LifecycleSpec == Lifecycle!Spec

\* Request r completes a save although the row is no longer what findOne
\* read, or what save itself read again to find the columns that differ.
StaleSave(r) ==
  /\ pc[r] = "write" /\ pc[r]' # "write"
  /\ LET row == rows[target[r]]
     IN \/ seen[r] # row
        \/ dirty[r] # {c \in Column : entity[r][c] # row[c]}

(***************************************************************************)
(* Whatever requests are open together, each step of the orders table is   *)
(* one of OrderLifecycle, stamps included: an order is placed pending      *)
(* without a stamp, enters the next stage or is cancelled, and bears       *)
(* exactly one stamp more, that of the stage it enters.  Only a stale save *)
(* can do anything else to a row: mix the status of one request with the   *)
(* stamps of another, or erase a stamp that the row had got meanwhile.     *)
(***************************************************************************)
LifecycleUnlessStale ==
  [][(\E r \in Request : StaleSave(r)) \/ Lifecycle!Next]_orderStates
=============================================================================
