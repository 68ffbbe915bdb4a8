------------------------- MODULE OrderStateMachine -------------------------
(***************************************************************************)
(* The order state machine: the statuses, the table of allowed transitions *)
(* and the transition operation of OrderStateMachineService.  Pure data    *)
(* and operators; the actors that apply them are in OrdersService and      *)
(* PaymentsService.                                                        *)
(*                                                                         *)
(* An Order entity is a function from its mutable columns to values.  The  *)
(* columns that no operation changes after the insert (amount, address,    *)
(* notes, customer, restaurant, items) are left out.                       *)
(***************************************************************************)

OrderStatus ==
  {"pending", "confirmed", "preparing", "out_for_delivery", "delivered",
   "cancelled"}

\* Mutant of the table: a cancelled order can be opened again.
ReopenTransitions ==
  [s \in OrderStatus |->
     CASE s = "pending"   -> {"confirmed", "cancelled"}
       [] s = "confirmed" -> {"preparing", "cancelled"}
       [] s = "cancelled" -> {"pending"}
       [] OTHER           -> {}]

VALID_TRANSITIONS ==
  [s \in OrderStatus |->
     CASE s = "pending"          -> {"confirmed", "cancelled"}
       [] s = "confirmed"        -> {"preparing", "cancelled"}
       [] s = "preparing"        -> {"out_for_delivery", "cancelled"}
       [] s = "out_for_delivery" -> {"delivered"}
       [] s = "delivered"        -> {}
       [] s = "cancelled"        -> {}]

canTransition(from, to) == to \in VALID_TRANSITIONS[from]

(***************************************************************************)
(* The audit columns.  Entering "pending" or "out_for_delivery" stamps     *)
(* nothing: the switch in transition has no case for them.                 *)
(***************************************************************************)
AuditColumn ==
  {"confirmedAt", "preparedAt", "deliveredAt", "cancelledAt"}

Column == {"status"} \cup AuditColumn

\* The status whose entry a column records.
StatusOf(c) ==
  CASE c = "confirmedAt" -> "confirmed"
    [] c = "preparedAt"  -> "preparing"
    [] c = "deliveredAt" -> "delivered"
    [] c = "cancelledAt" -> "cancelled"

\* Mutants of transition: the status lands in the stamp column; a case
\* without its break; no case for "cancelled".
SwappedStamp(order, newStatus, now) ==
  [c \in Column |->
     IF c = "status" \/ StatusOf(c) = newStatus THEN newStatus ELSE order[c]]

FallThrough(order, newStatus, now) ==
  [c \in Column |->
     IF c = "status" THEN newStatus
     ELSE IF \/ StatusOf(c) = newStatus
             \/ newStatus = "confirmed" /\ c = "preparedAt" THEN now
     ELSE order[c]]

NoCancelledCase(order, newStatus, now) ==
  [c \in Column |->
     IF c = "status" THEN newStatus
     ELSE IF StatusOf(c) = newStatus /\ newStatus # "cancelled" THEN now
     ELSE order[c]]

(***************************************************************************)
(* The entity after status := newStatus and the stamp that goes with it.   *)
(* A timestamp is represented by who wrote it: `now' is the request that   *)
(* stamps, so stamps of different requests differ, as they do unless two   *)
(* requests stamp a column within the same millisecond.                    *)
(***************************************************************************)
transition(order, newStatus, now) ==
  [c \in Column |->
     IF c = "status" THEN newStatus
     ELSE IF StatusOf(c) = newStatus THEN now
     ELSE order[c]]
=============================================================================
