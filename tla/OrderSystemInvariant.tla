------------------------ MODULE OrderSystemInvariant ------------------------
(***************************************************************************)
(* The inductive invariant of OrderSystem: what has to be true of requests *)
(* in the middle of their handlers for the safety properties to survive    *)
(* every step.  OrderSystemProofs proves it and derives the properties.    *)
(***************************************************************************)
EXTENDS OrderSystem

\* Locations after the request has fixed the order it works on.
HasTarget ==
  {"confirmJob", "notifyJob", "broadcast", "readOrder", "reload", "write",
   "enqueue", "notify"}

PaymentCall == {"payment.success", "payment.failed"}

Settles(r) == pc[r] \in {"ack", "done"} /\ call[r] \in PaymentCall

\* r holds a changed entity that is not written yet.
InWindow(r) == pc[r] \in {"reload", "write"}

(* Control: which handler can be suspended where, on which order. *)
ControlInv ==
  \A r \in Request :
    /\ pc[r] \in HasTarget => target[r] \in Order /\ Exists(target[r])
    /\ Settles(r) => target[r] \in Order /\ Exists(target[r])
    /\ pc[r] \in {"insert", "confirmJob", "notifyJob", "broadcast"}
         => call[r] = "create"
    /\ pc[r] \in {"enqueue", "notify"} => call[r] = "updateStatus"
    /\ pc[r] = "readOrder" => call[r] \in PaymentCall
    /\ pc[r] \in {"idle", "insert", "confirmJob", "notifyJob", "broadcast"}
         => entity[r]["status"] = "pending"

(* The history of a row agrees with the row. *)
HistoryInv ==
  \A o \in Order :
    /\ Exists(o) => rows[o]["status"] \in reached[o]
    /\ ~Exists(o) => reached[o] = {}

(***************************************************************************)
(* What a request read is part of the row's history, what it holds is that *)
(* row after one transition of the table, and its stamps record the        *)
(* history or the change itself.                                           *)
(***************************************************************************)
WindowInv ==
  \A r \in Request : InWindow(r) =>
    /\ seen[r]["status"] \in reached[target[r]]
    /\ canTransition(seen[r]["status"], entity[r]["status"])
    /\ entity[r] = transition(seen[r], entity[r]["status"], r)
    /\ \A c \in AuditColumn : entity[r][c] # Null =>
         \/ StatusOf(c) \in reached[target[r]]
         \/ StatusOf(c) = entity[r]["status"]

(***************************************************************************)
(* A save that leaves the status column out found the row with the status  *)
(* it was to write; since no write makes an order pending, the row is not  *)
(* pending when the save completes.                                        *)
(***************************************************************************)
CleanInv ==
  \A r \in Request : pc[r] = "write" /\ "status" \notin dirty[r] =>
    /\ entity[r]["status"] \in reached[target[r]]
    /\ rows[target[r]]["status"] # "pending"

(* A payment call that has gone past its save left no pending order. *)
SettledInv ==
  \A r \in Request : Settles(r) => rows[target[r]]["status"] # "pending"

StoreInv ==
  /\ ControlInv
  /\ HistoryInv
  /\ WindowInv
  /\ CleanInv
  /\ SettledInv
  /\ NoStageSkipped
  /\ AuditStampsTruthful

(* What a request has announced so far, by the place it is suspended at. *)
Announced(r) ==
  /\ pc[r] \in {"notifyJob", "broadcast"}
       => Report("send-order-confirmation", r) \in jobs
  /\ pc[r] = "broadcast" => Report("notify-restaurant", r) \in jobs
  /\ pc[r] = "notify" => Report("send-delivery-update", r) \in jobs
  /\ pc[r] \in {"confirmJob", "notifyJob", "broadcast", "enqueue", "notify"}
       => entity[r]["status"] \in reached[target[r]]

EffectsInv ==
  /\ \A r \in Request : Announced(r)
  /\ ReportsCommitted
  /\ EffectsInOrder

(* The payment row of delivery r backs a confirmation of order o. *)
Backed(r, o) ==
  /\ payments[r] # Null
  /\ payments[r].order = o
  /\ payments[r].status \in {"success", "refunded"}

(***************************************************************************)
(* Every confirmation stamp, in a row or in the memory of a request, is of *)
(* a request that has started; if that is a webhook's, its row backs it.   *)
(***************************************************************************)
BackingInv ==
  \A q \in Request :
    /\ \A o \in Order : Exists(o) /\ rows[o]["confirmedAt"] = q =>
         /\ pc[q] # "idle"
         /\ call[q] = "payment.success" => Backed(q, o)
    /\ \A r \in Request : InWindow(r) /\ entity[r]["confirmedAt"] = q =>
         /\ pc[q] # "idle"
         /\ call[q] = "payment.success" => Backed(q, target[r])
    /\ pc[q] = "readOrder" /\ call[q] = "payment.success" =>
         Backed(q, target[q])

(* The strengthening of all the safety invariants together. *)
Inv == StoreInv /\ EffectsInv /\ BackingInv

-----------------------------------------------------------------------------
(***************************************************************************)
(* With MaxInFlight = 1 there is one open request at most, so what it read *)
(* is still the row when it writes, and its save leaves out only what      *)
(* would not change.                                                       *)
(***************************************************************************)
Open == {r \in Request : pc[r] \in Suspended}

SoloInv == \A q, r \in Open : q = r

CurrentInv ==
  \A r \in Request : InWindow(r) =>
    /\ seen[r] = rows[target[r]]
    /\ pc[r] = "write" =>
         dirty[r] = {c \in Column : entity[r][c] # rows[target[r]][c]}

SerialInv == SoloInv /\ CurrentInv
=============================================================================
