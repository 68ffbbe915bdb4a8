----------------------------- MODULE OrderStore -----------------------------
(***************************************************************************)
(* The orders table, the state each request keeps between two awaits, and  *)
(* TypeORM's repository.save(entity), which every status change goes       *)
(* through.                                                                *)
(*                                                                         *)
(* A request is one call of a handler.  Node runs the code between two     *)
(* awaits without interruption, so each action of the handlers is the code *)
(* from one await to the next; everything else may run in between.         *)
(***************************************************************************)
EXTENDS OrderStateMachine, FiniteSets, Naturals

CONSTANTS
  Order,        \* order ids
  Request,      \* one element per handler call
  Null,         \* a null column, and the row of an order that does not exist
  MaxInFlight   \* bound: how many requests are open at a time

ASSUME LoadAssumption == MaxInFlight \in Nat \ {0}

VARIABLES
  rows,      \* orders table: order id -> entity, Null before the insert
  reached,   \* history: the statuses the row of an order has had
  pc,        \* where a request is suspended
  call,      \* which handler a request runs
  target,    \* the order a request works on
  seen,      \* history: the row a request read before it changed its entity
  entity,    \* the changed entity in the memory of a request
  dirty      \* the columns the request's save is about to UPDATE

storeVars == <<rows, reached, pc, call, target, seen, entity, dirty>>

Stamp == Request \cup {Null}

Entity ==
  {e \in [Column -> OrderStatus \cup Stamp] :
     e["status"] \in OrderStatus /\ \A c \in AuditColumn : e[c] \in Stamp}

\* Null stands for nothing else.
ASSUME NullAssumption == Null \notin Request /\ Null \notin Entity

PendingOrder == [c \in Column |-> IF c = "status" THEN "pending" ELSE Null]

Suspended ==
  {"insert", "confirmJob", "notifyJob", "broadcast", "readOrder", "reload",
   "write", "enqueue", "notify", "ack"}

Finished == {"done", "rejected", "failed"}

Exists(o) == rows[o] # Null

Kind ==
  {"create", "updateStatus", "payment.success", "payment.failed",
   "payment.refunded", "payment.other"}

\* Room for one more open request.
Admitted == Cardinality({r \in Request : pc[r] \in Suspended}) < MaxInFlight

\* Request r starts as a call of kind k and suspends (or ends) at location l.
Start(r, k, l) ==
  /\ pc[r] = "idle"
  /\ Admitted
  /\ call' = [call EXCEPT ![r] = k]
  /\ pc' = [pc EXCEPT ![r] = l]

Continue(r, from, to) ==
  /\ pc[r] = from
  /\ pc' = [pc EXCEPT ![r] = to]

\* r has read the row of o, and holds it with status newStatus in memory.
LoadAndChange(r, o, newStatus) ==
  /\ seen' = [seen EXCEPT ![r] = rows[o]]
  /\ entity' = [entity EXCEPT ![r] = transition(rows[o], newStatus, r)]

(***************************************************************************)
(* repository.save(entity) of an entity that has an id reads the row again *)
(* and compares: the columns that differ from the entity are the ones it   *)
(* will UPDATE.  No lock is taken and no version is checked.               *)
(***************************************************************************)
SaveReload(r) ==
  /\ Continue(r, "reload", "write")
  /\ dirty' = [dirty EXCEPT ![r] =
                 {c \in Column : entity[r][c] # rows[target[r]][c]}]
  /\ UNCHANGED <<rows, reached, call, target, seen, entity>>

\* Then it writes those columns, whatever the row has become meanwhile.
SaveWrite(r, next) ==
  LET o == target[r]
      row == [c \in Column |->
                IF c \in dirty[r] THEN entity[r][c] ELSE rows[o][c]]
  IN /\ Continue(r, "write", next)
     /\ rows' = [rows EXCEPT ![o] = row]
     /\ reached' = [reached EXCEPT ![o] = @ \cup {row["status"]}]
     /\ UNCHANGED <<call, target, seen, entity, dirty>>

(***************************************************************************)
(* A suspended request dies: the awaited database or Redis call throws, or *)
(* the process stops.  What was committed stays, the rest is forgotten.    *)
(***************************************************************************)
Abort(r) ==
  /\ pc[r] \in Suspended
  /\ pc' = [pc EXCEPT ![r] = "failed"]
  /\ UNCHANGED <<rows, reached, call, target, seen, entity, dirty>>

StoreInit ==
  /\ rows = [o \in Order |-> Null]
  /\ reached = [o \in Order |-> {}]
  /\ pc = [r \in Request |-> "idle"]
  /\ call = [r \in Request |-> Null]
  /\ target = [r \in Request |-> Null]
  /\ seen = [r \in Request |-> PendingOrder]
  /\ entity = [r \in Request |-> PendingOrder]
  /\ dirty = [r \in Request |-> {}]

StoreTypeOK ==
  /\ rows \in [Order -> Entity \cup {Null}]
  /\ reached \in [Order -> SUBSET OrderStatus]
  /\ pc \in [Request -> {"idle"} \cup Suspended \cup Finished]
  /\ call \in [Request -> Kind \cup {Null}]
  /\ target \in [Request -> Order \cup {Null}]
  /\ seen \in [Request -> Entity]
  /\ entity \in [Request -> Entity]
  /\ dirty \in [Request -> SUBSET Column]
=============================================================================
