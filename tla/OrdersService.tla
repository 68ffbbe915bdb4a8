---------------------------- MODULE OrdersService ----------------------------
(***************************************************************************)
(* OrdersService: placing an order and changing its status.  Both end with *)
(* side effects outside the database: jobs added to the BullMQ queue and   *)
(* events emitted through OrdersGateway.  What the queue and the gateway   *)
(* do with them is not modelled here.                                      *)
(***************************************************************************)
EXTENDS OrderStore

VARIABLES
  jobs,     \* jobs added to the order queue
  emitted   \* Socket.IO events sent

serviceVars == <<jobs, emitted>>

(***************************************************************************)
(* A job or an event, with the status it reports and the request that      *)
(* produced it.  Those of a new order report no status of their own; the   *)
(* field then is the status the order was saved with.                      *)
(***************************************************************************)
JobName ==
  {"send-order-confirmation", "notify-restaurant", "send-delivery-update"}
EventName == {"new-order", "order-status-update"}

Message(names) ==
  [name : names, order : Order, status : OrderStatus, by : Request]

Report(name, r) ==
  [name |-> name, order |-> target[r], status |-> entity[r]["status"],
   by |-> r]

AddJob(name, r) == jobs' = jobs \cup {Report(name, r)}

Emit(name, r) == emitted' = emitted \cup {Report(name, r)}

-----------------------------------------------------------------------------
(***************************************************************************)
(* create.  The loop over the items reads one menu row per item and either *)
(* accepts them all or throws BadRequest; it changes nothing.              *)
(***************************************************************************)
CreateAccept(r) ==
  /\ Start(r, "create", "insert")
  /\ UNCHANGED <<rows, reached, target, seen, entity, dirty, serviceVars>>

CreateReject(r) ==
  /\ Start(r, "create", "rejected")
  /\ UNCHANGED <<rows, reached, target, seen, entity, dirty, serviceVars>>

\* save(order): one transaction inserts the order and its items.
CreateInsert(r, o) ==
  /\ Continue(r, "insert", "confirmJob")
  /\ ~Exists(o)
  /\ rows' = [rows EXCEPT ![o] = PendingOrder]
  /\ reached' = [reached EXCEPT ![o] = {"pending"}]
  /\ target' = [target EXCEPT ![r] = o]
  /\ UNCHANGED <<call, seen, entity, dirty, serviceVars>>

\* Mutant of CreateAddConfirmation: a failed queue add is swallowed.
SwallowedAdd(r) ==
  /\ Continue(r, "confirmJob", "notifyJob")
  /\ UNCHANGED <<rows, reached, call, target, seen, entity, dirty,
                 serviceVars>>

CreateAddConfirmation(r) ==
  /\ Continue(r, "confirmJob", "notifyJob")
  /\ AddJob("send-order-confirmation", r)
  /\ UNCHANGED <<rows, reached, call, target, seen, entity, dirty, emitted>>

CreateAddNotification(r) ==
  /\ Continue(r, "notifyJob", "broadcast")
  /\ AddJob("notify-restaurant", r)
  /\ UNCHANGED <<rows, reached, call, target, seen, entity, dirty, emitted>>

\* broadcastToAll('new-order') and the 201 answer, in one turn.
CreateBroadcast(r) ==
  /\ Continue(r, "broadcast", "done")
  /\ Emit("new-order", r)
  /\ UNCHANGED <<rows, reached, call, target, seen, entity, dirty, jobs>>

-----------------------------------------------------------------------------
(***************************************************************************)
(* updateStatus.  The row is read, then checked and changed in memory; the *)
(* save and the notifications follow.  RolesGuard lets only admins and     *)
(* owners in, so the ownership check of findOne (for customers) never      *)
(* rejects here.                                                           *)
(***************************************************************************)
\* Mutant of UpdateRead: the transition is not checked.
UncheckedUpdate(r, o, newStatus) ==
  /\ Exists(o)
  /\ rows[o]["status"] # newStatus
  /\ Start(r, "updateStatus", "reload")
  /\ target' = [target EXCEPT ![r] = o]
  /\ LoadAndChange(r, o, newStatus)
  /\ UNCHANGED <<rows, reached, dirty, serviceVars>>

UpdateRead(r, o, newStatus) ==
  /\ Exists(o)
  /\ canTransition(rows[o]["status"], newStatus)
  /\ Start(r, "updateStatus", "reload")
  /\ target' = [target EXCEPT ![r] = o]
  /\ LoadAndChange(r, o, newStatus)
  /\ UNCHANGED <<rows, reached, dirty, serviceVars>>

\* 404, or 400 for a transition the table does not have.
UpdateReject(r, o, newStatus) ==
  /\ Exists(o) => ~canTransition(rows[o]["status"], newStatus)
  /\ Start(r, "updateStatus", "rejected")
  /\ UNCHANGED <<rows, reached, target, seen, entity, dirty, serviceVars>>

\* Mutant of UpdateWrite: a failed save is swallowed.
SwallowedSave(r) ==
  /\ call[r] = "updateStatus"
  /\ Continue(r, "write", "enqueue")
  /\ UNCHANGED <<rows, reached, call, target, seen, entity, dirty,
                 serviceVars>>

UpdateWrite(r) ==
  /\ call[r] = "updateStatus"
  /\ SaveWrite(r, "enqueue")
  /\ UNCHANGED serviceVars

UpdateEnqueue(r) ==
  /\ Continue(r, "enqueue", "notify")
  /\ AddJob("send-delivery-update", r)
  /\ UNCHANGED <<rows, reached, call, target, seen, entity, dirty, emitted>>

\* notifyOrderStatus to the room of the order and the 200 answer, in one turn.
UpdateNotify(r) ==
  /\ Continue(r, "notify", "done")
  /\ Emit("order-status-update", r)
  /\ UNCHANGED <<rows, reached, call, target, seen, entity, dirty, jobs>>

-----------------------------------------------------------------------------
OrdersStart(r) ==
  \/ CreateAccept(r)
  \/ CreateReject(r)
  \/ \E o \in Order, s \in OrderStatus :
       UpdateRead(r, o, s) \/ UpdateReject(r, o, s)

OrdersStep(r) ==
  \/ \E o \in Order : CreateInsert(r, o)
  \/ CreateAddConfirmation(r)
  \/ CreateAddNotification(r)
  \/ CreateBroadcast(r)
  \/ UpdateWrite(r)
  \/ UpdateEnqueue(r)
  \/ UpdateNotify(r)

OrdersInit ==
  /\ jobs = {}
  /\ emitted = {}

OrdersTypeOK ==
  /\ jobs \subseteq Message(JobName)
  /\ emitted \subseteq Message(EventName)
=============================================================================
