-------------------------- MODULE OrderSystemProofs --------------------------
(***************************************************************************)
(* Proofs about OrderSystem for any sets of orders, requests and payment   *)
(* ids and any load: type correctness first, then the inductive invariant  *)
(* of OrderSystemInvariant, then the properties it implies.                *)
(***************************************************************************)
EXTENDS OrderSystemInvariant, FiniteSetTheorems, TLAPS

(* The entity a transition returns is again an entity. *)
LEMMA TransitionType ==
  ASSUME NEW e \in Entity, NEW s \in OrderStatus, NEW r \in Request
  PROVE  transition(e, s, r) \in Entity
<1>1. transition(e, s, r) \in [Column -> OrderStatus \cup Stamp]
  BY DEF transition, Entity, Column, AuditColumn, StatusOf, Stamp
<1>2. transition(e, s, r)["status"] \in OrderStatus
  BY DEF transition, Column
<1>3. \A c \in AuditColumn : transition(e, s, r)[c] \in Stamp
  BY DEF transition, Entity, Column, AuditColumn, StatusOf, Stamp
<1> QED BY <1>1, <1>2, <1>3 DEF Entity

LEMMA PendingOrderType ==
  /\ PendingOrder \in Entity
  /\ PendingOrder["status"] = "pending"
  /\ \A c \in AuditColumn : PendingOrder[c] = Null
  BY DEF PendingOrder, Entity, Column, AuditColumn, Stamp, OrderStatus

(* A stored row is never the absent one. *)
LEMMA EntityNotNull == ASSUME NEW e \in Entity PROVE e # Null
  BY NullAssumption

-----------------------------------------------------------------------------
(* Type correctness. *)

LEMMA InitType == Init => TypeOK
  BY PendingOrderType
  DEF Init, StoreInit, OrdersInit, PaymentsInit, TypeOK, StoreTypeOK,
      OrdersTypeOK, PaymentsTypeOK

(* Queueing a job or emitting an event keeps the messages well formed. *)
LEMMA ReportType ==
  ASSUME StoreTypeOK, NEW r \in Request, target[r] \in Order,
         NEW names, NEW name \in names
  PROVE  Report(name, r) \in Message(names)
  BY DEF Report, Message, StoreTypeOK, Entity

(***************************************************************************)
(* What a save writes: an entity, made of the dirty columns in memory and  *)
(* of the other columns as the row has them by then.                       *)
(***************************************************************************)
LEMMA WrittenRow ==
  ASSUME TypeOK, ControlInv, NEW r \in Request, NEW next, SaveWrite(r, next)
  PROVE  /\ target[r] \in Order /\ Exists(target[r])
         /\ \E row \in Entity :
              /\ rows' = [rows EXCEPT ![target[r]] = row]
              /\ reached' = [reached EXCEPT ![target[r]] =
                               @ \cup {row["status"]}]
              /\ \A c \in Column :
                   row[c] = IF c \in dirty[r] THEN entity[r][c]
                            ELSE rows[target[r]][c]
<1> DEFINE o == target[r]
           row == [c \in Column |->
                     IF c \in dirty[r] THEN entity[r][c] ELSE rows[o][c]]
<1>1. o \in Order /\ Exists(o) /\ rows[o] \in Entity /\ entity[r] \in Entity
  BY DEF SaveWrite, Continue, ControlInv, HasTarget, Exists, TypeOK,
     StoreTypeOK
<1>2. row \in Entity
  BY <1>1 DEF Entity, Column, AuditColumn
<1>3. /\ rows' = [rows EXCEPT ![o] = row]
      /\ reached' = [reached EXCEPT ![o] = @ \cup {row["status"]}]
  BY DEF SaveWrite
<1>4. \A c \in Column :
        row[c] = IF c \in dirty[r] THEN entity[r][c] ELSE rows[target[r]][c]
  OBVIOUS
<1> HIDE DEF row
<1> QED BY <1>1, <1>2, <1>3, <1>4

(***************************************************************************)
(* One step of a request keeps the types, given that it has a target where *)
(* its handler needs one.                                                  *)
(***************************************************************************)
LEMMA TypeStep ==
  ASSUME TypeOK, ControlInv, NEW r \in Request,
         Arrive(r) \/ Resume(r) \/ Die(r)
  PROVE  TypeOK'
<1> USE DEF TypeOK, StoreTypeOK, OrdersTypeOK, PaymentsTypeOK
<1>1. CASE CreateAccept(r) /\ UNCHANGED payments
  BY <1>1 DEF CreateAccept, Start, serviceVars, Suspended, Kind
<1>2. CASE CreateReject(r) /\ UNCHANGED payments
  BY <1>2 DEF CreateReject, Start, serviceVars, Finished, Kind
<1>3. ASSUME NEW o \in Order, CreateInsert(r, o), UNCHANGED payments
      PROVE  TypeOK'
  BY <1>3, PendingOrderType
  DEF CreateInsert, Continue, serviceVars, Suspended, OrderStatus
<1>4. CASE CreateAddConfirmation(r) /\ UNCHANGED payments
  <2>1. Report("send-order-confirmation", r) \in Message(JobName)
    BY <1>4, ReportType
    DEF CreateAddConfirmation, Continue, ControlInv, HasTarget, JobName
  <2> QED
    BY <1>4, <2>1 DEF CreateAddConfirmation, Continue, AddJob, Suspended
<1>5. CASE CreateAddNotification(r) /\ UNCHANGED payments
  <2>1. Report("notify-restaurant", r) \in Message(JobName)
    BY <1>5, ReportType
    DEF CreateAddNotification, Continue, ControlInv, HasTarget, JobName
  <2> QED
    BY <1>5, <2>1 DEF CreateAddNotification, Continue, AddJob, Suspended
<1>6. CASE CreateBroadcast(r) /\ UNCHANGED payments
  <2>1. Report("new-order", r) \in Message(EventName)
    BY <1>6, ReportType
    DEF CreateBroadcast, Continue, ControlInv, HasTarget, EventName
  <2> QED
    BY <1>6, <2>1 DEF CreateBroadcast, Continue, Emit, Finished
<1>7. ASSUME NEW o \in Order, NEW s \in OrderStatus, UpdateRead(r, o, s),
             UNCHANGED payments
      PROVE  TypeOK'
  <2>1. rows[o] \in Entity
    BY <1>7 DEF UpdateRead, Exists
  <2>2. transition(rows[o], s, r) \in Entity
    BY <2>1, TransitionType
  <2> QED
    BY <1>7, <2>1, <2>2
    DEF UpdateRead, LoadAndChange, Start, serviceVars, Suspended, Kind
<1>8. ASSUME NEW o \in Order, NEW s \in OrderStatus, UpdateReject(r, o, s),
             UNCHANGED payments
      PROVE  TypeOK'
  BY <1>8 DEF UpdateReject, Start, serviceVars, Finished, Kind
<1>9. ASSUME NEW next \in Suspended, SaveWrite(r, next),
             UNCHANGED <<serviceVars, payments>>
      PROVE  TypeOK'
  <2>1. PICK row \in Entity :
          /\ rows' = [rows EXCEPT ![target[r]] = row]
          /\ reached' = [reached EXCEPT ![target[r]] = @ \cup {row["status"]}]
    BY <1>9, WrittenRow
  <2>2. row["status"] \in OrderStatus
    BY DEF Entity
  <2>3. /\ rows' \in [Order -> Entity \cup {Null}]
        /\ reached' \in [Order -> SUBSET OrderStatus]
    BY <2>1, <2>2
  <2>4. /\ pc' = [pc EXCEPT ![r] = next]
        /\ UNCHANGED <<call, target, seen, entity, dirty>>
    BY <1>9 DEF SaveWrite, Continue
  <2> QED
    BY <1>9, <2>3, <2>4 DEF serviceVars
<1>10. CASE UpdateEnqueue(r) /\ UNCHANGED payments
  <2>1. Report("send-delivery-update", r) \in Message(JobName)
    BY <1>10, ReportType
    DEF UpdateEnqueue, Continue, ControlInv, HasTarget, JobName
  <2> QED
    BY <1>10, <2>1 DEF UpdateEnqueue, Continue, AddJob, Suspended
<1>11. CASE UpdateNotify(r) /\ UNCHANGED payments
  <2>1. Report("order-status-update", r) \in Message(EventName)
    BY <1>11, ReportType
    DEF UpdateNotify, Continue, ControlInv, HasTarget, EventName
  <2> QED
    BY <1>11, <2>1 DEF UpdateNotify, Continue, Emit, Finished
<1>12. CASE (WebhookReject(r) \/ WebhookIgnore(r)) /\ UNCHANGED serviceVars
  BY <1>12
  DEF WebhookReject, WebhookIgnore, Start, serviceVars, Finished, Kind
<1>13. ASSUME NEW k \in Kind, NEW o \in Order, NEW p \in PaymentId,
              WebhookRecord(r, k, o, p), UNCHANGED serviceVars
       PROVE  TypeOK'
  <2>1. [order |-> o, providerPaymentId |-> p, status |-> RowStatus(k)]
          \in PaymentRow
    BY DEF PaymentRow, RowStatus, PaymentStatus
  <2> QED
    BY <1>13, <2>1 DEF WebhookRecord, Start, serviceVars, Suspended, Kind
<1>14. ASSUME NEW k \in Kind, NEW o \in Order,
              WebhookUnknownOrder(r, k, o), UNCHANGED serviceVars
       PROVE  TypeOK'
  BY <1>14 DEF WebhookUnknownOrder, Start, serviceVars, Finished, Kind
<1>15. ASSUME NEW p \in PaymentId, WebhookRefund(r, p),
              UNCHANGED serviceVars
       PROVE  TypeOK'
  <2>1. payments' \in [Request -> PaymentRow \cup {Null}]
    BY <1>15 DEF WebhookRefund, PaymentRow, PaymentStatus
  <2> QED
    BY <1>15, <2>1 DEF WebhookRefund, Start, serviceVars, Suspended, Kind
<1>16. CASE WebhookReadOrder(r) /\ UNCHANGED serviceVars
  <2> DEFINE o == target[r]
  <2>1. o \in Order /\ rows[o] \in Entity
    BY <1>16 DEF WebhookReadOrder, Continue, ControlInv, HasTarget, Exists
  <2>2. transition(rows[o], OrderOutcome(call[r]), r) \in Entity
    BY <2>1, TransitionType DEF OrderOutcome, OrderStatus
  <2> QED
    BY <1>16, <2>1, <2>2
    DEF WebhookReadOrder, LoadAndChange, Continue, serviceVars, Suspended
<1>17. CASE WebhookAck(r) /\ UNCHANGED serviceVars
  BY <1>17 DEF WebhookAck, Continue, serviceVars, Finished
<1>18. CASE Save(r)
  BY <1>18 DEF Save, SaveReload, Continue, serviceVars, Suspended
<1>19. CASE Die(r)
  BY <1>19 DEF Die, Abort, serviceVars, Finished
<1>20. CASE UpdateWrite(r) /\ UNCHANGED payments
  BY <1>9, <1>20 DEF UpdateWrite, Suspended
<1>21. CASE WebhookWrite(r) /\ UNCHANGED serviceVars
  BY <1>9, <1>21 DEF WebhookWrite, Suspended
<1> QED
  BY <1>1, <1>2, <1>3, <1>4, <1>5, <1>6, <1>7, <1>8, <1>10, <1>11, <1>12,
     <1>13, <1>14, <1>15, <1>16, <1>17, <1>18, <1>19, <1>20, <1>21
  DEF Arrive, Resume, OrdersStart, OrdersStep, WebhookStart, WebhookStep

-----------------------------------------------------------------------------
(***************************************************************************)
(* What a step does to the store, whichever handler takes it: nothing but  *)
(* control (Quiet), an insert, a read that fixes a change (Load), or one   *)
(* of the two halves of a save.                                            *)
(***************************************************************************)

Step(r) == Arrive(r) \/ Resume(r) \/ Die(r)

Others(r) ==
  \A q \in Request \ {r} :
    /\ pc'[q] = pc[q] /\ call'[q] = call[q] /\ target'[q] = target[q]
    /\ seen'[q] = seen[q] /\ entity'[q] = entity[q] /\ dirty'[q] = dirty[q]

Quiet(r) ==
  /\ UNCHANGED <<rows, reached, seen, entity, dirty>>
  /\ pc'[r] \notin {"idle", "reload", "write"}
  /\ pc'[r] \in HasTarget \/ Settles(r)'
       => target'[r] \in Order /\ Exists(target'[r])
  /\ Settles(r)' => rows[target'[r]]["status"] # "pending"
  /\ pc'[r] = "readOrder" => call'[r] \in PaymentCall
  /\ pc'[r] \in {"insert", "confirmJob", "notifyJob", "broadcast"}
       => entity[r]["status"] = "pending"

Insert(r, o) ==
  /\ ~Exists(o)
  /\ rows' = [rows EXCEPT ![o] = PendingOrder]
  /\ reached' = [reached EXCEPT ![o] = {"pending"}]
  /\ target'[r] = o
  /\ pc'[r] = "confirmJob"
  /\ entity[r]["status"] = "pending"
  /\ UNCHANGED <<seen, entity, dirty>>

Load(r, o, s) ==
  /\ Exists(o)
  /\ canTransition(rows[o]["status"], s)
  /\ target'[r] = o
  /\ pc'[r] = "reload"
  /\ pc[r] = "readOrder" \/ call'[r] = "updateStatus"
  /\ LoadAndChange(r, o, s)
  /\ UNCHANGED <<rows, reached, dirty>>

LEMMA StepKinds ==
  ASSUME TypeOK, ControlInv, SettledInv, NEW r \in Request, Step(r)
  PROVE  /\ Others(r)
         /\ \/ Quiet(r)
            \/ \E o \in Order : Insert(r, o)
            \/ \E o \in Order, s \in OrderStatus : Load(r, o, s)
            \/ SaveReload(r)
            \/ SaveWrite(r, "enqueue") \/ SaveWrite(r, "ack")
<1> USE DEF TypeOK, StoreTypeOK
<1>1. CASE \/ CreateAccept(r) \/ CreateReject(r)
           \/ CreateAddConfirmation(r) \/ CreateAddNotification(r)
           \/ CreateBroadcast(r)
  BY <1>1
  DEF CreateAccept, CreateReject, CreateAddConfirmation,
      CreateAddNotification, CreateBroadcast, Start, Continue, Quiet, Others,
      ControlInv, HasTarget, Settles, PaymentCall, Exists
<1>2. CASE \E o \in Order : CreateInsert(r, o)
  BY <1>2
  DEF CreateInsert, Continue, Insert, Others, ControlInv
<1>3. CASE \E o \in Order, s \in OrderStatus : UpdateRead(r, o, s)
  <2>1. PICK o \in Order, s \in OrderStatus : UpdateRead(r, o, s)
    BY <1>3
  <2>2. Others(r)
    BY <2>1 DEF UpdateRead, Start, LoadAndChange, Others
  <2>3. Load(r, o, s)
    BY <2>1 DEF UpdateRead, Start, Load
  <2> QED BY <2>2, <2>3
<1>4. CASE \E o \in Order, s \in OrderStatus : UpdateReject(r, o, s)
  BY <1>4
  DEF UpdateReject, Start, Quiet, Others, HasTarget, Settles
<1>5. CASE UpdateEnqueue(r) \/ UpdateNotify(r)
  BY <1>5
  DEF UpdateEnqueue, UpdateNotify, Continue, Quiet, Others, ControlInv,
      HasTarget, Settles, PaymentCall, Exists
<1>6. CASE WebhookReject(r) \/ WebhookIgnore(r)
  BY <1>6
  DEF WebhookReject, WebhookIgnore, Start, Quiet, Others, HasTarget, Settles,
      PaymentCall
<1>7. CASE \E k \in Kind, o \in Order, p \in PaymentId :
             WebhookRecord(r, k, o, p)
  BY <1>7
  DEF WebhookRecord, Start, Quiet, Others, HasTarget, Settles, PaymentCall,
      Exists
<1>8. CASE \E k \in Kind, o \in Order : WebhookUnknownOrder(r, k, o)
  BY <1>8
  DEF WebhookUnknownOrder, Start, Quiet, Others, HasTarget, Settles
<1>9. CASE \E p \in PaymentId : WebhookRefund(r, p)
  BY <1>9
  DEF WebhookRefund, Start, Quiet, Others, HasTarget, Settles, PaymentCall
<1>10. CASE WebhookReadOrder(r)
  BY <1>10
  DEF WebhookReadOrder, Continue, Load, LoadAndChange, OrderOutcome,
      canTransition, VALID_TRANSITIONS, OrderStatus, Quiet, Others,
      ControlInv, HasTarget, Settles, PaymentCall, Exists
<1>11. CASE WebhookAck(r)
  BY <1>11
  DEF WebhookAck, Continue, Quiet, Others, ControlInv, SettledInv, HasTarget,
      Settles, PaymentCall, Exists
<1>12. CASE Die(r)
  BY <1>12 DEF Die, Abort, Quiet, Others, HasTarget, Settles
<1>13. CASE Save(r) \/ UpdateWrite(r) \/ WebhookWrite(r)
  BY <1>13
  DEF Save, UpdateWrite, WebhookWrite, SaveReload, SaveWrite, Continue,
      Others
<1> QED
  BY <1>1, <1>2, <1>3, <1>4, <1>5, <1>6, <1>7, <1>8, <1>9, <1>10, <1>11,
     <1>12, <1>13
  DEF Step, Arrive, Resume, OrdersStart, OrdersStep, WebhookStart,
      WebhookStep

(* Which handler is suspended where, on an order that exists. *)
LEMMA ControlStep ==
  ASSUME TypeOK, ControlInv, NEW r \in Request, Step(r)
  PROVE  ControlInv'
<1> USE DEF TypeOK, StoreTypeOK, ControlInv, HasTarget, Settles, Exists
<1>1. CASE \/ CreateAccept(r) \/ CreateReject(r)
           \/ CreateAddConfirmation(r) \/ CreateAddNotification(r)
           \/ CreateBroadcast(r)
  BY <1>1
  DEF CreateAccept, CreateReject, CreateAddConfirmation,
      CreateAddNotification, CreateBroadcast, Start, Continue, PaymentCall
<1>2. ASSUME NEW o \in Order, CreateInsert(r, o)
      PROVE  ControlInv'
  BY <1>2, PendingOrderType, EntityNotNull
  DEF CreateInsert, Continue, PaymentCall
<1>3. CASE \E o \in Order, s \in OrderStatus : UpdateRead(r, o, s)
  BY <1>3 DEF UpdateRead, Start, LoadAndChange
<1>4. CASE \E o \in Order, s \in OrderStatus : UpdateReject(r, o, s)
  BY <1>4 DEF UpdateReject, Start
<1>5. CASE UpdateEnqueue(r) \/ UpdateNotify(r)
  BY <1>5 DEF UpdateEnqueue, UpdateNotify, Continue, PaymentCall
<1>6. CASE WebhookReject(r) \/ WebhookIgnore(r)
  BY <1>6 DEF WebhookReject, WebhookIgnore, Start, PaymentCall
<1>7. CASE \E k \in Kind, o \in Order, p \in PaymentId :
             WebhookRecord(r, k, o, p)
  BY <1>7 DEF WebhookRecord, Start, PaymentCall
<1>8. CASE \E k \in Kind, o \in Order : WebhookUnknownOrder(r, k, o)
  BY <1>8 DEF WebhookUnknownOrder, Start
<1>9. CASE \E p \in PaymentId : WebhookRefund(r, p)
  BY <1>9 DEF WebhookRefund, Start, PaymentCall
<1>10. CASE WebhookReadOrder(r)
  BY <1>10 DEF WebhookReadOrder, Continue, LoadAndChange
<1>11. CASE WebhookAck(r)
  BY <1>11 DEF WebhookAck, Continue
<1>12. CASE Die(r) \/ Save(r)
  BY <1>12 DEF Die, Abort, Save, SaveReload, Continue
<1>13. CASE UpdateWrite(r) \/ WebhookWrite(r)
  <2>1. PICK row \in Entity : rows' = [rows EXCEPT ![target[r]] = row]
    BY <1>13, WrittenRow DEF UpdateWrite, WebhookWrite
  <2>2. \A o \in Order : Exists(o) => Exists(o)'
    BY <2>1, EntityNotNull
  <2> QED
    BY <1>13, <2>2
    DEF UpdateWrite, WebhookWrite, SaveWrite, Continue
<1> QED
  BY <1>1, <1>2, <1>3, <1>4, <1>5, <1>6, <1>7, <1>8, <1>9, <1>10, <1>11,
     <1>12, <1>13
  DEF Step, Arrive, Resume, OrdersStart, OrdersStep, WebhookStart,
      WebhookStep

-----------------------------------------------------------------------------
(* The table of transitions: nothing leads to pending. *)
LEMMA TransitionTable ==
  ASSUME NEW s \in OrderStatus, NEW t, canTransition(s, t)
  PROVE  t \in OrderStatus \ {"pending"}
  BY DEF canTransition, VALID_TRANSITIONS, OrderStatus

(* What transition does to each column. *)
LEMMA TransitionColumns ==
  ASSUME NEW e \in Entity, NEW s \in OrderStatus, NEW r \in Request
  PROVE  /\ transition(e, s, r)["status"] = s
         /\ \A c \in AuditColumn :
              transition(e, s, r)[c] = IF StatusOf(c) = s THEN r ELSE e[c]
  BY DEF transition, Column, AuditColumn

(* No step forgets an order or a part of its history. *)
LEMMA Growth ==
  ASSUME TypeOK, ControlInv, SettledInv, HistoryInv, NEW r \in Request,
         Step(r)
  PROVE  \A o \in Order : /\ Exists(o) => Exists(o)'
                          /\ reached[o] \subseteq reached'[o]
<1> USE DEF TypeOK, StoreTypeOK, Exists
<1>1. CASE Quiet(r)
  BY <1>1 DEF Quiet
<1>2. ASSUME NEW o \in Order, Insert(r, o)
      PROVE  \A x \in Order : /\ Exists(x) => Exists(x)'
                              /\ reached[x] \subseteq reached'[x]
  BY <1>2 DEF Insert, HistoryInv
<1>3. CASE \E o \in Order, s \in OrderStatus : Load(r, o, s)
  BY <1>3 DEF Load
<1>4. CASE SaveReload(r)
  BY <1>4 DEF SaveReload
<1>5. ASSUME NEW next, SaveWrite(r, next)
      PROVE  \A x \in Order : /\ Exists(x) => Exists(x)'
                              /\ reached[x] \subseteq reached'[x]
  BY <1>5, WrittenRow, EntityNotNull
<1> QED BY <1>1, <1>2, <1>3, <1>4, <1>5, StepKinds

(* NeverPendingAgain, for one step. *)
LEMMA NeverPendingStep ==
  ASSUME TypeOK, ControlInv, SettledInv, WindowInv, NEW r \in Request,
         Step(r)
  PROVE  \A o \in Order : Exists(o) /\ rows[o]["status"] # "pending"
                            => rows'[o]["status"] # "pending"
<1> USE DEF TypeOK, StoreTypeOK
<1>1. CASE Quiet(r)
  BY <1>1 DEF Quiet
<1>2. CASE \E o \in Order : Insert(r, o)
  BY <1>2 DEF Insert, Exists
<1>3. CASE \E o \in Order, s \in OrderStatus : Load(r, o, s)
  BY <1>3 DEF Load
<1>4. CASE SaveReload(r)
  BY <1>4 DEF SaveReload
<1>5. ASSUME NEW next, SaveWrite(r, next)
      PROVE  \A o \in Order : Exists(o) /\ rows[o]["status"] # "pending"
                                => rows'[o]["status"] # "pending"
  <2>1. entity[r]["status"] # "pending"
    <3>1. seen[r]["status"] \in OrderStatus
      BY DEF Entity
    <3> QED
      BY <1>5, <3>1, TransitionTable
      DEF SaveWrite, Continue, WindowInv, InWindow
  <2>2. PICK row \in Entity :
          /\ rows' = [rows EXCEPT ![target[r]] = row]
          /\ \A c \in Column :
               row[c] = IF c \in dirty[r] THEN entity[r][c]
                        ELSE rows[target[r]][c]
    BY <1>5, WrittenRow
  <2> QED
    BY <2>1, <2>2 DEF Column
<1> QED BY <1>1, <1>2, <1>3, <1>4, <1>5, StepKinds

-----------------------------------------------------------------------------
(* The parts of StoreInv, one lemma each. *)

LEMMA HistoryStep ==
  ASSUME TypeOK, StoreInv, NEW r \in Request, Step(r)
  PROVE  HistoryInv'
<1> USE DEF TypeOK, StoreTypeOK, StoreInv, HistoryInv, Exists
<1>1. CASE Quiet(r)
  BY <1>1 DEF Quiet
<1>2. CASE \E o \in Order : Insert(r, o)
  BY <1>2, PendingOrderType, EntityNotNull DEF Insert
<1>3. CASE \E o \in Order, s \in OrderStatus : Load(r, o, s)
  BY <1>3 DEF Load
<1>4. CASE SaveReload(r)
  BY <1>4 DEF SaveReload
<1>5. ASSUME NEW next, SaveWrite(r, next)
      PROVE  HistoryInv'
  BY <1>5, WrittenRow, EntityNotNull
<1> QED BY <1>1, <1>2, <1>3, <1>4, <1>5, StepKinds

LEMMA StageStep ==
  ASSUME TypeOK, StoreInv, NEW r \in Request, Step(r)
  PROVE  NoStageSkipped'
<1> USE DEF TypeOK, StoreTypeOK, StoreInv, NoStageSkipped
<1>1. CASE Quiet(r)
  BY <1>1 DEF Quiet
<1>2. CASE \E o \in Order : Insert(r, o)
  BY <1>2 DEF Insert
<1>3. CASE \E o \in Order, s \in OrderStatus : Load(r, o, s)
  BY <1>3 DEF Load
<1>4. CASE SaveReload(r)
  BY <1>4 DEF SaveReload
<1>5. ASSUME NEW next, SaveWrite(r, next)
      PROVE  NoStageSkipped'
  <2> DEFINE o == target[r]
  <2>1. PICK row \in Entity :
          /\ reached' = [reached EXCEPT ![o] = @ \cup {row["status"]}]
          /\ \A c \in Column :
               row[c] = IF c \in dirty[r] THEN entity[r][c] ELSE rows[o][c]
    BY <1>5, WrittenRow
  <2>2. o \in Order /\ Exists(o)
    BY <1>5, WrittenRow
  <2>3. /\ seen[r]["status"] \in reached[o]
        /\ canTransition(seen[r]["status"], entity[r]["status"])
    BY <1>5 DEF SaveWrite, Continue, WindowInv, InWindow
  <2>4. \/ row["status"] \in reached[o]
        \/ canTransition(seen[r]["status"], row["status"])
    BY <2>1, <2>2, <2>3 DEF Column, HistoryInv
  <2> HIDE DEF o
  <2>5. ASSUME NEW x \in Order, NEW s \in reached'[x], s # "pending"
        PROVE  \E t \in reached'[x] : canTransition(t, s)
    BY <2>1, <2>2, <2>3, <2>4, <2>5
  <2> QED BY <2>5
<1> QED BY <1>1, <1>2, <1>3, <1>4, <1>5, StepKinds

LEMMA StampStep ==
  ASSUME TypeOK, StoreInv, NEW r \in Request, Step(r)
  PROVE  AuditStampsTruthful'
<1> USE DEF TypeOK, StoreTypeOK, StoreInv, AuditStampsTruthful
<1>1. CASE Quiet(r)
  BY <1>1 DEF Quiet, Exists
<1>2. CASE \E o \in Order : Insert(r, o)
  BY <1>2 DEF Insert, PendingOrder, Column, AuditColumn, Exists
<1>3. CASE \E o \in Order, s \in OrderStatus : Load(r, o, s)
  BY <1>3 DEF Load, Exists
<1>4. CASE SaveReload(r)
  BY <1>4 DEF SaveReload, Exists
<1>5. ASSUME NEW next, SaveWrite(r, next)
      PROVE  AuditStampsTruthful'
  <2> DEFINE o == target[r]
  <2>1. PICK row \in Entity :
          /\ rows' = [rows EXCEPT ![o] = row]
          /\ reached' = [reached EXCEPT ![o] = @ \cup {row["status"]}]
          /\ \A c \in Column :
               row[c] = IF c \in dirty[r] THEN entity[r][c] ELSE rows[o][c]
    BY <1>5, WrittenRow
  <2>2. o \in Order /\ Exists(o)
    BY <1>5, WrittenRow
  <2>3. entity[r]["status"] \in reached'[o]
    BY <1>5, <2>1, <2>2 DEF SaveWrite, Continue, CleanInv, Column
  <2>4. \A c \in AuditColumn : row[c] # Null => StatusOf(c) \in reached'[o]
    BY <1>5, <2>1, <2>2, <2>3
    DEF SaveWrite, Continue, WindowInv, InWindow, Column
  <2> HIDE DEF o
  <2> QED BY <2>1, <2>2, <2>4 DEF Exists
<1> QED BY <1>1, <1>2, <1>3, <1>4, <1>5, StepKinds

LEMMA WindowStep ==
  ASSUME TypeOK, StoreInv, NEW r \in Request, Step(r)
  PROVE  WindowInv'
<1> USE DEF TypeOK, StoreTypeOK, InWindow
<1> DEFINE W(q) ==
      InWindow(q) =>
        /\ seen[q]["status"] \in reached[target[q]]
        /\ canTransition(seen[q]["status"], entity[q]["status"])
        /\ entity[q] = transition(seen[q], entity[q]["status"], q)
        /\ \A c \in AuditColumn : entity[q][c] # Null =>
             \/ StatusOf(c) \in reached[target[q]]
             \/ StatusOf(c) = entity[q]["status"]
<1>1. ASSUME NEW q \in Request \ {r}, pc[q] = pc'[q], target[q] = target'[q],
             seen[q] = seen'[q], entity[q] = entity'[q]
      PROVE  W(q)'
  <2>1. InWindow(q) => target[q] \in Order
    BY DEF StoreInv, ControlInv, HasTarget
  <2>2. W(q)
    BY DEF StoreInv, WindowInv
  <2> QED
    BY <1>1, <2>1, <2>2, Growth DEF StoreInv
<1>2. \A q \in Request \ {r} : W(q)'
  BY <1>1, StepKinds DEF Others, StoreInv
<1>3. W(r)'
  <2>1. CASE Quiet(r) \/ \E o \in Order : Insert(r, o)
    BY <2>1 DEF Quiet, Insert
  <2>2. ASSUME NEW o \in Order, NEW s \in OrderStatus, Load(r, o, s)
        PROVE  W(r)'
    <3>1. /\ seen'[r] = rows[o]
          /\ entity'[r] = transition(rows[o], s, r)
          /\ rows[o] \in Entity
          /\ target'[r] = o
          /\ reached' = reached
      BY <2>2 DEF Load, LoadAndChange, Exists
    <3>2. /\ entity'[r]["status"] = s
          /\ \A c \in AuditColumn :
               entity'[r][c] = IF StatusOf(c) = s THEN r ELSE rows[o][c]
      BY <3>1, TransitionColumns
    <3>3. \A c \in AuditColumn :
            entity'[r][c] # Null => StatusOf(c) \in reached[o] \cup {s}
      BY <2>2, <3>2 DEF Load, StoreInv, AuditStampsTruthful
    <3>4. rows[o]["status"] \in reached[o]
      BY <2>2 DEF Load, StoreInv, HistoryInv
    <3> QED
      BY <2>2, <3>1, <3>2, <3>3, <3>4 DEF Load
  <2>3. CASE SaveReload(r)
    BY <2>3 DEF SaveReload, Continue, StoreInv, WindowInv
  <2>4. CASE SaveWrite(r, "enqueue") \/ SaveWrite(r, "ack")
    BY <2>4 DEF SaveWrite, Continue
  <2> QED BY <2>1, <2>2, <2>3, <2>4, StepKinds DEF StoreInv
<1> QED BY <1>2, <1>3 DEF WindowInv

LEMMA CleanStep ==
  ASSUME TypeOK, StoreInv, NEW r \in Request, Step(r)
  PROVE  CleanInv'
<1> USE DEF TypeOK, StoreTypeOK
<1> DEFINE C(q) ==
      pc[q] = "write" /\ "status" \notin dirty[q] =>
        /\ entity[q]["status"] \in reached[target[q]]
        /\ rows[target[q]]["status"] # "pending"
<1>1. ASSUME NEW q \in Request \ {r}, pc[q] = pc'[q], target[q] = target'[q],
             dirty[q] = dirty'[q], entity[q] = entity'[q]
      PROVE  C(q)'
  <2>1. pc[q] = "write" => target[q] \in Order /\ Exists(target[q])
    BY DEF StoreInv, ControlInv, HasTarget
  <2>2. C(q)
    BY DEF StoreInv, CleanInv
  <2> QED
    BY <1>1, <2>1, <2>2, Growth, NeverPendingStep DEF StoreInv
<1>2. \A q \in Request \ {r} : C(q)'
  BY <1>1, StepKinds DEF Others, StoreInv
<1>3. C(r)'
  <2>1. CASE Quiet(r) \/ \E o \in Order : Insert(r, o)
    BY <2>1 DEF Quiet, Insert
  <2>2. CASE \E o \in Order, s \in OrderStatus : Load(r, o, s)
    BY <2>2 DEF Load
  <2>3. CASE SaveReload(r)
    <3>1. "status" \notin dirty'[r]
            => entity[r]["status"] = rows[target[r]]["status"]
      BY <2>3 DEF SaveReload, Column
    <3>2. target[r] \in Order /\ Exists(target[r])
      BY <2>3 DEF SaveReload, Continue, StoreInv, ControlInv, HasTarget
    <3>3. entity[r]["status"] # "pending"
      <4>1. seen[r]["status"] \in OrderStatus
        BY DEF Entity
      <4> QED
        BY <2>3, <4>1, TransitionTable
        DEF SaveReload, Continue, StoreInv, WindowInv, InWindow
    <3> QED
      BY <2>3, <3>1, <3>2, <3>3 DEF SaveReload, StoreInv, HistoryInv
  <2>4. CASE SaveWrite(r, "enqueue") \/ SaveWrite(r, "ack")
    BY <2>4 DEF SaveWrite, Continue
  <2> QED BY <2>1, <2>2, <2>3, <2>4, StepKinds DEF StoreInv
<1> QED BY <1>2, <1>3 DEF CleanInv

LEMMA SettledStep ==
  ASSUME TypeOK, StoreInv, NEW r \in Request, Step(r)
  PROVE  SettledInv'
<1> USE DEF TypeOK, StoreTypeOK
<1>1. ASSUME NEW q \in Request \ {r}, Settles(q)'
      PROVE  rows'[target'[q]]["status"] # "pending"
  <2>1. Settles(q) /\ target'[q] = target[q]
    BY <1>1, StepKinds DEF Others, Settles, StoreInv
  <2>2. target[q] \in Order /\ Exists(target[q])
    BY <2>1 DEF StoreInv, ControlInv
  <2> QED
    BY <2>1, <2>2, NeverPendingStep DEF StoreInv, SettledInv
<1>2. ASSUME Settles(r)'
      PROVE  rows'[target'[r]]["status"] # "pending"
  <2>1. CASE Quiet(r)
    BY <1>2, <2>1 DEF Quiet
  <2>2. CASE \E o \in Order : Insert(r, o)
    BY <1>2, <2>2 DEF Insert, Settles
  <2>3. CASE \E o \in Order, s \in OrderStatus : Load(r, o, s)
    BY <1>2, <2>3 DEF Load, Settles
  <2>4. CASE SaveReload(r)
    BY <1>2, <2>4 DEF SaveReload, Continue, Settles
  <2>5. ASSUME NEW next, SaveWrite(r, next)
        PROVE  rows'[target'[r]]["status"] # "pending"
    <3>1. entity[r]["status"] # "pending"
      <4>1. seen[r]["status"] \in OrderStatus
        BY DEF Entity
      <4> QED
        BY <2>5, <4>1, TransitionTable
        DEF SaveWrite, Continue, StoreInv, WindowInv, InWindow
    <3>2. PICK row \in Entity :
            /\ rows' = [rows EXCEPT ![target[r]] = row]
            /\ \A c \in Column :
                 row[c] = IF c \in dirty[r] THEN entity[r][c]
                          ELSE rows[target[r]][c]
      BY <2>5, WrittenRow DEF StoreInv
    <3>3. target[r] \in Order /\ target'[r] = target[r] /\ pc[r] = "write"
      BY <2>5, WrittenRow DEF StoreInv, SaveWrite, Continue
    <3>4. row["status"] # "pending"
      BY <3>1, <3>2, <3>3 DEF StoreInv, CleanInv, Column
    <3> QED BY <3>2, <3>3, <3>4
  <2> QED BY <2>1, <2>2, <2>3, <2>4, <2>5, StepKinds DEF StoreInv
<1> QED BY <1>1, <1>2 DEF SettledInv

-----------------------------------------------------------------------------
(* Side effects: queued jobs and emitted events. *)

(* A message of a request that reports a committed status may be added. *)
LEMMA ReportAdded ==
  ASSUME TypeOK, StoreInv, EffectsInv, NEW r \in Request, Step(r),
         NEW name, target[r] \in Order,
         entity[r]["status"] \in reached[target[r]],
         jobs' \cup emitted' \subseteq jobs \cup emitted \cup {Report(name, r)}
  PROVE  ReportsCommitted'
<1>1. \A o \in Order : reached[o] \subseteq reached'[o]
  BY Growth DEF StoreInv
<1>2. ASSUME NEW m \in jobs \cup emitted
      PROVE  m.status \in reached'[m.order]
  <2>1. m.order \in Order
    BY DEF TypeOK, OrdersTypeOK, Message
  <2> QED
    BY <1>1, <2>1 DEF EffectsInv, ReportsCommitted
<1>3. Report(name, r).status \in reached'[Report(name, r).order]
  BY <1>1 DEF Report
<1> QED BY <1>2, <1>3 DEF ReportsCommitted

(* What the other requests have announced stays announced. *)
LEMMA AnnouncedOthers ==
  ASSUME TypeOK, StoreInv, EffectsInv, NEW r \in Request, Step(r),
         jobs \subseteq jobs', NEW q \in Request \ {r}
  PROVE  Announced(q)'
<1>1. pc'[q] = pc[q] /\ target'[q] = target[q] /\ entity'[q] = entity[q]
  BY StepKinds DEF Others, StoreInv
<1>2. pc[q] \in HasTarget => target[q] \in Order
  BY DEF StoreInv, ControlInv
<1>3. \A o \in Order : reached[o] \subseteq reached'[o]
  BY Growth DEF StoreInv
<1>4. Announced(q)
  BY DEF EffectsInv
<1> QED BY <1>1, <1>2, <1>3, <1>4 DEF Announced, Report, HasTarget

(* A step that announces nothing. *)
LEMMA SilentStep ==
  ASSUME TypeOK, StoreInv, EffectsInv, NEW r \in Request, Step(r),
         UNCHANGED serviceVars, Announced(r)'
  PROVE  EffectsInv'
<1>1. ReportsCommitted'
  <2>1. ASSUME NEW m \in jobs \cup emitted
        PROVE  m.status \in reached'[m.order]
    <3>1. m.order \in Order
      BY DEF TypeOK, OrdersTypeOK, Message
    <3> QED
      BY <3>1, Growth DEF StoreInv, EffectsInv, ReportsCommitted
  <2> QED BY <2>1 DEF ReportsCommitted, serviceVars
<1>2. EffectsInOrder'
  BY DEF EffectsInv, EffectsInOrder, serviceVars
<1>3. \A q \in Request \ {r} : Announced(q)'
  BY AnnouncedOthers DEF serviceVars
<1> QED BY <1>1, <1>2, <1>3 DEF EffectsInv

LEMMA EffectsStep ==
  ASSUME TypeOK, StoreInv, EffectsInv, NEW r \in Request, Step(r)
  PROVE  EffectsInv'
<1> USE DEF TypeOK, StoreTypeOK
<1>1. CASE /\ UNCHANGED serviceVars
           /\ pc'[r] \notin {"confirmJob", "notifyJob", "broadcast",
                             "enqueue", "notify"}
  BY <1>1, SilentStep DEF Announced
<1>2. CASE UNCHANGED payments /\ \E o \in Order : CreateInsert(r, o)
  <2>1. UNCHANGED serviceVars
    BY <1>2 DEF CreateInsert
  <2>2. Announced(r)'
    BY <1>2
    DEF CreateInsert, Continue, Announced, StoreInv, ControlInv
  <2> QED BY <2>1, <2>2, SilentStep
<1>3. CASE CreateAddConfirmation(r)
  <2>1. /\ target[r] \in Order
        /\ entity[r]["status"] \in reached[target[r]]
    BY <1>3
    DEF CreateAddConfirmation, Continue, StoreInv, ControlInv, HasTarget,
        EffectsInv, Announced
  <2>2. ReportsCommitted'
    BY <1>3, <2>1, ReportAdded DEF CreateAddConfirmation, AddJob
  <2>3. Announced(r)'
    BY <1>3, <2>1
    DEF CreateAddConfirmation, Continue, AddJob, Announced, Report
  <2>4. EffectsInOrder'
    BY <1>3
    DEF CreateAddConfirmation, AddJob, Report, EffectsInv, EffectsInOrder
  <2>5. \A q \in Request \ {r} : Announced(q)'
    BY <1>3, AnnouncedOthers DEF CreateAddConfirmation, AddJob
  <2> QED BY <2>2, <2>3, <2>4, <2>5 DEF EffectsInv
<1>4. CASE CreateAddNotification(r)
  <2>1. /\ target[r] \in Order
        /\ entity[r]["status"] \in reached[target[r]]
        /\ Report("send-order-confirmation", r) \in jobs
    BY <1>4
    DEF CreateAddNotification, Continue, StoreInv, ControlInv, HasTarget,
        EffectsInv, Announced
  <2>2. ReportsCommitted'
    BY <1>4, <2>1, ReportAdded DEF CreateAddNotification, AddJob
  <2>3. Announced(r)'
    BY <1>4, <2>1
    DEF CreateAddNotification, Continue, AddJob, Announced, Report
  <2>4. EffectsInOrder'
    <3>1. [Report("notify-restaurant", r)
             EXCEPT !.name = "send-order-confirmation"] \in jobs
      BY <2>1 DEF Report
    <3> QED
      BY <1>4, <3>1
      DEF CreateAddNotification, AddJob, EffectsInv, EffectsInOrder
  <2>5. \A q \in Request \ {r} : Announced(q)'
    BY <1>4, AnnouncedOthers DEF CreateAddNotification, AddJob
  <2> QED BY <2>2, <2>3, <2>4, <2>5 DEF EffectsInv
<1>5. CASE CreateBroadcast(r)
  <2>1. /\ target[r] \in Order
        /\ entity[r]["status"] \in reached[target[r]]
        /\ Report("notify-restaurant", r) \in jobs
    BY <1>5
    DEF CreateBroadcast, Continue, StoreInv, ControlInv, HasTarget,
        EffectsInv, Announced
  <2>2. ReportsCommitted'
    BY <1>5, <2>1, ReportAdded DEF CreateBroadcast, Emit
  <2>3. Announced(r)'
    BY <1>5 DEF CreateBroadcast, Continue, Announced
  <2>4. EffectsInOrder'
    <3>1. /\ Report("new-order", r).name = "new-order"
          /\ [Report("new-order", r) EXCEPT !.name = "notify-restaurant"]
               \in jobs
      BY <2>1 DEF Report
    <3> QED
      BY <1>5, <3>1
      DEF CreateBroadcast, Emit, EffectsInv, EffectsInOrder
  <2>5. \A q \in Request \ {r} : Announced(q)'
    BY <1>5, AnnouncedOthers DEF CreateBroadcast
  <2> QED BY <2>2, <2>3, <2>4, <2>5 DEF EffectsInv
<1>6. CASE UpdateWrite(r) /\ UNCHANGED payments
  <2>1. UNCHANGED serviceVars
    BY <1>6 DEF UpdateWrite
  <2>2. entity[r]["status"] \in reached'[target[r]]
    <3>1. PICK row \in Entity :
            /\ reached' = [reached EXCEPT ![target[r]] =
                             @ \cup {row["status"]}]
            /\ \A c \in Column :
                 row[c] = IF c \in dirty[r] THEN entity[r][c]
                          ELSE rows[target[r]][c]
      BY <1>6, WrittenRow DEF UpdateWrite, StoreInv
    <3>2. target[r] \in Order
      BY <1>6, WrittenRow DEF UpdateWrite, StoreInv
    <3> QED
      BY <1>6, <3>1, <3>2
      DEF UpdateWrite, SaveWrite, Continue, StoreInv, CleanInv, Column
  <2>3. Announced(r)'
    BY <1>6, <2>2 DEF UpdateWrite, SaveWrite, Continue, Announced
  <2> QED BY <2>1, <2>3, SilentStep
<1>7. CASE UpdateEnqueue(r)
  <2>1. /\ target[r] \in Order
        /\ entity[r]["status"] \in reached[target[r]]
    BY <1>7
    DEF UpdateEnqueue, Continue, StoreInv, ControlInv, HasTarget,
        EffectsInv, Announced
  <2>2. ReportsCommitted'
    BY <1>7, <2>1, ReportAdded DEF UpdateEnqueue, AddJob
  <2>3. Announced(r)'
    BY <1>7, <2>1 DEF UpdateEnqueue, Continue, AddJob, Announced, Report
  <2>4. EffectsInOrder'
    BY <1>7 DEF UpdateEnqueue, AddJob, Report, EffectsInv, EffectsInOrder
  <2>5. \A q \in Request \ {r} : Announced(q)'
    BY <1>7, AnnouncedOthers DEF UpdateEnqueue, AddJob
  <2> QED BY <2>2, <2>3, <2>4, <2>5 DEF EffectsInv
<1>8. CASE UpdateNotify(r)
  <2>1. /\ target[r] \in Order
        /\ entity[r]["status"] \in reached[target[r]]
        /\ Report("send-delivery-update", r) \in jobs
    BY <1>8
    DEF UpdateNotify, Continue, StoreInv, ControlInv, HasTarget, EffectsInv,
        Announced
  <2>2. ReportsCommitted'
    BY <1>8, <2>1, ReportAdded DEF UpdateNotify, Emit
  <2>3. Announced(r)'
    BY <1>8 DEF UpdateNotify, Continue, Announced
  <2>4. EffectsInOrder'
    <3>1. /\ Report("order-status-update", r).name = "order-status-update"
          /\ [Report("order-status-update", r)
                EXCEPT !.name = "send-delivery-update"] \in jobs
      BY <2>1 DEF Report
    <3> QED
      BY <1>8, <3>1 DEF UpdateNotify, Emit, EffectsInv, EffectsInOrder
  <2>5. \A q \in Request \ {r} : Announced(q)'
    BY <1>8, AnnouncedOthers DEF UpdateNotify
  <2> QED BY <2>2, <2>3, <2>4, <2>5 DEF EffectsInv
<1>9. \/ /\ UNCHANGED serviceVars
         /\ pc'[r] \notin {"confirmJob", "notifyJob", "broadcast", "enqueue",
                           "notify"}
      \/ UNCHANGED payments /\ \E o \in Order : CreateInsert(r, o)
      \/ CreateAddConfirmation(r)
      \/ CreateAddNotification(r)
      \/ CreateBroadcast(r)
      \/ UpdateWrite(r) /\ UNCHANGED payments
      \/ UpdateEnqueue(r)
      \/ UpdateNotify(r)
  <2>1. CASE \/ OrdersStart(r)
             \/ WebhookStart(r) /\ UNCHANGED serviceVars
    BY <2>1
    DEF OrdersStart, CreateAccept, CreateReject, UpdateRead, UpdateReject,
        WebhookStart, WebhookReject, WebhookIgnore, WebhookRecord,
        WebhookUnknownOrder, WebhookRefund, Start
  <2>2. CASE OrdersStep(r) /\ UNCHANGED payments
    BY <2>2 DEF OrdersStep
  <2>3. CASE WebhookStep(r) /\ UNCHANGED serviceVars
    BY <2>3
    DEF WebhookStep, WebhookReadOrder, WebhookWrite, WebhookAck, SaveWrite,
        Continue
  <2>4. CASE Save(r) \/ Die(r)
    BY <2>4 DEF Save, SaveReload, Continue, Die, Abort
  <2> QED BY <2>1, <2>2, <2>3, <2>4 DEF Step, Arrive, Resume
<1> QED BY <1>1, <1>2, <1>3, <1>4, <1>5, <1>6, <1>7, <1>8, <1>9

-----------------------------------------------------------------------------
(* Confirmations and the payments that back them. *)

(* A call that has started keeps its kind, and its payment row backs on. *)
LEMMA StartedKeeps ==
  ASSUME TypeOK, NEW r \in Request, Step(r), NEW q \in Request,
         pc[q] # "idle"
  PROVE  /\ pc'[q] # "idle"
         /\ call'[q] = call[q]
         /\ \A o \in Order : Backed(q, o) => Backed(q, o)'
<1> USE DEF TypeOK, StoreTypeOK
<1>1. pc'[q] # "idle" /\ call'[q] = call[q]
  BY DEF Step, Arrive, Resume, OrdersStart, CreateAccept, CreateReject,
     UpdateRead, UpdateReject, WebhookStart, WebhookReject, WebhookIgnore,
     WebhookRecord, WebhookUnknownOrder, WebhookRefund, Start, OrdersStep,
     CreateInsert, CreateAddConfirmation, CreateAddNotification,
     CreateBroadcast, UpdateWrite, UpdateEnqueue, UpdateNotify, WebhookStep,
     WebhookReadOrder, WebhookWrite, WebhookAck, Save, SaveReload, SaveWrite,
     Continue, Die, Abort
<1>2. ASSUME NEW o \in Order, Backed(q, o)
      PROVE  Backed(q, o)'
  <2>1. CASE \E p \in PaymentId : WebhookRefund(r, p)
    <3>1. payments[q] \in PaymentRow
      BY <1>2 DEF Backed, PaymentsTypeOK
    <3>2. \/ payments'[q] = payments[q]
          \/ payments'[q] = [payments[q] EXCEPT !.status = "refunded"]
      BY <2>1 DEF WebhookRefund
    <3>3. [payments[q] EXCEPT !.status = "refunded"] \in PaymentRow
      BY <3>1 DEF PaymentRow, PaymentStatus
    <3>4. payments'[q] # Null
      BY <3>1, <3>2, <3>3, NoPaymentAssumption
    <3>5. payments'[q].order = o
      BY <1>2, <3>1, <3>2 DEF Backed, PaymentRow
    <3>6. payments'[q].status \in {"success", "refunded"}
      BY <1>2, <3>1, <3>2 DEF Backed, PaymentRow
    <3> QED BY <3>4, <3>5, <3>6 DEF Backed
  <2>2. CASE \E k \in Kind, o2 \in Order, p \in PaymentId :
               WebhookRecord(r, k, o2, p)
    BY <1>2, <2>2 DEF WebhookRecord, Start, Backed, PaymentsTypeOK
  <2>3. CASE UNCHANGED payments
    BY <1>2, <2>3 DEF Backed
  <2> QED
    BY <2>1, <2>2, <2>3
    DEF Step, Arrive, Resume, WebhookStart, WebhookReject, WebhookIgnore,
        WebhookUnknownOrder, WebhookStep, WebhookReadOrder, WebhookWrite,
        WebhookAck, Save, Die
<1> QED BY <1>1, <1>2

(* The payment row is there before the order is looked at. *)
LEMMA RecordBacks ==
  ASSUME TypeOK, NEW r \in Request, Step(r), pc'[r] = "readOrder",
         call'[r] = "payment.success"
  PROVE  Backed(r, target[r])'
<1> USE DEF TypeOK, StoreTypeOK
<1>1. PICK k \in Kind, o \in Order, p \in PaymentId :
        WebhookRecord(r, k, o, p)
  BY DEF Step, Arrive, Resume, OrdersStart, CreateAccept, CreateReject,
     UpdateRead, UpdateReject, WebhookStart, WebhookReject, WebhookIgnore,
     WebhookUnknownOrder, WebhookRefund, Start, OrdersStep,
     CreateInsert, CreateAddConfirmation, CreateAddNotification,
     CreateBroadcast, UpdateWrite, UpdateEnqueue, UpdateNotify, WebhookStep,
     WebhookReadOrder, WebhookWrite, WebhookAck, Save, SaveReload, SaveWrite,
     Continue, Die, Abort
<1>2. k = "payment.success" /\ target'[r] = o
  BY <1>1 DEF WebhookRecord, Start
<1> DEFINE row == [order |-> o, providerPaymentId |-> p, status |-> "success"]
<1>3. payments'[r] = row
  BY <1>1, <1>2 DEF WebhookRecord, RowStatus, PaymentsTypeOK
<1>4. row # Null
  BY NoPaymentAssumption DEF PaymentRow, PaymentStatus
<1> QED BY <1>2, <1>3, <1>4 DEF Backed

LEMMA BackingStep ==
  ASSUME TypeOK, StoreInv, BackingInv, NEW r \in Request, Step(r)
  PROVE  BackingInv'
<1> USE DEF TypeOK, StoreTypeOK
\* Stamps that were in a row before the step.
<1>1. ASSUME NEW o \in Order, NEW q \in Request, Exists(o),
             rows[o]["confirmedAt"] = q
      PROVE  /\ pc'[q] # "idle"
             /\ call'[q] = "payment.success" => Backed(q, o)'
  BY <1>1, StartedKeeps DEF BackingInv
\* Stamps that were in a changed entity before the step.
<1>2. ASSUME NEW x \in Request, NEW q \in Request, InWindow(x),
             entity[x]["confirmedAt"] = q
      PROVE  /\ pc'[q] # "idle"
             /\ call'[q] = "payment.success" => Backed(q, target[x])'
                                                \/ target'[x] # target[x]
  <2>1. pc[q] # "idle" /\ target[x] \in Order
    BY <1>2 DEF BackingInv, StoreInv, ControlInv, HasTarget, InWindow
  <2>2. call[q] = "payment.success" => Backed(q, target[x])
    BY <1>2 DEF BackingInv
  <2>3. \A o \in Order : Backed(q, o) => Backed(q, o)'
    BY <2>1, StartedKeeps
  <2>4. pc'[q] # "idle" /\ call'[q] = call[q]
    BY <2>1, StartedKeeps
  <2> QED BY <2>1, <2>2, <2>3, <2>4 DEF Backed
<1>3. ASSUME NEW o \in Order, NEW q \in Request, Exists(o)',
             rows'[o]["confirmedAt"] = q
      PROVE  /\ pc'[q] # "idle"
             /\ call'[q] = "payment.success" => Backed(q, o)'
  <2>1. CASE \/ Quiet(r) \/ SaveReload(r)
             \/ \E x \in Order, s \in OrderStatus : Load(r, x, s)
    BY <1>1, <1>3, <2>1 DEF Quiet, SaveReload, Load, Exists
  <2>2. CASE \E x \in Order : Insert(r, x)
    BY <1>1, <1>3, <2>2, PendingOrderType, NullAssumption
    DEF Insert, Exists, AuditColumn
  <2>3. ASSUME NEW next, SaveWrite(r, next)
        PROVE  /\ pc'[q] # "idle"
               /\ call'[q] = "payment.success" => Backed(q, o)'
    <3>1. PICK row \in Entity :
            /\ rows' = [rows EXCEPT ![target[r]] = row]
            /\ \A c \in Column :
                 row[c] = IF c \in dirty[r] THEN entity[r][c]
                          ELSE rows[target[r]][c]
      BY <2>3, WrittenRow DEF StoreInv
    <3>2. /\ target[r] \in Order /\ Exists(target[r])
          /\ target' = target /\ InWindow(r)
      BY <2>3, WrittenRow DEF StoreInv, SaveWrite, Continue, InWindow
    <3>3. CASE o # target[r]
      BY <1>1, <1>3, <3>1, <3>3 DEF Exists
    <3>4. CASE o = target[r]
      <4>1. \/ rows[o]["confirmedAt"] = q
            \/ entity[r]["confirmedAt"] = q
        BY <1>3, <3>1, <3>2, <3>4 DEF Column, AuditColumn
      <4>2. CASE rows[o]["confirmedAt"] = q
        BY <1>1, <3>2, <3>4, <4>2
      <4>3. CASE entity[r]["confirmedAt"] = q
        BY <1>2, <3>2, <3>4, <4>3
      <4> QED BY <4>1, <4>2, <4>3
    <3> QED BY <3>3, <3>4
  <2> QED BY <2>1, <2>2, <2>3, StepKinds DEF StoreInv
<1>4. ASSUME NEW x \in Request, NEW q \in Request, InWindow(x)',
             entity'[x]["confirmedAt"] = q
      PROVE  /\ pc'[q] # "idle"
             /\ call'[q] = "payment.success" => Backed(q, target[x])'
  <2>1. CASE x # r
    <3>1. InWindow(x) /\ entity'[x] = entity[x] /\ target'[x] = target[x]
      BY <1>4, <2>1, StepKinds DEF Others, InWindow, StoreInv
    <3> QED BY <1>2, <1>4, <3>1
  <2>2. CASE x = r
    <3>1. CASE Quiet(r) \/ \E o \in Order : Insert(r, o)
      BY <1>4, <2>2, <3>1 DEF Quiet, Insert, InWindow
    <3>2. ASSUME NEW o \in Order, NEW s \in OrderStatus, Load(r, o, s)
          PROVE  /\ pc'[q] # "idle"
                 /\ call'[q] = "payment.success" => Backed(q, target[x])'
      <4>1. /\ rows[o] \in Entity /\ Exists(o)
            /\ entity'[r] = transition(rows[o], s, r)
            /\ target'[r] = o
            /\ pc'[r] # "idle"
        BY <3>2 DEF Load, LoadAndChange, Exists
      <4>2. entity'[r]["confirmedAt"] = r \/ rows[o]["confirmedAt"] = q
        BY <1>4, <2>2, <4>1, TransitionColumns DEF AuditColumn
      <4>3. CASE rows[o]["confirmedAt"] = q
        BY <1>1, <2>2, <4>1, <4>3
      <4>4. CASE entity'[r]["confirmedAt"] = r
        <5>1. q = r
          BY <1>4, <2>2, <4>4
        <5>2. ASSUME call'[r] = "payment.success"
              PROVE  Backed(r, o)'
          <6>1. pc[r] = "readOrder"
            BY <3>2, <5>2 DEF Load
          <6>2. target[r] = o /\ call[r] = "payment.success"
            <7>1. call[r] = "payment.success"
              BY <5>2, <6>1, StartedKeeps
            <7>2. target'[r] = target[r]
              BY <6>1
              DEF Step, Arrive, Resume, OrdersStart, CreateAccept,
                  CreateReject, UpdateRead, UpdateReject, WebhookStart,
                  WebhookReject, WebhookIgnore, WebhookRecord,
                  WebhookUnknownOrder, WebhookRefund, Start, OrdersStep,
                  CreateInsert, CreateAddConfirmation,
                  CreateAddNotification, CreateBroadcast, UpdateWrite,
                  UpdateEnqueue, UpdateNotify, WebhookStep,
                  WebhookReadOrder, WebhookWrite, WebhookAck, Save,
                  SaveReload, SaveWrite, Continue, Die, Abort
            <7> QED BY <4>1, <7>1, <7>2
          <6>3. Backed(r, o)
            BY <6>1, <6>2 DEF BackingInv
          <6> QED BY <6>1, <6>3, StartedKeeps
        <5> QED BY <2>2, <4>1, <5>1, <5>2
      <4> QED BY <4>2, <4>3, <4>4
    <3>3. CASE SaveReload(r)
      <4>1. InWindow(r) /\ entity' = entity /\ target' = target
        BY <3>3 DEF SaveReload, Continue, InWindow
      <4> QED BY <1>2, <1>4, <2>2, <4>1
    <3>4. CASE SaveWrite(r, "enqueue") \/ SaveWrite(r, "ack")
      BY <1>4, <2>2, <3>4 DEF SaveWrite, Continue, InWindow
    <3> QED BY <3>1, <3>2, <3>3, <3>4, StepKinds DEF StoreInv
  <2> QED BY <2>1, <2>2
<1>5. ASSUME NEW q \in Request, pc'[q] = "readOrder",
             call'[q] = "payment.success"
      PROVE  Backed(q, target[q])'
  <2>1. CASE q = r
    BY <1>5, <2>1, RecordBacks
  <2>2. CASE q # r
    <3>1. pc[q] = "readOrder" /\ call[q] = call'[q] /\ target'[q] = target[q]
      BY <1>5, <2>2, StepKinds DEF Others, StoreInv
    <3>2. target[q] \in Order /\ Backed(q, target[q])
      BY <1>5, <3>1 DEF BackingInv, StoreInv, ControlInv, HasTarget
    <3>3. \A o \in Order : Backed(q, o) => Backed(q, o)'
      BY <3>1, StartedKeeps
    <3> QED BY <3>1, <3>2, <3>3 DEF Backed
  <2> QED BY <2>1, <2>2
<1> QED BY <1>3, <1>4, <1>5 DEF BackingInv

-----------------------------------------------------------------------------
(* The theorems. *)

LEMMA InitInv == Init => Inv
<1> SUFFICES ASSUME Init PROVE Inv
  OBVIOUS
<1>1. ControlInv
  BY PendingOrderType
  DEF Init, StoreInit, ControlInv, HasTarget, Settles, Exists
<1>2. HistoryInv /\ NoStageSkipped /\ AuditStampsTruthful
  BY DEF Init, StoreInit, HistoryInv, NoStageSkipped, AuditStampsTruthful,
     Exists
<1>3. WindowInv /\ CleanInv /\ SettledInv
  BY DEF Init, StoreInit, WindowInv, CleanInv, SettledInv, InWindow, Settles
<1>4. EffectsInv
  BY DEF Init, StoreInit, OrdersInit, EffectsInv, Announced,
     ReportsCommitted, EffectsInOrder
<1>5. BackingInv
  BY DEF Init, StoreInit, BackingInv, InWindow, Exists
<1> QED BY <1>1, <1>2, <1>3, <1>4, <1>5 DEF Inv, StoreInv

LEMMA NextInv == TypeOK /\ Inv /\ [Next]_vars => TypeOK' /\ Inv'
<1> SUFFICES ASSUME TypeOK, Inv, [Next]_vars PROVE TypeOK' /\ Inv'
  OBVIOUS
<1>1. ASSUME NEW r \in Request, Step(r)
      PROVE  TypeOK' /\ Inv'
  <2>1. TypeOK'
    BY <1>1, TypeStep DEF Step, Inv, StoreInv
  <2>2. ControlInv'
    BY <1>1, ControlStep DEF Inv, StoreInv
  <2>3. StoreInv'
    BY <1>1, <2>2, HistoryStep, WindowStep, CleanStep, SettledStep,
       StageStep, StampStep
    DEF Inv, StoreInv
  <2>4. EffectsInv' /\ BackingInv'
    BY <1>1, EffectsStep, BackingStep DEF Inv
  <2> QED BY <2>1, <2>3, <2>4 DEF Inv
<1>2. CASE UNCHANGED vars
  <2> USE <1>2 DEF vars, storeVars, serviceVars
  <2>1. TypeOK'
    BY DEF TypeOK, StoreTypeOK, OrdersTypeOK, PaymentsTypeOK
  <2>2. ControlInv' /\ HistoryInv' /\ WindowInv'
    BY DEF Inv, StoreInv, ControlInv, HistoryInv, WindowInv, Settles,
       InWindow, Exists
  <2>3. CleanInv' /\ SettledInv' /\ NoStageSkipped' /\ AuditStampsTruthful'
    BY DEF Inv, StoreInv, CleanInv, SettledInv, NoStageSkipped,
       AuditStampsTruthful, Settles, Exists
  <2>4. EffectsInv'
    BY DEF Inv, EffectsInv, Announced, Report, ReportsCommitted,
       EffectsInOrder
  <2>5. BackingInv'
    BY DEF Inv, BackingInv, Backed, InWindow, Exists
  <2> QED BY <2>1, <2>2, <2>3, <2>4, <2>5 DEF Inv, StoreInv
<1> QED BY <1>1, <1>2 DEF Next, Step

(***************************************************************************)
(* The types and the inductive invariant hold in every reachable state,    *)
(* for any number of orders, requests and payments and any load.           *)
(***************************************************************************)
THEOREM Invariance == Spec => [](TypeOK /\ Inv)
  BY InitType, InitInv, NextInv, PTL DEF Spec

(* Every variable keeps its type. *)
THEOREM TypeCorrect == Spec => []TypeOK
  BY Invariance, PTL

(* Interleaved requests never make an order skip a stage. *)
THEOREM StagesInOrder == Spec => []NoStageSkipped
<1>1. Inv => NoStageSkipped
  BY DEF Inv, StoreInv
<1> QED BY <1>1, Invariance, PTL

(* A stamp in an audit column is never invented. *)
THEOREM StampsTruthful == Spec => []AuditStampsTruthful
<1>1. Inv => AuditStampsTruthful
  BY DEF Inv, StoreInv
<1> QED BY <1>1, Invariance, PTL

(***************************************************************************)
(* Jobs and events report committed statuses only, whatever fails between  *)
(* the save and the notifications.                                         *)
(***************************************************************************)
THEOREM EffectsSound == Spec => []ReportsCommitted
<1>1. Inv => ReportsCommitted
  BY DEF Inv, EffectsInv
<1> QED BY <1>1, Invariance, PTL

(***************************************************************************)
(* The effects of each request come in their order: no event without its   *)
(* jobs, and no notification of the restaurant without the confirmation.   *)
(***************************************************************************)
THEOREM EffectsOrdered == Spec => []EffectsInOrder
<1>1. Inv => EffectsInOrder
  BY DEF Inv, EffectsInv
<1> QED BY <1>1, Invariance, PTL

(* An order confirmed by a webhook has the payment to show for it. *)
THEOREM ConfirmationsPaid == Spec => []ConfirmationHasPayment
<1>1. Inv => ConfirmationHasPayment
  BY DEF Inv, BackingInv, Backed, ConfirmationHasPayment
<1> QED BY <1>1, Invariance, PTL

(***************************************************************************)
(* An acknowledged payment event leaves its order settled, whatever        *)
(* interleaves with its delivery.                                          *)
(***************************************************************************)
THEOREM AckedSettles == Spec => []AckedPaymentSettles
<1>1. Inv => AckedPaymentSettles
  BY DEF Inv, StoreInv, SettledInv, Settles, PaymentCall,
     AckedPaymentSettles
<1> QED BY <1>1, Invariance, PTL

(* No write, however stale, makes an order pending again. *)
THEOREM NeverPending == Spec => NeverPendingAgain
<1>1. ASSUME TypeOK, Inv, [Next]_vars
      PROVE  [\A o \in Order : Exists(o) /\ rows[o]["status"] # "pending"
                => rows[o]["status"]' # "pending"]_vars
  <2>1. CASE \E r \in Request : Step(r)
    BY <1>1, <2>1, NeverPendingStep DEF Inv, StoreInv
  <2>2. CASE UNCHANGED vars
    BY <2>2
  <2> QED BY <1>1, <2>1, <2>2 DEF Next, Step
<1> QED BY <1>1, Invariance, PTL DEF Spec, NeverPendingAgain

(***************************************************************************)
(* The table of transitions is broken only by a save whose request had     *)
(* read another row than the one it overwrites.                            *)
(***************************************************************************)
THEOREM StaleWritesOnly == Spec => OnlyStaleWritesBreakTheTable
<1> DEFINE Stale(o) == \E r \in Request :
             /\ pc[r] = "write" /\ pc[r]' # "write"
             /\ target[r] = o
             /\ seen[r] # rows[o]
           Broken(o) == /\ Exists(o)
                        /\ rows[o]["status"]' # rows[o]["status"]
                        /\ ~canTransition(rows[o]["status"],
                                          rows[o]["status"]')
<1>1. ASSUME TypeOK, Inv, NEW r \in Request, Step(r), NEW o \in Order,
             Broken(o)
      PROVE  Stale(o)
  <2> USE <1>1 DEF TypeOK, StoreTypeOK
  <2>1. CASE Quiet(r)
    BY <2>1 DEF Quiet
  <2>2. CASE \E x \in Order : Insert(r, x)
    BY <2>2 DEF Insert, Exists
  <2>3. CASE \/ SaveReload(r)
             \/ \E x \in Order, s \in OrderStatus : Load(r, x, s)
    BY <2>3 DEF SaveReload, Load
  <2>4. ASSUME NEW next \in {"enqueue", "ack"}, SaveWrite(r, next)
        PROVE  Stale(o)
    <3>1. PICK row \in Entity :
            /\ rows' = [rows EXCEPT ![target[r]] = row]
            /\ \A c \in Column :
                 row[c] = IF c \in dirty[r] THEN entity[r][c]
                          ELSE rows[target[r]][c]
      BY <2>4, WrittenRow DEF Inv, StoreInv
    <3>2. /\ target[r] = o /\ InWindow(r)
          /\ pc[r] = "write" /\ pc'[r] # "write"
      BY <2>4, <3>1 DEF SaveWrite, Continue, InWindow
    <3>3. rows'[o]["status"] = entity[r]["status"]
      BY <3>1, <3>2 DEF Column
    <3>4. canTransition(seen[r]["status"], entity[r]["status"])
      BY <3>2 DEF Inv, StoreInv, WindowInv
    <3>5. seen[r] # rows[o]
      BY <3>3, <3>4
    <3> QED BY <3>2, <3>5
  <2> QED BY <2>1, <2>2, <2>3, <2>4, StepKinds DEF Inv, StoreInv
<1>2. ASSUME TypeOK, Inv, [Next]_vars
      PROVE  [\A o \in Order : Broken(o) => Stale(o)]_vars
  BY <1>1, <1>2 DEF Next, Step
<1> QED BY <1>2, Invariance, PTL DEF Spec, OnlyStaleWritesBreakTheTable

-----------------------------------------------------------------------------
(***************************************************************************)
(* One request at a time.  Then the order table is OrderLifecycle: a save  *)
(* writes the entity that was made from the row it overwrites.             *)
(***************************************************************************)

(* Only an open request acts, or a new one that is admitted. *)
LEMMA Acts ==
  ASSUME NEW r \in Request, Step(r)
  PROVE  r \in Open \/ Admitted
<1>1. CASE Arrive(r)
  BY <1>1
  DEF Arrive, OrdersStart, CreateAccept, CreateReject, UpdateRead,
      UpdateReject, WebhookStart, WebhookReject, WebhookIgnore,
      WebhookRecord, WebhookUnknownOrder, WebhookRefund, Start
<1>2. CASE Resume(r) \/ Die(r)
  BY <1>2
  DEF Resume, OrdersStep, CreateInsert, CreateAddConfirmation,
      CreateAddNotification, CreateBroadcast, UpdateWrite, UpdateEnqueue,
      UpdateNotify, WebhookStep, WebhookReadOrder, WebhookWrite, WebhookAck,
      Save, SaveReload, SaveWrite, Continue, Die, Abort, Suspended, Open
<1> QED BY <1>1, <1>2 DEF Step

(* So whoever acts is alone. *)
LEMMA Alone ==
  ASSUME MaxInFlight = 1, SoloInv, NEW r \in Request, Step(r)
  PROVE  Open \subseteq {r}
<1>1. CASE r \in Open
  BY <1>1 DEF SoloInv
<1>2. CASE Admitted
  <2>1. Cardinality(Open) < 1
    BY <1>2 DEF Admitted, Open
  <2>2. ASSUME NEW x \in Open PROVE FALSE
    <3>1. Open = {x}
      BY DEF SoloInv
    <3>2. Cardinality(Open) = 1
      BY <3>1, FS_Singleton
    <3> QED BY <2>1, <3>2
  <2> QED BY <2>2
<1> QED BY <1>1, <1>2, Acts

LEMMA SoloStep ==
  ASSUME MaxInFlight = 1, TypeOK, ControlInv, SettledInv, SoloInv,
         NEW r \in Request, Step(r)
  PROVE  Open \subseteq {r} /\ Open' \subseteq {r} /\ SoloInv'
<1>1. Open \subseteq {r}
  BY Alone
<1>2. \A q \in Request \ {r} : pc'[q] = pc[q]
  BY StepKinds DEF Others
<1>3. Open' \subseteq {r}
  BY <1>1, <1>2 DEF Open
<1> QED BY <1>1, <1>3 DEF SoloInv

LEMMA CurrentStep ==
  ASSUME MaxInFlight = 1, TypeOK, StoreInv, SerialInv,
         NEW r \in Request, Step(r)
  PROVE  CurrentInv'
<1> USE DEF TypeOK, StoreTypeOK
<1>1. \A q \in Request : InWindow(q)' => q = r
  <2>1. Open' \subseteq {r}
    BY SoloStep DEF StoreInv, SerialInv
  <2> QED BY <2>1 DEF InWindow, Open, Suspended
<1>2. CASE Quiet(r) \/ \E o \in Order : Insert(r, o)
  BY <1>1, <1>2 DEF Quiet, Insert, InWindow, CurrentInv
<1>3. ASSUME NEW o \in Order, NEW s \in OrderStatus, Load(r, o, s)
      PROVE  CurrentInv'
  <2>1. /\ seen'[r] = rows[o] /\ rows[o] \in Entity
        /\ target'[r] = o /\ rows' = rows /\ pc'[r] = "reload"
    BY <1>3 DEF Load, LoadAndChange, Exists
  <2> QED BY <1>1, <2>1 DEF CurrentInv
<1>4. CASE SaveReload(r)
  BY <1>1, <1>4
  DEF SaveReload, Continue, InWindow, CurrentInv, SerialInv
<1>5. CASE SaveWrite(r, "enqueue") \/ SaveWrite(r, "ack")
  BY <1>1, <1>5 DEF SaveWrite, Continue, InWindow, CurrentInv
<1> QED BY <1>2, <1>3, <1>4, <1>5, StepKinds DEF StoreInv

(***************************************************************************)
(* With one request at a time, a request that holds a changed entity holds *)
(* the change of the row as it is now, in every reachable state.           *)
(***************************************************************************)
LEMMA Serial ==
  ASSUME MaxInFlight = 1
  PROVE  Spec => [](TypeOK /\ Inv /\ SerialInv)
<1>1. Init => SerialInv
  BY DEF Init, StoreInit, SerialInv, SoloInv, CurrentInv, Open, InWindow,
     Suspended
<1>2. TypeOK /\ Inv /\ SerialInv /\ [Next]_vars => SerialInv'
  <2> SUFFICES ASSUME TypeOK, Inv, SerialInv, [Next]_vars
               PROVE  SerialInv'
    OBVIOUS
  <2>1. ASSUME NEW r \in Request, Step(r)
        PROVE  SerialInv'
    BY <2>1, SoloStep, CurrentStep DEF Inv, StoreInv, SerialInv
  <2>2. CASE UNCHANGED vars
    BY <2>2
    DEF vars, storeVars, SerialInv, SoloInv, CurrentInv, Open, InWindow
  <2> QED BY <2>1, <2>2 DEF Next, Step
<1> QED BY <1>1, <1>2, Invariance, PTL DEF Spec

(* A transition adds the stamp of the status it enters, if that has one. *)
LEMMA StampsAdded ==
  ASSUME NEW e \in Entity, NEW s \in OrderStatus, NEW r \in Request
  PROVE  StampsOf(transition(e, s, r))
           = StampsOf(e) \cup ({s} \cap Lifecycle!Stamped)
<1> DEFINE t == transition(e, s, r)
<1>1. \A c \in AuditColumn :
        t[c] # Null <=> StatusOf(c) = s \/ e[c] # Null
  BY TransitionColumns, NullAssumption
<1>2. \A c \in AuditColumn : StatusOf(c) \in Lifecycle!Stamped
  BY DEF AuditColumn, StatusOf, Lifecycle!Stamped
<1>3. \A x \in Lifecycle!Stamped : \E c \in AuditColumn : StatusOf(c) = x
  BY DEF AuditColumn, StatusOf, Lifecycle!Stamped
<1> HIDE DEF t
<1>4. StampsOf(t) \subseteq StampsOf(e) \cup ({s} \cap Lifecycle!Stamped)
  BY <1>1, <1>2 DEF StampsOf
<1>5. StampsOf(e) \subseteq StampsOf(t)
  BY <1>1 DEF StampsOf
<1>6. {s} \cap Lifecycle!Stamped \subseteq StampsOf(t)
  BY <1>1, <1>3 DEF StampsOf
<1> QED BY <1>4, <1>5, <1>6 DEF t

(* The table of transitions is the order of the stages, and cancelling. *)
LEMMA TransitionStages ==
  ASSUME NEW from \in OrderStatus, NEW to, canTransition(from, to)
  PROVE  \/ \E n \in 1..4 : /\ from = Lifecycle!Stages[n]
                            /\ to = Lifecycle!Stages[n + 1]
         \/ to = "cancelled" /\ \E n \in 1..3 : from = Lifecycle!Stages[n]
<1>1. /\ Lifecycle!Stages[1] = "pending"
      /\ Lifecycle!Stages[2] = "confirmed"
      /\ Lifecycle!Stages[3] = "preparing"
      /\ Lifecycle!Stages[4] = "out_for_delivery"
      /\ Lifecycle!Stages[5] = "delivered"
  BY DEF Lifecycle!Stages
<1>2. CASE from = "pending"
  BY <1>1, <1>2 DEF canTransition, VALID_TRANSITIONS, OrderStatus
<1>3. CASE from = "confirmed"
  BY <1>1, <1>3 DEF canTransition, VALID_TRANSITIONS, OrderStatus
<1>4. CASE from = "preparing"
  BY <1>1, <1>4 DEF canTransition, VALID_TRANSITIONS, OrderStatus
<1>5. CASE from = "out_for_delivery"
  BY <1>1, <1>5 DEF canTransition, VALID_TRANSITIONS, OrderStatus
<1>6. from \notin {"delivered", "cancelled"}
  BY DEF canTransition, VALID_TRANSITIONS, OrderStatus
<1> QED BY <1>2, <1>3, <1>4, <1>5, <1>6 DEF OrderStatus

(* An existing order is not the absent one to the lifecycle either. *)
LEMMA StateIsPresent ==
  ASSUME TypeOK, NEW o \in Order, Exists(o)
  PROVE  StateOf(o) # Null
<1>1. rows[o]["status"] \in OrderStatus
  BY DEF TypeOK, StoreTypeOK, Exists, Entity
<1>2. StampsOf(rows[o]) \subseteq OrderStatus
  BY DEF StampsOf, StatusOf, AuditColumn, OrderStatus
<1> QED BY <1>1, <1>2, AbsentAssumption DEF StateOf

(* A step that is not a stale save is a step of the lifecycle. *)
LEMMA LifecycleStep ==
  ASSUME TypeOK, Inv, NEW r \in Request, Step(r), ~StaleSave(r)
  PROVE  Lifecycle!Next \/ UNCHANGED orderStates
<1> USE DEF TypeOK, StoreTypeOK
<1> DEFINE s == orderStates
           Goal == Lifecycle!Next \/ s' = s
<1>1. CASE \/ Quiet(r) \/ SaveReload(r)
           \/ \E o \in Order, x \in OrderStatus : Load(r, o, x)
  <2>1. rows' = rows
    BY <1>1 DEF Quiet, SaveReload, Load
  <2>2. s' = s
    BY <2>1 DEF orderStates, StateOf, Exists, StampsOf
  <2> QED BY <2>2
<1>2. ASSUME NEW o \in Order, Insert(r, o)
      PROVE  Goal
  <2>1. rows' = [rows EXCEPT ![o] = PendingOrder] /\ ~Exists(o)
    BY <1>2 DEF Insert
  <2>2. StateOf(o) = Null
    BY <2>1 DEF StateOf
  <2>3. StampsOf(PendingOrder) = {}
    BY PendingOrderType DEF StampsOf
  <2>4. StateOf(o)' = [status |-> "pending", stamped |-> {}]
    BY <2>1, <2>3, PendingOrderType, EntityNotNull
    DEF StateOf, Exists, StampsOf
  <2>5. \A x \in Order \ {o} : StateOf(x)' = StateOf(x)
    BY <2>1 DEF StateOf, Exists, StampsOf
  <2>6. s' = [s EXCEPT ![o] = [status |-> "pending", stamped |-> {}]]
    BY <2>4, <2>5 DEF orderStates
  <2>7. Lifecycle!Place(o)
    BY <2>2, <2>6 DEF Lifecycle!Place, orderStates
  <2> QED BY <2>7 DEF Lifecycle!Next
<1>3. ASSUME NEW next \in {"enqueue", "ack"}, SaveWrite(r, next)
      PROVE  Goal
  <2>1. PICK o \in Order : o = target[r]
    BY <1>3, WrittenRow DEF Inv, StoreInv
  <2>2. PICK row \in Entity :
          /\ Exists(o)
          /\ rows' = [rows EXCEPT ![o] = row]
          /\ \A c \in Column :
               row[c] = IF c \in dirty[r] THEN entity[r][c] ELSE rows[o][c]
    BY <1>3, <2>1, WrittenRow DEF Inv, StoreInv
  <2> DEFINE from == rows[o]["status"]
  <2>3. PICK to \in OrderStatus : to = entity[r]["status"]
    BY DEF Entity
  <2>4. pc[r] = "write" /\ pc'[r] # "write" /\ InWindow(r)
    BY <1>3 DEF SaveWrite, Continue, InWindow
  <2>5. /\ seen[r] = rows[o]
        /\ entity[r] = transition(seen[r], to, r)
        /\ dirty[r] = {c \in Column : entity[r][c] # rows[o][c]}
    BY <2>1, <2>3, <2>4 DEF StaleSave, Inv, StoreInv, WindowInv
  <2>6. row = entity[r]
    <3>1. \A c \in Column : row[c] = entity[r][c]
      BY <2>2, <2>5
    <3> QED BY <3>1 DEF Entity
  <2>7. canTransition(from, to)
    BY <2>1, <2>3, <2>4, <2>5 DEF Inv, StoreInv, WindowInv
  <2>8. rows[o] \in Entity /\ from \in OrderStatus
    BY <2>2 DEF Exists, Entity
  <2>9. StampsOf(row) = StampsOf(rows[o]) \cup ({to} \cap Lifecycle!Stamped)
    BY <2>5, <2>6, <2>8, StampsAdded
  <2>10. /\ StateOf(o) # Null
        /\ StateOf(o) = [status |-> from, stamped |-> StampsOf(rows[o])]
    BY <2>2, StateIsPresent DEF StateOf
  <2>11. StateOf(o)' = Lifecycle!Entered(StateOf(o), to)
    <3>1. rows'[o] = row /\ row # Null /\ row["status"] = to
      BY <2>3, <2>2, <2>6, EntityNotNull
    <3>2. StateOf(o)' = [status |-> to, stamped |-> StampsOf(row)]
      BY <3>1 DEF StateOf, Exists, StampsOf
    <3> QED BY <2>9, <2>10, <3>2 DEF Lifecycle!Entered
  <2>12. \A x \in Order \ {o} : StateOf(x)' = StateOf(x)
    BY <2>2 DEF StateOf, Exists, StampsOf
  <2> HIDE DEF from
  <2>13. s' = [s EXCEPT ![o] = Lifecycle!Entered(@, to)]
    BY <2>2, <2>11, <2>12 DEF orderStates
  <2>14. s[o] # Null /\ s[o].status = from
    BY <2>2, <2>10 DEF orderStates
  <2>15. Lifecycle!Advance(o) \/ Lifecycle!Cancel(o)
    <3>1. ASSUME NEW n \in 1..4, from = Lifecycle!Stages[n],
                 to = Lifecycle!Stages[n + 1]
          PROVE  Lifecycle!Advance(o)
      BY <2>13, <2>14, <3>1 DEF Lifecycle!Advance
    <3>2. ASSUME NEW n \in 1..3, from = Lifecycle!Stages[n],
                 to = "cancelled"
          PROVE  Lifecycle!Cancel(o)
      BY <2>13, <2>14, <3>2 DEF Lifecycle!Cancel
    <3> QED BY <2>7, <2>8, <3>1, <3>2, TransitionStages
  <2> QED BY <2>2, <2>15 DEF Lifecycle!Next
<1>4. Goal
  BY <1>1, <1>2, <1>3, StepKinds DEF Inv, StoreInv
<1> QED BY <1>4

(***************************************************************************)
(* Under any load, a step of the orders table that is not a step of        *)
(* OrderLifecycle is a save of a request whose read, or whose comparison   *)
(* of columns, had been overtaken by another write.                        *)
(***************************************************************************)
THEOREM LifecycleOrStale == Spec => LifecycleUnlessStale
<1> DEFINE Stale == \E r \in Request : StaleSave(r)
<1>1. TypeOK /\ Inv /\ [Next]_vars
        => [Stale \/ Lifecycle!Next]_orderStates
  <2> SUFFICES ASSUME TypeOK, Inv, [Next]_vars
               PROVE  Stale \/ Lifecycle!Next \/ UNCHANGED orderStates
    OBVIOUS
  <2>1. ASSUME NEW r \in Request, Step(r)
        PROVE  Stale \/ Lifecycle!Next \/ UNCHANGED orderStates
    BY <2>1, LifecycleStep
  <2>2. CASE UNCHANGED vars
    BY <2>2 DEF vars, storeVars, orderStates, StateOf, Exists, StampsOf
  <2> QED BY <2>1, <2>2 DEF Next, Step
<1> QED BY <1>1, Invariance, PTL DEF Spec, LifecycleUnlessStale

(***************************************************************************)
(* With one request at a time the orders table implements OrderLifecycle:  *)
(* an order is placed pending, advances a stage at a time or is cancelled, *)
(* and bears exactly the stamps of the stages it has been in.              *)
(***************************************************************************)
THEOREM SerialLifecycle ==
  ASSUME MaxInFlight = 1
  PROVE  Spec => LifecycleSpec
<1>1. Init => Lifecycle!Init
  BY DEF Init, StoreInit, Lifecycle!Init, orderStates, StateOf, Exists
<1>2. TypeOK /\ Inv /\ SerialInv /\ [Next]_vars
        => [Lifecycle!Next]_orderStates
  <2> SUFFICES ASSUME TypeOK, Inv, SerialInv, [Next]_vars
               PROVE  Lifecycle!Next \/ UNCHANGED orderStates
    OBVIOUS
  <2>1. ASSUME NEW r \in Request, Step(r)
        PROVE  Lifecycle!Next \/ UNCHANGED orderStates
    <3>1. ~StaleSave(r)
      BY DEF SerialInv, CurrentInv, InWindow, StaleSave
    <3> QED BY <2>1, <3>1, LifecycleStep
  <2>2. CASE UNCHANGED vars
    BY <2>2 DEF vars, storeVars, orderStates, StateOf, Exists, StampsOf
  <2> QED BY <2>1, <2>2 DEF Next, Step
<1> QED BY <1>1, <1>2, Serial, PTL DEF Spec, LifecycleSpec, Lifecycle!Spec
=============================================================================
