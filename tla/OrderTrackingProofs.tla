------------------------- MODULE OrderTrackingProofs -------------------------
(***************************************************************************)
(* Proofs about OrderTracking, for any sets of orders, requests and        *)
(* clients, any customers and admins, and any load: the inductive          *)
(* invariant first, then the safety properties and CommitReachesWatchers.  *)
(***************************************************************************)
EXTENDS OrderTracking, TLAPS

\* Locations of an update that has read its order, and after its commit.
UpdateAt == {"reload", "write", "enqueue", "notify"}
CommittedAt == {"enqueue", "notify"}

Updating(o) == {r \in Request : target[r] = o /\ pc[r] \in UpdateAt}

(* Control: which handler can be suspended where, on an order that exists. *)
ControlInv ==
  \A r \in Request :
    /\ pc[r] \in UpdateAt \cup {"confirmJob", "notifyJob", "broadcast"}
         => target[r] \in Order /\ Exists(target[r])
    /\ pc[r] \in UpdateAt => call[r] = "updateStatus"
    /\ pc[r] \in {"insert", "confirmJob", "notifyJob", "broadcast"}
         => call[r] = "create"

(* A room has members who may follow the order only, and the order exists; *)
(* who was told something, and has not left since, is still in the room.   *)
RoomInv ==
  \A c \in Client, o \in Order :
    /\ c \in room[o] => MayTrack(c, o) /\ Exists(o)
    /\ last[c][o] # Null => c \in room[o]

(* An order that was untracked for good has no call that could still join. *)
GoneInv ==
  \A c \in Client : \A o \in gone[c] :
    handling[c][o] = "idle" /\ c \notin room[o]

(* Who is counted as watching an update is in the room while it goes on.   *)
WatchInv ==
  \A r \in Request :
    pc[r] \in CommittedAt => watching[r] \subseteq room[target[r]]

NoneFailed(o) == \A r \in Request : target[r] = o => pc[r] # "failed"

(***************************************************************************)
(* While the updates of an order do not overlap, there is one at most; it  *)
(* finds the row as it left it; and between updates the clients in the     *)
(* room were told the status of the row.                                   *)
(***************************************************************************)
SingleInv ==
  \A o \in Order : o \notin overlapped =>
    \A q, r \in Updating(o) : q = r

CurrentInv ==
  \A o \in Order : o \notin overlapped /\ NoneFailed(o) /\ Exists(o) =>
    /\ \A r \in Updating(o) :
         \/ pc[r] \in CommittedAt
         \/ pc[r] = "write" /\ "status" \notin dirty[r]
         => entity[r]["status"] = rows[o]["status"]
    /\ (\A r \in Updating(o) : pc[r] \notin CommittedAt)
         => \A c \in Client : last[c][o] \in {Null, rows[o]["status"]}

TrackingInv ==
  /\ StoreTypeOK
  /\ TrackingTypeOK
  /\ ControlInv
  /\ RoomInv
  /\ GoneInv
  /\ WatchInv
  /\ SingleInv
  /\ CurrentInv

-----------------------------------------------------------------------------
(* Lemmas about the rows. *)

(* The entity a transition returns is again an entity. *)
LEMMA TransitionType ==
  ASSUME NEW e \in Entity, NEW s \in OrderStatus, NEW r \in Request
  PROVE  transition(e, s, r) \in Entity
<1>1. transition(e, s, r) \in [Column -> OrderStatus \cup Stamp]
  BY DEF transition, Entity, Column, AuditColumn, StatusOf, Stamp
<1>2. transition(e, s, r)["status"] \in OrderStatus
  BY DEF transition, Column
<1>3. \A c \in AuditColumn : transition(e, s, r)[c] \in Stamp
  BY DEF transition, Entity, Column, AuditColumn, StatusOf, Stamp
<1> QED BY <1>1, <1>2, <1>3 DEF Entity

LEMMA PendingOrderType == PendingOrder \in Entity
  BY DEF PendingOrder, Entity, Column, AuditColumn, Stamp, OrderStatus

(* What the write half of a save makes of the row. *)
LEMMA WrittenRow ==
  ASSUME StoreTypeOK, ControlInv, NEW r \in Request, Commit(r)
  PROVE  /\ target[r] \in Order /\ Exists(target[r])
         /\ \E row \in Entity :
              /\ rows' = [rows EXCEPT ![target[r]] = row]
              /\ reached' = [reached EXCEPT ![target[r]] =
                               @ \cup {row["status"]}]
              /\ row["status"] = IF "status" \in dirty[r]
                                 THEN entity[r]["status"]
                                 ELSE rows[target[r]]["status"]
<1> DEFINE o == target[r]
           row == [c \in Column |->
                     IF c \in dirty[r] THEN entity[r][c] ELSE rows[o][c]]
<1>1. o \in Order /\ Exists(o) /\ rows[o] \in Entity /\ entity[r] \in Entity
  BY DEF Commit, UpdateWrite, SaveWrite, Continue, ControlInv, UpdateAt,
     Exists, StoreTypeOK
<1>2. row \in Entity
  BY <1>1 DEF Entity, Column, AuditColumn
<1>3. /\ rows' = [rows EXCEPT ![o] = row]
      /\ reached' = [reached EXCEPT ![o] = @ \cup {row["status"]}]
  BY DEF Commit, UpdateWrite, SaveWrite
<1>4. row["status"] = IF "status" \in dirty[r] THEN entity[r]["status"]
                      ELSE rows[target[r]]["status"]
  BY DEF Column
<1> HIDE DEF row
<1> QED BY <1>1, <1>2, <1>3, <1>4

-----------------------------------------------------------------------------
(* Types. *)

LEMMA StoreTypeStep ==
  ASSUME StoreTypeOK, ControlInv, TrackingNext
  PROVE  StoreTypeOK'
<1> USE DEF StoreTypeOK
<1>1. CASE Follow
  BY <1>1 DEF Follow, storeVars
<1>2. ASSUME NEW r \in Request, Place(r)
      PROVE  StoreTypeOK'
  BY <1>2, PendingOrderType
  DEF Place, CreateAccept, CreateInsert, CreateAddConfirmation,
      CreateAddNotification, CreateBroadcast, Start, Continue, Suspended,
      Finished, Kind, OrderStatus
<1>3. ASSUME NEW r \in Request, Commit(r)
      PROVE  StoreTypeOK'
  <2>1. PICK row \in Entity :
          /\ rows' = [rows EXCEPT ![target[r]] = row]
          /\ reached' = [reached EXCEPT ![target[r]] = @ \cup {row["status"]}]
    BY <1>3, WrittenRow
  <2>2. row["status"] \in OrderStatus
    BY DEF Entity
  <2>3. /\ rows' \in [Order -> Entity \cup {Null}]
        /\ reached' \in [Order -> SUBSET OrderStatus]
    BY <2>1, <2>2
  <2>4. /\ pc' = [pc EXCEPT ![r] = "enqueue"]
        /\ UNCHANGED <<call, target, seen, entity, dirty>>
    BY <1>3 DEF Commit, UpdateWrite, SaveWrite, Continue
  <2> QED BY <2>3, <2>4 DEF Suspended
<1>4. ASSUME NEW r \in Request, Proceed(r) \/ Notify(r) \/ Drop(r)
      PROVE  StoreTypeOK'
  BY <1>4
  DEF Proceed, Notify, Drop, SaveReload, UpdateEnqueue, UpdateNotify, Abort,
      Continue, Suspended, Finished
<1>5. ASSUME NEW r \in Request, NEW o \in Order, NEW s \in OrderStatus,
             BeginUpdate(r, o, s)
      PROVE  StoreTypeOK'
  <2>1. rows[o] \in Entity
    BY <1>5 DEF BeginUpdate, UpdateRead, Exists
  <2>2. transition(rows[o], s, r) \in Entity
    BY <2>1, TransitionType
  <2> QED
    BY <1>5, <2>1, <2>2
    DEF BeginUpdate, UpdateRead, LoadAndChange, Start, Suspended, Kind
<1> QED BY <1>1, <1>2, <1>3, <1>4, <1>5 DEF TrackingNext

LEMMA TrackingTypeStep ==
  ASSUME StoreTypeOK, TrackingTypeOK, ControlInv, TrackingNext
  PROVE  TrackingTypeOK'
<1> USE DEF TrackingTypeOK, GatewayTypeOK
<1>1. CASE Follow
  <2>1. /\ watching' \in [Request -> SUBSET Client]
        /\ overlapped' \subseteq Order
    BY <1>1 DEF Follow
  <2>2. ASSUME NEW c \in Client, Disconnect(c)
        PROVE  GatewayTypeOK'
    BY <2>2 DEF Disconnect, Leave
  <2>3. ASSUME NEW c \in Client, NEW o \in Order,
               \/ TrackOrder(c, o) \/ TokenRefused(c, o) \/ TokenVerified(c, o)
        PROVE  GatewayTypeOK'
    <3>1. handling' \in [Client -> [Order -> TrackState]]
      BY <2>3 DEF TrackOrder, TokenRefused, TokenVerified, Await, TrackState
    <3>2. gone' \in [Client -> SUBSET Order]
      BY <2>3 DEF TrackOrder, TokenRefused, TokenVerified
    <3> QED
      BY <2>3, <3>1, <3>2 DEF TrackOrder, TokenRefused, TokenVerified
  <2>4. ASSUME NEW c \in Client, NEW o \in Order, OrderAnswered(c, o)
        PROVE  GatewayTypeOK'
    BY <2>4 DEF OrderAnswered, Await, TrackState
  <2>5. ASSUME NEW c \in Client, NEW o \in Order, UntrackOrder(c, o)
        PROVE  GatewayTypeOK'
    BY <2>5 DEF UntrackOrder, Leave
  <2> QED BY <1>1, <2>1, <2>2, <2>3, <2>4, <2>5 DEF Follow, GatewayNext
<1>2. ASSUME NEW r \in Request, Place(r) \/ Proceed(r) \/ Drop(r)
      PROVE  TrackingTypeOK'
  BY <1>2 DEF Place, Proceed, Drop, gatewayVars
<1>3. ASSUME NEW r \in Request, Commit(r)
      PROVE  TrackingTypeOK'
  BY <1>3, WrittenRow DEF Commit, gatewayVars
<1>4. ASSUME NEW r \in Request, Notify(r)
      PROVE  TrackingTypeOK'
  <2>1. target[r] \in Order /\ entity[r]["status"] \in OrderStatus
    BY <1>4
    DEF Notify, UpdateNotify, Continue, ControlInv, UpdateAt, StoreTypeOK,
        Entity
  <2> QED BY <1>4, <2>1 DEF Notify, notifyOrderStatus
<1>5. ASSUME NEW r \in Request, NEW o \in Order, NEW s \in OrderStatus,
             BeginUpdate(r, o, s)
      PROVE  TrackingTypeOK'
  BY <1>5 DEF BeginUpdate, gatewayVars
<1> QED BY <1>1, <1>2, <1>3, <1>4, <1>5 DEF TrackingNext

-----------------------------------------------------------------------------
(* Control and rooms. *)

(* No step takes an order away. *)
LEMMA OrdersStay ==
  ASSUME StoreTypeOK, ControlInv, TrackingNext
  PROVE  \A o \in Order : Exists(o) => Exists(o)'
<1> USE DEF StoreTypeOK, Exists
<1>1. CASE Follow
  BY <1>1 DEF Follow, storeVars
<1>2. ASSUME NEW r \in Request, Place(r)
      PROVE  \A o \in Order : Exists(o) => Exists(o)'
  BY <1>2, PendingOrderType, NullAssumption
  DEF Place, CreateAccept, CreateInsert, CreateAddConfirmation,
      CreateAddNotification, CreateBroadcast
<1>3. ASSUME NEW r \in Request, Commit(r)
      PROVE  \A o \in Order : Exists(o) => Exists(o)'
  BY <1>3, WrittenRow, NullAssumption
<1>4. ASSUME NEW r \in Request, Proceed(r) \/ Notify(r) \/ Drop(r)
      PROVE  \A o \in Order : Exists(o) => Exists(o)'
  BY <1>4
  DEF Proceed, Notify, Drop, SaveReload, UpdateEnqueue, UpdateNotify, Abort
<1>5. ASSUME NEW r \in Request, NEW o \in Order, NEW s \in OrderStatus,
             BeginUpdate(r, o, s)
      PROVE  \A x \in Order : Exists(x) => Exists(x)'
  BY <1>5 DEF BeginUpdate, UpdateRead
<1> QED BY <1>1, <1>2, <1>3, <1>4, <1>5 DEF TrackingNext

LEMMA ControlStep ==
  ASSUME StoreTypeOK, ControlInv, TrackingNext
  PROVE  ControlInv'
<1> USE DEF StoreTypeOK, ControlInv, UpdateAt
<1>0. \A o \in Order : Exists(o) => Exists(o)'
  BY OrdersStay
<1>1. CASE Follow
  BY <1>1 DEF Follow, storeVars, Exists
<1>2. ASSUME NEW r \in Request, Place(r)
      PROVE  ControlInv'
  <2>1. CASE \E o \in Order : CreateInsert(r, o)
    BY <1>0, <2>1, PendingOrderType, NullAssumption
    DEF CreateInsert, Continue, Exists
  <2> QED
    BY <1>0, <1>2, <2>1
    DEF Place, CreateAccept, CreateAddConfirmation, CreateAddNotification,
        CreateBroadcast, Start, Continue
<1>3. ASSUME NEW r \in Request, Commit(r)
      PROVE  ControlInv'
  BY <1>0, <1>3 DEF Commit, UpdateWrite, SaveWrite, Continue
<1>4. ASSUME NEW r \in Request, Proceed(r) \/ Notify(r) \/ Drop(r)
      PROVE  ControlInv'
  BY <1>0, <1>4
  DEF Proceed, Notify, Drop, SaveReload, UpdateEnqueue, UpdateNotify, Abort,
      Continue
<1>5. ASSUME NEW r \in Request, NEW o \in Order, NEW s \in OrderStatus,
             BeginUpdate(r, o, s)
      PROVE  ControlInv'
  BY <1>0, <1>5 DEF BeginUpdate, UpdateRead, LoadAndChange, Start
<1> QED BY <1>1, <1>2, <1>3, <1>4, <1>5 DEF TrackingNext

(***************************************************************************)
(* What a step of the gateway does to one client and one order: nobody     *)
(* enters a room but through a track-order that has found the order;       *)
(* nobody is told anything; who leaves has been told nothing; and a client *)
(* is only gone from an order while no track-order of it is running.       *)
(***************************************************************************)
Moves(c, o) ==
  /\ \/ last'[c][o] = last[c][o] /\ (c \in room[o] => c \in room'[o])
     \/ last'[c][o] = Null /\ c \notin room'[o]
  /\ c \in room'[o] => \/ c \in room[o]
                       \/ MayTrack(c, o) /\ Exists(o) /\ handling[c][o] = "find"
  /\ o \in gone'[c] => /\ handling'[c][o] = handling[c][o]
                       /\ \/ o \in gone[c]
                          \/ handling[c][o] = "idle" /\ c \notin room'[o]

LEMMA GatewayStep ==
  ASSUME TrackingTypeOK, GoneInv, GatewayNext, NEW c \in Client, NEW o \in Order
  PROVE  Moves(c, o)
<1> USE DEF TrackingTypeOK, GatewayTypeOK, Moves
<1>1. ASSUME NEW d \in Client, Disconnect(d)
      PROVE  Moves(c, o)
  BY <1>1 DEF Disconnect, Leave
<1>2. ASSUME NEW d \in Client, NEW x \in Order, TrackOrder(d, x)
      PROVE  Moves(c, o)
  <2>1. room' = room /\ last' = last
    BY <1>2 DEF TrackOrder
  <2>2. o \in gone'[c] => /\ ~(c = d /\ o = x) /\ o \in gone[c]
                         /\ handling'[c][o] = handling[c][o]
    BY <1>2 DEF TrackOrder, Await
  <2> QED BY <2>1, <2>2
<1>3. ASSUME NEW d \in Client, NEW x \in Order,
             TokenRefused(d, x) \/ TokenVerified(d, x)
      PROVE  Moves(c, o)
  <2>1. room' = room /\ last' = last /\ gone' = gone
    BY <1>3 DEF TokenRefused, TokenVerified
  <2>2. handling[d][x] = "verify"
    BY <1>3 DEF TokenRefused, TokenVerified, Await
  <2>3. o \in gone[c] => ~(c = d /\ o = x)
    BY <2>2 DEF GoneInv
  <2>4. ~(c = d /\ o = x) => handling'[c][o] = handling[c][o]
    BY <1>3 DEF TokenRefused, TokenVerified, Await
  <2> QED BY <2>1, <2>3, <2>4
<1>4. ASSUME NEW d \in Client, NEW x \in Order, OrderAnswered(d, x)
      PROVE  Moves(c, o)
  <2>1. last' = last /\ gone' = gone /\ handling[d][x] = "find"
    BY <1>4 DEF OrderAnswered, Await
  <2>2. /\ c \in room[o] => c \in room'[o]
        /\ c \in room'[o] => \/ c \in room[o]
                             \/ c = d /\ o = x /\ MayTrack(d, x) /\ Exists(x)
    BY <1>4 DEF OrderAnswered
  <2>3. o \in gone[c] => ~(c = d /\ o = x)
    BY <2>1 DEF GoneInv
  <2>4. ~(c = d /\ o = x) => handling'[c][o] = handling[c][o]
    BY <1>4 DEF OrderAnswered, Await
  <2> QED BY <2>1, <2>2, <2>3, <2>4
<1>5. ASSUME NEW d \in Client, NEW x \in Order, UntrackOrder(d, x)
      PROVE  Moves(c, o)
  BY <1>5 DEF UntrackOrder, Leave
<1> QED BY <1>1, <1>2, <1>3, <1>4, <1>5 DEF GatewayNext

(* A notification reaches the members of one room and nobody else. *)
LEMMA NotifyStep ==
  ASSUME TrackingTypeOK, StoreTypeOK, ControlInv, NEW r \in Request, Notify(r)
  PROVE  /\ target[r] \in Order /\ pc[r] = "notify"
         /\ \A c \in Client, o \in Order :
              last'[c][o] = IF o = target[r] /\ c \in room[o]
                            THEN entity[r]["status"] ELSE last[c][o]
         /\ UNCHANGED <<room, gone, handling>>
  BY DEF Notify, UpdateNotify, Continue, notifyOrderStatus, TrackingTypeOK,
     GatewayTypeOK, ControlInv, UpdateAt

\* A step that leaves the gateway alone.
GatewayRests ==
  \/ \E r \in Request : Place(r) \/ Commit(r) \/ Proceed(r) \/ Drop(r)
  \/ \E r \in Request, o \in Order, s \in OrderStatus : BeginUpdate(r, o, s)

LEMMA StepsOfTracking ==
  ASSUME TrackingNext
  PROVE  \/ Follow
         \/ \E r \in Request : Notify(r)
         \/ GatewayRests /\ UNCHANGED gatewayVars
  BY DEF TrackingNext, GatewayRests, Place, Commit, Proceed, Drop, BeginUpdate

LEMMA RoomStep ==
  ASSUME StoreTypeOK, TrackingTypeOK, ControlInv, GoneInv, RoomInv, TrackingNext
  PROVE  RoomInv'
<1>1. \A o \in Order : Exists(o) => Exists(o)'
  BY OrdersStay
<1>2. CASE Follow
  <2>1. ASSUME NEW c \in Client, NEW o \in Order
        PROVE  /\ c \in room'[o] => MayTrack(c, o) /\ Exists(o)
               /\ last'[c][o] # Null => c \in room'[o]
    BY <1>2, GatewayStep DEF Follow, RoomInv, Moves
  <2> QED BY <1>1, <2>1 DEF RoomInv, MayTrack
<1>3. CASE \E r \in Request : Notify(r)
  BY <1>1, <1>3, NotifyStep DEF RoomInv, MayTrack
<1>4. CASE UNCHANGED gatewayVars
  BY <1>1, <1>4 DEF gatewayVars, RoomInv, MayTrack
<1> QED BY <1>2, <1>3, <1>4, StepsOfTracking

LEMMA GoneStep ==
  ASSUME StoreTypeOK, TrackingTypeOK, ControlInv, GoneInv, TrackingNext
  PROVE  GoneInv'
<1>1. CASE Follow
  <2>1. ASSUME NEW c \in Client, NEW o \in gone'[c]
        PROVE  handling'[c][o] = "idle" /\ c \notin room'[o]
    <3>1. o \in Order
      BY TrackingTypeStep DEF TrackingTypeOK, GatewayTypeOK
    <3>2. Moves(c, o)
      BY <1>1, <3>1, GatewayStep DEF Follow
    <3> QED BY <3>2 DEF Moves, GoneInv
  <2> QED BY <2>1 DEF GoneInv
<1>2. CASE \E r \in Request : Notify(r)
  BY <1>2, NotifyStep DEF GoneInv
<1>3. CASE UNCHANGED gatewayVars
  BY <1>3 DEF gatewayVars, GoneInv
<1> QED BY <1>1, <1>2, <1>3, StepsOfTracking

(* Nobody is counted as a watcher who is not in the room. *)
LEMMA WatchStep ==
  ASSUME StoreTypeOK, TrackingTypeOK, ControlInv, WatchInv, TrackingNext
  PROVE  WatchInv'
<1> USE DEF StoreTypeOK, CommittedAt, WatchInv
<1>1. CASE Follow
  <2>1. \A r \in Request : target[r] # Null => watching'[r] \subseteq room'[target[r]]
    BY <1>1 DEF Follow
  <2>2. \A r \in Request : target[r] = Null => watching'[r] = {}
    BY <1>1 DEF Follow
  <2>3. UNCHANGED <<pc, target>>
    BY <1>1 DEF Follow, storeVars
  <2> QED BY <2>1, <2>2, <2>3
<1>2. ASSUME NEW r \in Request, Commit(r)
      PROVE  WatchInv'
  BY <1>2
  DEF Commit, UpdateWrite, SaveWrite, Continue, gatewayVars, TrackingTypeOK
<1>3. ASSUME NEW r \in Request, Notify(r)
      PROVE  WatchInv'
  <2>1. UNCHANGED <<target, room, watching>>
    BY <1>3 DEF Notify, UpdateNotify, notifyOrderStatus
  <2>2. \A q \in Request : pc'[q] \in CommittedAt => pc[q] \in CommittedAt
    BY <1>3 DEF Notify, UpdateNotify, Continue
  <2> QED BY <2>1, <2>2
<1>4. ASSUME NEW r \in Request, Place(r)
      PROVE  WatchInv'
  BY <1>4
  DEF Place, CreateAccept, CreateInsert, CreateAddConfirmation,
      CreateAddNotification, CreateBroadcast, Start, Continue, gatewayVars
<1>5. ASSUME NEW r \in Request, Proceed(r) \/ Drop(r)
      PROVE  WatchInv'
  <2>1. UNCHANGED <<target, room, watching>>
    BY <1>5 DEF Proceed, Drop, SaveReload, UpdateEnqueue, Abort, gatewayVars
  <2>2. \A q \in Request : pc'[q] \in CommittedAt => pc[q] \in CommittedAt
    BY <1>5 DEF Proceed, Drop, SaveReload, UpdateEnqueue, Abort, Continue
  <2> QED BY <2>1, <2>2
<1>6. ASSUME NEW r \in Request, NEW o \in Order, NEW s \in OrderStatus,
             BeginUpdate(r, o, s)
      PROVE  WatchInv'
  BY <1>6 DEF BeginUpdate, UpdateRead, Start, gatewayVars
<1> QED BY <1>1, <1>2, <1>3, <1>4, <1>5, <1>6 DEF TrackingNext

-----------------------------------------------------------------------------
(* One update at a time. *)

(* A request whose step is not the begin of an update joins no update. *)
LEMMA UpdatersStep ==
  ASSUME StoreTypeOK, ControlInv, TrackingNext,
         ~ \E r \in Request, o \in Order, s \in OrderStatus : BeginUpdate(r, o, s)
  PROVE  /\ \A o \in Order : Updating(o)' \subseteq Updating(o)
         /\ overlapped' = overlapped
<1> USE DEF StoreTypeOK, Updating, UpdateAt
<1>1. CASE Follow
  BY <1>1 DEF Follow, storeVars
<1>2. ASSUME NEW r \in Request, Place(r)
      PROVE  /\ \A o \in Order : Updating(o)' \subseteq Updating(o)
             /\ overlapped' = overlapped
  BY <1>2
  DEF Place, CreateAccept, CreateInsert, CreateAddConfirmation,
      CreateAddNotification, CreateBroadcast, Start, Continue
<1>3. ASSUME NEW r \in Request, Commit(r) \/ Proceed(r) \/ Notify(r) \/ Drop(r)
      PROVE  /\ \A o \in Order : Updating(o)' \subseteq Updating(o)
             /\ overlapped' = overlapped
  <2>1. UNCHANGED <<target, overlapped>>
    BY <1>3
    DEF Commit, UpdateWrite, SaveWrite, Proceed, SaveReload, UpdateEnqueue,
        Notify, UpdateNotify, Drop, Abort
  <2>2. \A q \in Request : pc'[q] \in UpdateAt => pc[q] \in UpdateAt
    BY <1>3
    DEF Commit, UpdateWrite, SaveWrite, Proceed, SaveReload, UpdateEnqueue,
        Notify, UpdateNotify, Drop, Abort, Continue
  <2> QED BY <2>1, <2>2
<1> QED BY <1>1, <1>2, <1>3 DEF TrackingNext

(* An update that begins is alone, or its order counts as overlapped. *)
LEMMA BeginStep ==
  ASSUME StoreTypeOK, ControlInv, NEW r \in Request, NEW x \in Order,
         NEW s \in OrderStatus, BeginUpdate(r, x, s)
  PROVE  /\ \A o \in Order \ {x} : Updating(o)' = Updating(o)
         /\ Updating(x)' = Updating(x) \cup {r}
         /\ overlapped \subseteq overlapped'
         /\ x \notin overlapped' => Updating(x) = {}
         /\ pc'[r] = "reload" /\ pc[r] = "idle"
         /\ \A q \in Request \ {r} : /\ pc'[q] = pc[q] /\ target'[q] = target[q]
                                     /\ entity'[q] = entity[q]
         /\ UNCHANGED <<rows, dirty, gatewayVars>>
<1> USE DEF StoreTypeOK, BeginUpdate, UpdateRead, LoadAndChange, Start
<1>1. /\ pc'[r] = "reload" /\ pc[r] = "idle" /\ target'[r] = x
      /\ \A q \in Request \ {r} : /\ pc'[q] = pc[q] /\ target'[q] = target[q]
                                  /\ entity'[q] = entity[q]
      /\ UNCHANGED <<rows, dirty, gatewayVars>>
  OBVIOUS
<1>2. /\ \A o \in Order \ {x} : Updating(o)' = Updating(o)
      /\ Updating(x)' = Updating(x) \cup {r}
  BY <1>1 DEF Updating, UpdateAt
<1>3. overlapped \subseteq overlapped'
  OBVIOUS
<1>4. ASSUME NEW q \in Updating(x)
      PROVE  x \in overlapped'
  <2>1. q \in Working(x) /\ call[q] = "updateStatus"
    BY DEF Updating, Working, UpdateAt, Suspended, ControlInv
  <2> QED BY <2>1
<1> QED BY <1>1, <1>2, <1>3, <1>4

LEMMA SingleStep ==
  ASSUME StoreTypeOK, ControlInv, SingleInv, TrackingNext
  PROVE  SingleInv'
<1>1. CASE \E r \in Request, o \in Order, s \in OrderStatus : BeginUpdate(r, o, s)
  <2>1. PICK r \in Request, x \in Order, s \in OrderStatus : BeginUpdate(r, x, s)
    BY <1>1
  <2> QED BY <2>1, BeginStep DEF SingleInv
<1>2. CASE ~ \E r \in Request, o \in Order, s \in OrderStatus : BeginUpdate(r, o, s)
  BY <1>2, UpdatersStep DEF SingleInv
<1> QED BY <1>1, <1>2

-----------------------------------------------------------------------------
(* The status that was told is the status of the row. *)

\* CurrentInv for one order.
Settled(o) ==
  /\ \A r \in Updating(o) :
       \/ pc[r] \in CommittedAt
       \/ pc[r] = "write" /\ "status" \notin dirty[r]
       => entity[r]["status"] = rows[o]["status"]
  /\ (\A r \in Updating(o) : pc[r] \notin CommittedAt)
       => \A c \in Client : last[c][o] \in {Null, rows[o]["status"]}

Quiet(o) == o \notin overlapped /\ NoneFailed(o) /\ Exists(o)

(* A step that keeps the memory of the updates of o and the row of o. *)
LEMMA SettledStays ==
  ASSUME NEW o \in Order, Settled(o),
         Updating(o)' = Updating(o),
         \A r \in Updating(o) :
            /\ pc'[r] = pc[r] \/ {pc'[r], pc[r]} \subseteq CommittedAt
            /\ entity'[r] = entity[r] /\ dirty'[r] = dirty[r],
         rows'[o] = rows[o],
         \A c \in Client : last'[c][o] \in {last[c][o], Null}
  PROVE  Settled(o)'
  BY DEF Settled, CommittedAt

(* The steps of requests that only place orders or end in an error. *)
LEMMA CurrentPlace ==
  ASSUME StoreTypeOK, TrackingTypeOK, ControlInv, RoomInv, CurrentInv,
         NEW r \in Request, Place(r) \/ Drop(r), NEW o \in Order, Quiet(o)'
  PROVE  Settled(o)'
<1> USE DEF StoreTypeOK
<1>1. /\ \A q \in Request \ {r} : pc'[q] = pc[q] /\ target'[q] = target[q]
      /\ UNCHANGED <<entity, dirty, last, overlapped>>
      /\ pc[r] \in UpdateAt => pc'[r] = "failed" /\ target'[r] = target[r]
      /\ pc'[r] \notin UpdateAt
      /\ pc[r] # "failed"
  BY DEF Place, CreateAccept, CreateInsert, CreateAddConfirmation,
         CreateAddNotification, CreateBroadcast, Drop, Abort, Start, Continue,
         UpdateAt, gatewayVars, Suspended
<1>2. NoneFailed(o) /\ o \notin overlapped
  BY <1>1 DEF Quiet, NoneFailed
<1>3. Updating(o)' = Updating(o)
  <2>1. pc[r] \in UpdateAt => target[r] # o
    BY <1>1 DEF Quiet, NoneFailed
  <2> QED BY <1>1, <2>1 DEF Updating
<1>4. \A q \in Updating(o) : q \in Request \ {r}
  BY <1>1, <1>3 DEF Updating
<1>5. CASE Exists(o)
  <2>1. rows'[o] = rows[o]
    BY <1>5
    DEF Place, CreateAccept, CreateInsert, CreateAddConfirmation,
        CreateAddNotification, CreateBroadcast, Drop, Abort, Exists
  <2>2. Settled(o)
    BY <1>2, <1>5 DEF CurrentInv, Settled
  <2> QED BY <1>1, <1>3, <1>4, <2>1, <2>2, SettledStays
<1>6. CASE ~Exists(o)
  <2>1. Updating(o) = {}
    BY <1>6 DEF Updating, ControlInv
  <2>2. \A c \in Client : last[c][o] = Null
    BY <1>6 DEF RoomInv
  <2> QED BY <1>1, <1>3, <2>1, <2>2 DEF Settled
<1> QED BY <1>5, <1>6

(* The steps of an update after its begin: only the order it is on. *)
LEMMA CurrentUpdate ==
  ASSUME StoreTypeOK, TrackingTypeOK, ControlInv, RoomInv, SingleInv,
         CurrentInv, NEW r \in Request, Commit(r) \/ Proceed(r) \/ Notify(r),
         NEW o \in Order, Quiet(o)'
  PROVE  Settled(o)'
<1> USE DEF StoreTypeOK
<1>1. /\ \A q \in Request \ {r} : /\ pc'[q] = pc[q]
                                  /\ dirty'[q] = dirty[q]
      /\ UNCHANGED <<target, entity, overlapped>>
      /\ target[r] \in Order /\ pc[r] \in UpdateAt /\ Exists(target[r])
      /\ \A x \in Order \ {target[r]} : /\ rows'[x] = rows[x]
                                       /\ \A c \in Client :
                                            last'[c][x] = last[c][x]
  <2>1. CASE Commit(r)
    BY <2>1, WrittenRow
    DEF Commit, UpdateWrite, SaveWrite, Continue, UpdateAt, gatewayVars
  <2>2. CASE Proceed(r)
    <3>1. CASE SaveReload(r)
      <4>1. pc' = [pc EXCEPT ![r] = "write"] /\ pc[r] = "reload"
        BY <3>1 DEF SaveReload, Continue
      <4>2. /\ \A q \in Request \ {r} : dirty'[q] = dirty[q]
            /\ UNCHANGED <<target, entity, rows>>
        BY <3>1 DEF SaveReload
      <4>3. UNCHANGED <<last, overlapped>>
        BY <2>2 DEF Proceed, gatewayVars
      <4>4. \A q \in Request \ {r} : pc'[q] = pc[q]
        BY <4>1
      <4>5. target[r] \in Order /\ pc[r] \in UpdateAt /\ Exists(target[r])
        BY <4>1 DEF UpdateAt, ControlInv
      <4>6. \A x \in Order : /\ rows'[x] = rows[x]
                              /\ \A c \in Client : last'[c][x] = last[c][x]
        BY <4>2, <4>3
      <4>7. UNCHANGED <<target, entity, overlapped>>
        BY <4>2, <4>3
      <4>8. \A q \in Request \ {r} : dirty'[q] = dirty[q]
        BY <4>2
      <4> QED BY <4>4, <4>5, <4>6, <4>7, <4>8
    <3>2. CASE UpdateEnqueue(r)
      BY <2>2, <3>2
      DEF Proceed, UpdateEnqueue, Continue, UpdateAt, ControlInv, gatewayVars
    <3> QED BY <2>2, <3>1, <3>2 DEF Proceed
  <2>3. CASE Notify(r)
    BY <2>3, NotifyStep
    DEF Notify, UpdateNotify, Continue, UpdateAt, ControlInv
  <2> QED BY <2>1, <2>2, <2>3
<1>2. o \notin overlapped /\ NoneFailed(o) /\ Exists(o) /\ Settled(o)
  <2>1. pc[r] # "failed"
    BY <1>1 DEF UpdateAt
  <2>2. o \notin overlapped /\ NoneFailed(o)
    BY <1>1, <2>1 DEF Quiet, NoneFailed
  <2>3. Exists(o)
    BY <1>1 DEF Quiet, Exists
  <2> QED BY <2>2, <2>3 DEF CurrentInv, Settled
<1>3. CASE target[r] # o
  <2>1. Updating(o)' = Updating(o) /\ r \notin Updating(o)
    BY <1>1, <1>3 DEF Updating
  <2> QED BY <1>1, <1>2, <1>3, <2>1, SettledStays DEF Updating
<1>4. CASE target[r] = o
  <2>1. Updating(o) = {r}
    BY <1>1, <1>2, <1>4 DEF Updating, SingleInv
  <2>2. \A q \in Updating(o)' : q = r
    BY <1>1, <2>1, <1>4 DEF Updating, UpdateAt
  <2>3. CASE Commit(r)
    <3>1. entity[r]["status"] = rows'[o]["status"]
      <4>1. PICK row \in Entity :
              /\ rows' = [rows EXCEPT ![o] = row]
              /\ row["status"] = IF "status" \in dirty[r]
                                 THEN entity[r]["status"]
                                 ELSE rows[o]["status"]
        BY <1>4, <2>3, WrittenRow
      <4>2. rows'[o] = row
        BY <4>1
      <4>3. pc[r] = "write" /\ r \in Updating(o)
        BY <2>1, <2>3 DEF Commit, UpdateWrite, SaveWrite, Continue
      <4>4. "status" \notin dirty[r] =>
              entity[r]["status"] = rows[o]["status"]
        BY <1>2, <4>3 DEF Settled
      <4> QED BY <4>1, <4>2, <4>4
    <3>2. pc'[r] = "enqueue" /\ r \in Updating(o)'
      BY <1>1, <1>4, <2>3
      DEF Commit, UpdateWrite, SaveWrite, Continue, Updating, UpdateAt
    <3> QED BY <1>1, <2>2, <3>1, <3>2 DEF Settled, CommittedAt
  <2>4. CASE Proceed(r)
    <3>1. rows' = rows /\ last' = last
      BY <2>4 DEF Proceed, SaveReload, UpdateEnqueue, gatewayVars
    <3>2. CASE SaveReload(r)
      <4>1. /\ pc[r] = "reload" /\ pc'[r] = "write"
            /\ "status" \notin dirty'[r]
                 => entity[r]["status"] = rows[o]["status"]
        BY <1>4, <3>2 DEF SaveReload, Continue, Column
      <4> QED BY <1>1, <1>2, <2>1, <2>2, <3>1, <4>1 DEF Settled, CommittedAt
    <3>3. CASE UpdateEnqueue(r)
      <4>1. pc[r] = "enqueue" /\ pc'[r] = "notify" /\ r \in Updating(o)'
        BY <1>1, <1>4, <3>3 DEF UpdateEnqueue, Continue, Updating, UpdateAt
      <4> QED BY <1>1, <1>2, <2>1, <2>2, <3>1, <4>1 DEF Settled, CommittedAt
    <3> QED BY <2>4, <3>2, <3>3 DEF Proceed
  <2>5. CASE Notify(r)
    <3>1. pc[r] = "notify" /\ entity[r]["status"] = rows[o]["status"]
      BY <1>2, <2>1, <2>5, NotifyStep DEF Settled, CommittedAt
    <3>2. rows' = rows /\ Updating(o)' = {}
      BY <1>1, <2>2, <2>5
      DEF Notify, UpdateNotify, Continue, Updating, UpdateAt
    <3>3. \A c \in Client : last'[c][o] \in {Null, rows[o]["status"]}
      BY <1>4, <2>5, <3>1, NotifyStep DEF RoomInv
    <3> QED BY <3>2, <3>3 DEF Settled
  <2> QED BY <2>3, <2>4, <2>5
<1> QED BY <1>3, <1>4

LEMMA CurrentStep ==
  ASSUME StoreTypeOK, TrackingTypeOK, ControlInv, RoomInv, GoneInv, SingleInv,
         CurrentInv, TrackingNext
  PROVE  CurrentInv'
<1>1. SUFFICES ASSUME NEW o \in Order, Quiet(o)'
               PROVE  Settled(o)'
  BY DEF CurrentInv, Quiet, Settled
<1>2. CASE Follow
  <2>1. UNCHANGED <<rows, pc, target, entity, dirty, overlapped>>
    BY <1>2 DEF Follow, storeVars
  <2>2. Quiet(o)
    BY <1>1, <2>1 DEF Quiet, NoneFailed, Exists
  <2>3. Settled(o)
    BY <2>2 DEF CurrentInv, Quiet, Settled
  <2>4. \A c \in Client : last'[c][o] \in {last[c][o], Null}
    BY <1>2, GatewayStep DEF Follow, Moves
  <2>5. Updating(o)' = Updating(o)
    BY <2>1 DEF Updating
  <2> QED BY <2>1, <2>3, <2>4, <2>5, SettledStays
<1>3. CASE \E r \in Request : Place(r) \/ Drop(r)
  BY <1>1, <1>3, CurrentPlace
<1>4. CASE \E r \in Request : Commit(r) \/ Proceed(r) \/ Notify(r)
  BY <1>1, <1>4, CurrentUpdate
<1>5. ASSUME NEW r \in Request, NEW x \in Order, NEW s \in OrderStatus,
             BeginUpdate(r, x, s)
      PROVE  Settled(o)'
  <2>1. o \notin overlapped
    BY <1>1, <1>5, BeginStep DEF Quiet
  <2>2. NoneFailed(o) /\ Exists(o)
    BY <1>1, <1>5, BeginStep DEF Quiet, NoneFailed, Exists
  <2>3. Settled(o)
    BY <2>1, <2>2 DEF CurrentInv, Settled
  <2>4. last' = last /\ rows' = rows /\ dirty' = dirty
    BY <1>5, BeginStep DEF gatewayVars
  <2>5. CASE o = x
    <3>1. Updating(o) = {} /\ Updating(o)' = {r}
      BY <1>1, <1>5, <2>5, BeginStep DEF Quiet
    <3> QED BY <1>5, <2>3, <2>4, <3>1, BeginStep DEF Settled, CommittedAt
  <2>6. CASE o # x
    <3>1. Updating(o)' = Updating(o)
      BY <1>5, <2>6, BeginStep
    <3>2. r \notin Updating(o)
      BY <1>5, BeginStep DEF Updating, UpdateAt
    <3>3. \A q \in Updating(o) : pc'[q] = pc[q] /\ entity'[q] = entity[q]
      BY <1>5, <3>2, BeginStep DEF Updating
    <3> QED BY <2>3, <2>4, <3>1, <3>3, SettledStays
  <2> QED BY <2>5, <2>6
<1> QED BY <1>2, <1>3, <1>4, <1>5 DEF TrackingNext

-----------------------------------------------------------------------------
(* The inductive invariant, and what it implies. *)

LEMMA TrackingInitInv == TrackingInit => TrackingInv
<1> SUFFICES ASSUME TrackingInit
             PROVE  TrackingInv
  OBVIOUS
<1> USE DEF TrackingInit, StoreInit, GatewayInit
<1>1. StoreTypeOK
  BY PendingOrderType DEF StoreTypeOK
<1>2. TrackingTypeOK
  BY DEF TrackingTypeOK, GatewayTypeOK, TrackState
<1>3. ControlInv /\ WatchInv
  BY DEF ControlInv, WatchInv, UpdateAt, CommittedAt
<1>4. RoomInv /\ GoneInv
  BY DEF RoomInv, GoneInv
<1>5. SingleInv /\ CurrentInv
  BY DEF SingleInv, CurrentInv, Updating, UpdateAt, Exists
<1> QED BY <1>1, <1>2, <1>3, <1>4, <1>5 DEF TrackingInv

LEMMA TrackingStutter ==
  TrackingInv /\ UNCHANGED trackingVars => TrackingInv'
<1> SUFFICES ASSUME TrackingInv, UNCHANGED trackingVars
             PROVE  TrackingInv'
  OBVIOUS
<1> USE DEF TrackingInv, trackingVars, storeVars, gatewayVars
<1>1. StoreTypeOK' /\ TrackingTypeOK'
  BY DEF StoreTypeOK, TrackingTypeOK, GatewayTypeOK
<1>2. ControlInv' /\ WatchInv'
  BY DEF ControlInv, WatchInv, Exists
<1>3. RoomInv' /\ GoneInv'
  BY DEF RoomInv, GoneInv, Exists, MayTrack
<1>4. SingleInv' /\ CurrentInv'
  BY DEF SingleInv, CurrentInv, Updating, NoneFailed, Exists
<1> QED BY <1>1, <1>2, <1>3, <1>4

LEMMA TrackingStepInv ==
  TrackingInv /\ [TrackingNext]_trackingVars => TrackingInv'
<1>1. ASSUME TrackingInv, TrackingNext
      PROVE  TrackingInv'
  BY <1>1, StoreTypeStep, TrackingTypeStep, ControlStep, RoomStep, GoneStep,
     WatchStep, SingleStep, CurrentStep DEF TrackingInv
<1> QED BY <1>1, TrackingStutter

(* The strengthened invariant of following an order live.                  *)
THEOREM TrackingInvariance == TrackingSpec => []TrackingInv
  BY TrackingInitInv, TrackingStepInv, PTL DEF TrackingSpec

(***************************************************************************)
(* Whatever customers, clients and load: rooms have connected clients as   *)
(* members, and what a client was told is a status.                        *)
(***************************************************************************)
THEOREM TrackingTyped == TrackingSpec => []TrackingTypeOK
<1>1. TrackingInv => TrackingTypeOK
  BY DEF TrackingInv
<1> QED BY <1>1, TrackingInvariance, PTL

(***************************************************************************)
(* Only the customer of an order and admins are ever told its status: a    *)
(* client is in the room by a track-order that checked its right, and is   *)
(* told something in the room only.                                        *)
(***************************************************************************)
THEOREM ToldOwnOnly == TrackingSpec => []OnlyOwnUpdates
<1>1. TrackingInv => OnlyOwnUpdates
  BY DEF TrackingInv, RoomInv, OnlyOwnUpdates
<1> QED BY <1>1, TrackingInvariance, PTL

(***************************************************************************)
(* After an untrack-order with no track-order of the client between its    *)
(* awaits, the client is out of the room and stays out until it asks.      *)
(***************************************************************************)
THEOREM UntrackFinal == TrackingSpec => []UntrackIsFinal
<1>1. TrackingInv => UntrackIsFinal
  BY DEF TrackingInv, TrackingTypeOK, GatewayTypeOK, RoomInv, GoneInv,
         UntrackIsFinal
<1> QED BY <1>1, TrackingInvariance, PTL

(***************************************************************************)
(* When the updates of an order did not overlap and none failed, the last  *)
(* status a client in its room was told is the status of the row.          *)
(***************************************************************************)
THEOREM ToldIsCurrent == TrackingSpec => []LastToldIsCurrent
<1>1. ASSUME TrackingInv
      PROVE  LastToldIsCurrent
  <2>1. ASSUME NEW o \in Order, Exists(o), o \notin overlapped,
               Working(o) = {},
               \A r \in Request : target[r] = o => pc[r] # "failed",
               NEW c \in Client
        PROVE  last[c][o] \in {Null, rows[o]["status"]}
    <3>1. Updating(o) = {}
      BY <2>1 DEF Working, Updating, UpdateAt, Suspended
    <3>2. NoneFailed(o)
      BY <2>1 DEF NoneFailed
    <3> QED BY <1>1, <2>1, <3>1, <3>2 DEF TrackingInv, CurrentInv
  <2> QED BY <2>1 DEF LastToldIsCurrent
<1> QED BY <1>1, TrackingInvariance, PTL

(***************************************************************************)
(* An update reaches every client that has been in the room since its      *)
(* commit: the notification is sent to the room as it is at the end.       *)
(***************************************************************************)
THEOREM WatchersReached == TrackingSpec => CommitReachesWatchers
<1>1. ASSUME TrackingInv, [TrackingNext]_trackingVars
      PROVE  [\A r \in Request :
                pc[r] = "notify" /\ pc'[r] = "done" =>
                  \A c \in watching[r] :
                    last'[c][target[r]] = entity[r]["status"]]_trackingVars
  <2> SUFFICES ASSUME TrackingNext, NEW r \in Request,
                      pc[r] = "notify", pc'[r] = "done",
                      NEW c \in watching[r]
               PROVE  last'[c][target[r]] = entity[r]["status"]
    BY <1>1
  <2> USE <1>1 DEF TrackingInv, StoreTypeOK
  <2>1. Notify(r)
    <3>1. ~Follow
      BY DEF Follow, storeVars
    <3>2. ASSUME NEW q \in Request, Place(q)
          PROVE  FALSE
      BY <3>2
      DEF Place, CreateAccept, CreateInsert, CreateAddConfirmation,
          CreateAddNotification, CreateBroadcast, Start, Continue
    <3>3. ASSUME NEW q \in Request, Commit(q) \/ Proceed(q) \/ Drop(q)
          PROVE  FALSE
      BY <3>3
      DEF Commit, UpdateWrite, SaveWrite, Proceed, SaveReload, UpdateEnqueue,
          Drop, Abort, Continue
    <3>4. ASSUME NEW q \in Request, NEW o \in Order, NEW s \in OrderStatus,
                 BeginUpdate(q, o, s)
          PROVE  FALSE
      BY <3>4 DEF BeginUpdate, UpdateRead, Start
    <3>5. ASSUME NEW q \in Request, Notify(q)
          PROVE  q = r
      BY <3>5 DEF Notify, UpdateNotify, Continue
    <3> QED BY <3>1, <3>2, <3>3, <3>4, <3>5 DEF TrackingNext
  <2>2. c \in Client /\ c \in room[target[r]]
    BY DEF WatchInv, CommittedAt, TrackingTypeOK
  <2> QED BY <2>1, <2>2, NotifyStep
<1> QED
  BY <1>1, TrackingInvariance, PTL DEF TrackingSpec, CommitReachesWatchers
=============================================================================
