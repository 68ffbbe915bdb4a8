---------------------------- MODULE OrderTracking ----------------------------
(***************************************************************************)
(* Following an order live: OrdersService, whose updates end with a        *)
(* notification, and OrdersGateway, which hands it to the clients in the   *)
(* room at that moment.  The payment webhook also changes orders, but it   *)
(* emits nothing and is left to OrderSystem.                               *)
(***************************************************************************)
EXTENDS OrdersService, OrdersGateway

VARIABLES
  watching,    \* history: update -> the clients in the room since its commit
  overlapped   \* history: orders whose updates ran at the same time

trackingVars ==
  <<storeVars, serviceVars, gatewayVars, watching, overlapped>>

TrackingInit ==
  /\ StoreInit
  /\ OrdersInit
  /\ GatewayInit
  /\ watching = [r \in Request |-> {}]
  /\ overlapped = {}

Working(o) == {r \in Request : target[r] = o /\ pc[r] \in Suspended}

-----------------------------------------------------------------------------
Place(r) ==
  /\ \/ CreateAccept(r)
     \/ \E o \in Order : CreateInsert(r, o)
     \/ CreateAddConfirmation(r)
     \/ CreateAddNotification(r)
     \/ CreateBroadcast(r)
  /\ UNCHANGED <<gatewayVars, watching, overlapped>>

BeginUpdate(r, o, s) ==
  /\ UpdateRead(r, o, s)
  /\ overlapped' =
       IF \E q \in Working(o) : call[q] = "updateStatus"
       THEN overlapped \cup {o} ELSE overlapped
  /\ UNCHANGED <<gatewayVars, watching>>

Commit(r) ==
  /\ UpdateWrite(r)
  /\ watching' = [watching EXCEPT ![r] = room[target[r]]]
  /\ UNCHANGED <<gatewayVars, overlapped>>

Proceed(r) ==
  /\ \/ SaveReload(r) /\ UNCHANGED serviceVars
     \/ UpdateEnqueue(r)
  /\ UNCHANGED <<gatewayVars, watching, overlapped>>

\* Mutant of Notify: the room is told only if it was not told anything yet.
NotifyOnce(r) ==
  /\ UpdateNotify(r)
  /\ IF \E c \in Client : last[c][target[r]] # Null
     THEN UNCHANGED gatewayVars
     ELSE notifyOrderStatus(target[r], entity[r]["status"])
  /\ UNCHANGED <<watching, overlapped>>

Notify(r) ==
  /\ UpdateNotify(r)
  /\ notifyOrderStatus(target[r], entity[r]["status"])
  /\ UNCHANGED <<watching, overlapped>>

Drop(r) ==
  /\ Abort(r)
  /\ UNCHANGED <<serviceVars, gatewayVars, watching, overlapped>>

\* A client that leaves a room is no longer owed what was committed before.
Follow ==
  /\ GatewayNext
  /\ watching' = [r \in Request |->
                    IF target[r] = Null THEN {}
                    ELSE watching[r] \cap room'[target[r]]]
  /\ UNCHANGED <<storeVars, serviceVars, overlapped>>

TrackingNext ==
  \/ Follow
  \/ \E r \in Request :
       \/ Place(r) \/ Commit(r) \/ Proceed(r) \/ Notify(r) \/ Drop(r)
       \/ \E o \in Order, s \in OrderStatus : BeginUpdate(r, o, s)

TrackingSpec == TrackingInit /\ [][TrackingNext]_trackingVars

-----------------------------------------------------------------------------
(* Types of the gateway's state and of the histories; the members of a     *)
(* room are connected clients.                                             *)
TrackingTypeOK ==
  /\ GatewayTypeOK
  /\ watching \in [Request -> SUBSET Client]
  /\ overlapped \subseteq Order

(***************************************************************************)
(* No client is ever told the status of an order that is not its own,      *)
(* unless its token says admin: through two awaits, a lost connection and  *)
(* later untracks and tracks, the room holds no one else.                  *)
(***************************************************************************)
OnlyOwnUpdates ==
  \A c \in Client, o \in Order : last[c][o] # Null => MayTrack(c, o)

(***************************************************************************)
(* untrack-order is final: a client that untracked an order while none of  *)
(* its track-order calls was between its awaits is told nothing more of    *)
(* the order until it asks again.  (While one is, its join comes after the *)
(* leave and the client stays in the room.)                                *)
(***************************************************************************)
UntrackIsFinal ==
  \A c \in Client : \A o \in gone[c] : c \notin room[o] /\ last[c][o] = Null

(***************************************************************************)
(* An update reaches every client that was in the room when it was         *)
(* committed and is there still when the handler ends: joins and leaves of *)
(* others, updates that overlap and lost connections take none away.       *)
(***************************************************************************)
CommitReachesWatchers ==
  [][\A r \in Request :
       pc[r] = "notify" /\ pc'[r] = "done" =>
         \A c \in watching[r] : last'[c][target[r]] = entity[r]["status"]
    ]_trackingVars

(***************************************************************************)
(* When nothing is running on an order, no update of it failed and no two  *)
(* ran at the same time, the status a client in the room was last told is  *)
(* the one the row has.                                                    *)
(***************************************************************************)
LastToldIsCurrent ==
  \A o \in Order :
    (/\ Exists(o) /\ o \notin overlapped /\ Working(o) = {}
     /\ \A r \in Request : target[r] = o => pc[r] # "failed") =>
      \A c \in Client : last[c][o] \in {Null, rows[o]["status"]}
=============================================================================
