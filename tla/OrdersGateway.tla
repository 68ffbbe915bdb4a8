---------------------------- MODULE OrdersGateway ----------------------------
(***************************************************************************)
(* OrdersGateway: a client follows an order by joining a Socket.IO room.   *)
(* track-order awaits twice (the token, the order) before it joins;        *)
(* untrack-order and the loss of the connection are handled at once.       *)
(***************************************************************************)
EXTENDS OrderStore

CONSTANTS
  Client,     \* connections, named by their socket
  CustomerOf, \* order -> the client whose user placed it (customerId)
  Admins      \* clients whose token says role admin

ASSUME GatewayAssumption == CustomerOf \in [Order -> Client]

VARIABLES
  open,      \* the connected clients
  handling,  \* where the track-order call of a client for an order is
  room,      \* order -> members of its room
  last,      \* client -> order -> the status it was last told, Null if none
  gone       \* history: orders a client untracked with no track-order running

gatewayVars == <<open, handling, room, last, gone>>

TrackState == {"idle", "verify", "find"}

Await(c, o, from, to) ==
  /\ handling[c][o] = from
  /\ handling' = [handling EXCEPT ![c][o] = to]

\* A message of client c arrives; its handler runs to the first await.
TrackOrder(c, o) ==
  /\ c \in open
  /\ Await(c, o, "idle", "verify")
  /\ gone' = [gone EXCEPT ![c] = @ \ {o}]
  /\ UNCHANGED <<open, room, last>>

\* verifyToken: null for an invalid or expired token, and the call ends.
TokenRefused(c, o) ==
  /\ Await(c, o, "verify", "idle")
  /\ UNCHANGED <<open, room, last, gone>>

TokenVerified(c, o) ==
  /\ Await(c, o, "verify", "find")
  /\ UNCHANGED <<open, room, last, gone>>

MayTrack(c, o) == c = CustomerOf[o] \/ c \in Admins

(***************************************************************************)
(* findById answered: 'Order not found', 'Not your order', or the join.    *)
(* Socket.IO makes join a no-op once the client is disconnected.           *)
(***************************************************************************)
\* Mutant of OrderAnswered: the client joins before its right is checked.
JoinUnchecked(c, o) ==
  /\ Await(c, o, "find", "idle")
  /\ room' = IF Exists(o) THEN [room EXCEPT ![o] = @ \cup ({c} \cap open)]
             ELSE room
  /\ UNCHANGED <<open, last, gone>>

\* Mutant of OrderAnswered: a client that is gone is put into the room.
JoinGone(c, o) ==
  /\ Await(c, o, "find", "idle")
  /\ room' = IF Exists(o) /\ MayTrack(c, o)
             THEN [room EXCEPT ![o] = @ \cup {c}] ELSE room
  /\ UNCHANGED <<open, last, gone>>

OrderAnswered(c, o) ==
  /\ Await(c, o, "find", "idle")
  /\ room' = IF Exists(o) /\ MayTrack(c, o)
             THEN [room EXCEPT ![o] = @ \cup ({c} \cap open)]
             ELSE room
  /\ UNCHANGED <<open, last, gone>>

\* c is out of the rooms in os; what it was told there no longer counts.
Leave(c, os) ==
  /\ room' = [o \in Order |-> IF o \in os THEN room[o] \ {c} ELSE room[o]]
  /\ last' = [last EXCEPT ![c] =
                [o \in Order |-> IF o \in os THEN Null ELSE @[o]]]

\* Mutant of UntrackOrder: the room name is wrong, so nothing is left.
UntrackOtherRoom(c, o) ==
  /\ c \in open
  /\ Leave(c, {})
  /\ gone' = [gone EXCEPT ![c] =
                IF handling[c][o] = "idle" THEN @ \cup {o} ELSE @]
  /\ UNCHANGED <<open, handling>>

UntrackOrder(c, o) ==
  /\ c \in open
  /\ Leave(c, {o})
  /\ gone' = [gone EXCEPT ![c] =
                IF handling[c][o] = "idle" THEN @ \cup {o} ELSE @]
  /\ UNCHANGED <<open, handling>>

Disconnect(c) ==
  /\ c \in open
  /\ open' = open \ {c}
  /\ Leave(c, Order)
  /\ UNCHANGED <<handling, gone>>

\* notifyOrderStatus: everyone in the room, in the order of the emits.
notifyOrderStatus(o, status) ==
  /\ last' = [c \in Client |-> IF c \in room[o]
                               THEN [last[c] EXCEPT ![o] = status] ELSE last[c]]
  /\ UNCHANGED <<open, handling, room, gone>>

-----------------------------------------------------------------------------
GatewayInit ==
  /\ open = Client
  /\ handling = [c \in Client |-> [o \in Order |-> "idle"]]
  /\ room = [o \in Order |-> {}]
  /\ last = [c \in Client |-> [o \in Order |-> Null]]
  /\ gone = [c \in Client |-> {}]

GatewayNext ==
  \/ \E c \in Client : Disconnect(c)
  \/ \E c \in Client, o \in Order :
       \/ TrackOrder(c, o)
       \/ TokenRefused(c, o)
       \/ TokenVerified(c, o)
       \/ OrderAnswered(c, o)
       \/ UntrackOrder(c, o)

GatewayTypeOK ==
  /\ open \subseteq Client
  /\ handling \in [Client -> [Order -> TrackState]]
  /\ room \in [Order -> SUBSET open]
  /\ last \in [Client -> [Order -> OrderStatus \cup {Null}]]
  /\ gone \in [Client -> SUBSET Order]
=============================================================================
