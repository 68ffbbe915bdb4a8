--------------------------- MODULE OrderLifecycle ---------------------------
(***************************************************************************)
(* What the order table promises its readers, with no requests in it: an   *)
(* order is placed pending, moves forward one stage at a time, may be      *)
(* cancelled until it has left the kitchen, and carries the stamp of every *)
(* stamped stage it has been in and of no other.                           *)
(***************************************************************************)
EXTENDS Naturals

CONSTANTS Order, Absent

VARIABLE state   \* order id -> Absent, or [status, stamped]

Stages ==
  <<"pending", "confirmed", "preparing", "out_for_delivery", "delivered">>

\* The stages that leave a stamp.
Stamped == {"confirmed", "preparing", "delivered", "cancelled"}

Entered(s, status) ==
  [status |-> status, stamped |-> s.stamped \cup ({status} \cap Stamped)]

Init == state = [o \in Order |-> Absent]

Place(o) ==
  /\ state[o] = Absent
  /\ state' = [state EXCEPT ![o] = [status |-> "pending", stamped |-> {}]]

Advance(o) ==
  /\ state[o] # Absent
  /\ \E n \in 1..4 :
       /\ state[o].status = Stages[n]
       /\ state' = [state EXCEPT ![o] = Entered(@, Stages[n + 1])]

Cancel(o) ==
  /\ state[o] # Absent
  /\ \E n \in 1..3 : state[o].status = Stages[n]
  /\ state' = [state EXCEPT ![o] = Entered(@, "cancelled")]

Next == \E o \in Order : Place(o) \/ Advance(o) \/ Cancel(o)

Spec == Init /\ [][Next]_state
=============================================================================
