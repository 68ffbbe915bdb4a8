--------------------------- MODULE MCOrderTracking ---------------------------
(* Constants for model checking OrderTracking: every order is the owner's. *)
EXTENDS OrderTracking, TLC

CONSTANT owner

Customer == [o \in Order |-> owner]

\* Requests are only names of calls: no property tells them apart.
RequestSymmetry == Permutations(Request)
=============================================================================
