---------------------------- MODULE MCOrderSystem ----------------------------
(* Constants for model checking OrderSystem, with the assumptions of the   *)
(* inductive invariant.                                                    *)
EXTENDS OrderSystemInvariant, TLC

\* Requests are interchangeable: no action or property tells two apart.
RequestSymmetry == Permutations(Request)
=============================================================================
