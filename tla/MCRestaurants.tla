---------------------------- MODULE MCRestaurants ----------------------------
(* Constants for model checking RestaurantsService. *)
EXTENDS RestaurantsProperties, TLC

\* No action or property tells two requests, phones or ids apart.
RestaurantSymmetry ==
  Permutations(Request) \cup Permutations(Phone) \cup Permutations(Restaurant)

\* What a request held is not read again once it has ended.
LiveState ==
  <<table, cache, stored, pc, failures, contended,
    [r \in Open |-> <<call[r], target[r], dto[r], object[r],
                     dirty[r]>>]>>
=============================================================================
