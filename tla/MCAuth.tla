------------------------------- MODULE MCAuth -------------------------------
(* AuthService for TLC. *)
EXTENDS AuthProperties, TLC

\* Requests, accounts and Google ids are interchangeable.
AuthSymmetry ==
  Permutations(Request) \cup Permutations(Email) \cup Permutations(GoogleId)

\* What a request held is not read again once it has ended.
LiveState ==
  <<users, retired, answered, pc, call, target, contended,
    [r \in Open |-> <<seen[r], user[r], dirty[r]>>]>>
=============================================================================
