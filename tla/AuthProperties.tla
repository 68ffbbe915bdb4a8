--------------------------- MODULE AuthProperties ---------------------------
(* What AuthService promises, alone and under load. *)
EXTENDS AuthService

(* The types of all the variables. *)
TypeOK ==
  /\ users \in [Email -> User \cup {Null}]
  /\ retired \in [Email -> SUBSET Request]
  /\ answered \in [Email -> Request \cup {Null}]
  /\ pc \in [Request -> {"idle"} \cup Suspended \cup Finished]
  /\ call \in [Request -> Call \cup {Null}]
  /\ target \in [Request -> Email \cup {Null}]
  /\ seen \in [Request -> User \cup {Null}]
  /\ user \in [Request -> User \cup {Null}]
  /\ dirty \in [Request -> SUBSET Column]
  /\ contended \subseteq Email

Hash(e) == users[e].hashedRefreshToken

(***************************************************************************)
(* An e-mail address is registered once: of the calls of register that     *)
(* overlap, one at most is answered with an account, and none if the       *)
(* Google callback created the account first.                              *)
(***************************************************************************)
OneRegistrationPerEmail ==
  \A e \in Email :
    LET registered ==
          {r \in Request : /\ pc[r] = "done"
                           /\ call[r] = "register"
                           /\ target[r] = e}
    IN /\ Cardinality(registered) <= 1
       /\ registered # {} => Exists(e) /\ users[e].password = "chosen"

(***************************************************************************)
(* An account once linked to Google stays linked: the saves and updates of *)
(* requests that read it before the link leave the column alone.           *)
(***************************************************************************)
LinkedStaysLinked ==
  [][\A e \in Email :
       Exists(e) /\ users[e].googleId # Null
         => Exists(e)' /\ users'[e].googleId # Null]_vars

(***************************************************************************)
(* A token that was replaced or cleared is stored again only by the save   *)
(* that links a Google account, when the token changed between the read    *)
(* and the save.  Every other path stores new tokens only.                 *)
(***************************************************************************)
OnlyLinkingRestores ==
  [][\A e \in Email :
       Exists(e) /\ Hash(e)' # Hash(e) /\ Hash(e)' \in retired[e]
         => \E r \in Request :
              /\ pc[r] = "write" /\ pc'[r] = "store"
              /\ target[r] = e
              /\ seen[r].hashedRefreshToken # Hash(e)]_vars

-----------------------------------------------------------------------------
(***************************************************************************)
(* What a client was told last is what the account has: when no request is *)
(* open on the account, none of its requests has died and no two of them   *)
(* overlapped, the stored token is the one of the last answer, and there   *)
(* is none if that was a logout's, whatever other accounts are doing.      *)
(***************************************************************************)
AnsweredTokenStored ==
  \A e \in Email \ contended :
    (/\ Exists(e)
     /\ \A r \in Request :
          target[r] = e => pc[r] \notin Suspended \cup {"failed"})
      => Hash(e) = answered[e]

(***************************************************************************)
(* README.md:229 and README.md:277: a logout revokes the refresh token.    *)
(* After it only somebody who signs in gives the account a session again,  *)
(* or a request that was already running when the logout was: a refresh or *)
(* a link that had read the account while it had a token.                  *)
(***************************************************************************)
LogoutRevokes ==
  [][\A e \in Email :
       Exists(e) /\ Hash(e) = Null /\ Hash(e)' # Null
         => \E r \in Request :
              /\ target[r] = e
              /\ pc[r] \in {"store", "write"} /\ pc'[r] # pc[r]
              /\ \/ pc[r] = "store" /\ call[r] # "refresh"
                 \/ seen[r].hashedRefreshToken # Null]_vars
=============================================================================
