----------------------------- MODULE AuthProofs -----------------------------
(***************************************************************************)
(* Proofs about AuthService, for any sets of accounts, Google ids and      *)
(* requests and any load: the inductive invariant first, then the          *)
(* properties of AuthProperties.                                           *)
(***************************************************************************)
EXTENDS AuthProperties, FiniteSetTheorems, TLAPS

(***************************************************************************)
(* Control: a request that has got past its first await works on an        *)
(* account, which exists unless the request is about to insert it; and     *)
(* what it holds in memory is what its handler has read or made.           *)
(***************************************************************************)
Linking(r) == pc[r] \in {"reload", "write"}

ControlInv ==
  \A r \in Request :
    /\ pc[r] # "idle" => target[r] \in Email
    /\ pc[r] \in {"reload", "write", "store", "clear", "answer", "done"}
         => Exists(target[r])
    /\ pc[r] = "insert" =>
         /\ call[r] \in {"register", "google"}
         /\ user[r] # Null
         /\ call[r] = "register" => user[r].password = "chosen"
    /\ Linking(r) =>
         /\ call[r] = "google"
         /\ user[r] # Null /\ seen[r] # Null
         /\ user[r].googleId # Null
         /\ user[r].hashedRefreshToken = seen[r].hashedRefreshToken
    /\ pc[r] = "clear" => call[r] = "logout"
    /\ pc[r] = "store" => call[r] # "logout"
    /\ pc[r] = "store" /\ call[r] = "refresh" =>
         seen[r] # Null /\ seen[r].hashedRefreshToken # Null

(* Nobody changes a password: a link writes back the one there is. *)
PasswordInv ==
  \A r \in Request :
    Linking(r) => user[r].password = users[target[r]].password

(* The calls of register whose account is stored. *)
Registered(e) ==
  {r \in Request : /\ pc[r] \in {"store", "answer", "done"}
                   /\ call[r] = "register"
                   /\ target[r] = e}

RegisterInv ==
  \A e \in Email :
    /\ \A q, r \in Registered(e) : q = r
    /\ Registered(e) # {} => users[e].password = "chosen"

(***************************************************************************)
(* A token is anywhere, in a row, in the memory of a request or among the  *)
(* retired ones, only after the request that signed it has stored it.      *)
(***************************************************************************)
Signed == {r \in Request : pc[r] \in {"answer", "done", "failed"}}

SignedInv ==
  /\ \A e \in Email :
       /\ retired[e] \subseteq Signed
       /\ Exists(e) => Hash(e) \in Signed \cup {Null}
  /\ \A r \in Request :
       /\ user[r] # Null => user[r].hashedRefreshToken \in Signed \cup {Null}
       /\ seen[r] # Null => seen[r].hashedRefreshToken \in Signed \cup {Null}

(* An account that was never contended has one open request at most. *)
AloneInv ==
  /\ IsFiniteSet(Open)
  /\ \A e \in Email \ contended :
       \A q, r \in Open : target[q] = e /\ target[r] = e => q = r

(***************************************************************************)
(* Such an account has the token of the request that is about to answer,   *)
(* and between requests, if none of them failed, that of the last answer.  *)
(***************************************************************************)
AnsweredInv ==
  \A e \in Email \ contended :
    /\ \A r \in Request : pc[r] = "answer" /\ target[r] = e =>
         Hash(e) = IF call[r] = "logout" THEN Null ELSE r
    /\ (/\ Exists(e)
        /\ \A r \in Request :
             target[r] = e => pc[r] \notin Suspended \cup {"failed"})
         => Hash(e) = answered[e]

Inv ==
  /\ TypeOK
  /\ ControlInv
  /\ PasswordInv
  /\ RegisterInv
  /\ SignedInv
  /\ AloneInv
  /\ AnsweredInv

-----------------------------------------------------------------------------
(* Lemmas about rows and steps. *)

\* A step of request r.
Act(r) == (\E e \in Email : Arrive(r, e)) \/ Resume(r) \/ Abort(r)

(* A step of r leaves the state of the other requests alone. *)
LEMMA Others ==
  ASSUME TypeOK, NEW r \in Request, Act(r)
  PROVE  \A q \in Request \ {r} :
           /\ pc'[q] = pc[q] /\ call'[q] = call[q] /\ target'[q] = target[q]
           /\ seen'[q] = seen[q] /\ user'[q] = user[q] /\ dirty'[q] = dirty[q]
  BY DEF TypeOK, Act, Arrive, Resume, RegisterCheck, LoginAccept, LoginReject,
     RefreshAccept, RefreshReject, GoogleCreate, GoogleLink, GoogleLinked,
     LogoutStart, Insert, SaveReload, SaveWrite, StoreToken, LogoutClear,
     Answer, Abort, Start, Continue, memory

LEMMA NewUserType ==
  /\ NewUser("chosen", Null) \in User
  /\ \A g \in GoogleId : NewUser("random", g) \in User
  BY DEF NewUser, User

(* The row that the save of a linked account writes. *)
Merged(r) ==
  [c \in Column |->
     IF c \in dirty[r] THEN user[r][c] ELSE users[target[r]][c]]

LEMMA MergedType ==
  ASSUME TypeOK, NEW r \in Request, target[r] \in Email, Exists(target[r]),
         user[r] # Null
  PROVE  /\ Merged(r) \in User
         /\ Merged(r).password = IF "password" \in dirty[r]
              THEN user[r].password ELSE users[target[r]].password
         /\ Merged(r).googleId = IF "googleId" \in dirty[r]
              THEN user[r].googleId ELSE users[target[r]].googleId
         /\ Merged(r).hashedRefreshToken = IF "hashedRefreshToken" \in dirty[r]
              THEN user[r].hashedRefreshToken
              ELSE users[target[r]].hashedRefreshToken
<1>1. user[r] \in User /\ users[target[r]] \in User
  BY DEF TypeOK, Exists
<1>2. Merged(r) = [password |-> Merged(r).password,
                   googleId |-> Merged(r).googleId,
                   hashedRefreshToken |-> Merged(r).hashedRefreshToken]
  BY DEF Merged, Column
<1> QED BY <1>1, <1>2 DEF Merged, Column, User

(***************************************************************************)
(* What a step of r does to the rows: nothing, the insert of the user in   *)
(* memory, or a change of the row of its account, by a link, a new token   *)
(* or a logout.                                                            *)
(***************************************************************************)
Inserts(r) ==
  /\ pc[r] = "insert" /\ pc'[r] = "store"
  /\ ~Exists(target[r])
  /\ users' = [users EXCEPT ![target[r]] = user[r]]
  /\ retired' = retired

Links(r) ==
  /\ pc[r] = "write" /\ pc'[r] = "store"
  /\ SetRow(target[r], Merged(r))

Stores(r) ==
  /\ pc[r] = "store" /\ pc'[r] = "answer"
  /\ SetRow(target[r], [users[target[r]] EXCEPT !.hashedRefreshToken = r])

Clears(r) ==
  /\ pc[r] = "clear" /\ pc'[r] = "answer"
  /\ SetRow(target[r], [users[target[r]] EXCEPT !.hashedRefreshToken = Null])

LEMMA RowSteps ==
  ASSUME TypeOK, NEW r \in Request, Act(r)
  PROVE  \/ UNCHANGED <<users, retired>>
         \/ /\ Inserts(r) \/ Links(r) \/ Stores(r) \/ Clears(r)
            /\ UNCHANGED <<call, target, answered, memory>>
<1> USE DEF TypeOK
<1>1. ASSUME NEW e \in Email, Arrive(r, e)
      PROVE  UNCHANGED <<users, retired>>
  BY <1>1
  DEF Arrive, RegisterCheck, LoginAccept, LoginReject, RefreshAccept,
      RefreshReject, GoogleCreate, GoogleLink, GoogleLinked, LogoutStart
<1>2. CASE Insert(r)
  BY <1>2 DEF Insert, Inserts, Continue
<1>3. CASE SaveReload(r) \/ Answer(r) \/ Abort(r)
  BY <1>3 DEF SaveReload, Answer, Abort
<1>4. CASE SaveWrite(r)
  BY <1>4 DEF SaveWrite, Links, Merged, Continue
<1>5. CASE StoreToken(r)
  BY <1>5 DEF StoreToken, Stores, Continue
<1>6. CASE LogoutClear(r)
  BY <1>6 DEF LogoutClear, Clears, Continue
<1> QED BY <1>1, <1>2, <1>3, <1>4, <1>5, <1>6 DEF Act, Resume

(***************************************************************************)
(* A change of a row, spelled out: its account stays, with its password    *)
(* and its link, and the token it had is retired if it is replaced.        *)
(***************************************************************************)
LEMMA SetRowEffect ==
  ASSUME TypeOK, ControlInv, PasswordInv, NEW r \in Request,
         Links(r) \/ Stores(r) \/ Clears(r)
  PROVE  \E row \in User :
           /\ target[r] \in Email /\ Exists(target[r])
           /\ users[target[r]] \in User
           /\ users' = [users EXCEPT ![target[r]] = row]
           /\ row.password = users[target[r]].password
           /\ users[target[r]].googleId # Null => row.googleId # Null
           /\ retired' = [retired EXCEPT ![target[r]] =
                IF row.hashedRefreshToken = Hash(target[r]) THEN @
                ELSE (@ \cup {Hash(target[r])}) \ {Null}]
           /\ Links(r) => row.hashedRefreshToken \in
                {user[r].hashedRefreshToken, Hash(target[r])}
           /\ Stores(r) => row.hashedRefreshToken = r
           /\ Clears(r) => row.hashedRefreshToken = Null
<1> DEFINE e == target[r]
<1>1. e \in Email /\ Exists(e) /\ users[e] \in User
  BY DEF ControlInv, Links, Stores, Clears, TypeOK, Exists
<1>2. CASE Links(r)
  <2>1. user[r] # Null /\ user[r].googleId # Null
        /\ user[r].password = users[e].password
    BY <1>2 DEF Links, Linking, ControlInv, PasswordInv
  <2>2. /\ Merged(r) \in User
        /\ Merged(r).password = users[e].password
        /\ users[e].googleId # Null => Merged(r).googleId # Null
        /\ Merged(r).hashedRefreshToken \in
             {user[r].hashedRefreshToken, Hash(e)}
    BY <1>1, <2>1, MergedType DEF Hash
  <2>3. ~Stores(r) /\ ~Clears(r)
    BY <1>2 DEF Links, Stores, Clears
  <2>4. SetRow(e, Merged(r))
    BY <1>2 DEF Links
  <2> HIDE DEF e
  <2> QED BY <1>1, <2>2, <2>3, <2>4 DEF SetRow, Hash, e
<1>3. CASE Stores(r)
  <2>1. [users[e] EXCEPT !.hashedRefreshToken = r] \in User
    BY <1>1 DEF User
  <2>2. ~Links(r) /\ ~Clears(r)
    BY <1>3 DEF Links, Stores, Clears
  <2> QED BY <1>1, <1>3, <2>1, <2>2 DEF Stores, SetRow, Hash, User
<1>4. CASE Clears(r)
  <2>1. [users[e] EXCEPT !.hashedRefreshToken = Null] \in User
    BY <1>1 DEF User
  <2>2. ~Links(r) /\ ~Stores(r)
    BY <1>4 DEF Links, Stores, Clears
  <2> QED BY <1>1, <1>4, <2>1, <2>2 DEF Clears, SetRow, Hash, User
<1> QED BY <1>2, <1>3, <1>4

(* An insert, spelled out. *)
LEMMA InsertEffect ==
  ASSUME TypeOK, ControlInv, NEW r \in Request, Inserts(r)
  PROVE  /\ target[r] \in Email /\ ~Exists(target[r])
         /\ user[r] \in User
         /\ users' = [users EXCEPT ![target[r]] = user[r]]
         /\ retired' = retired
  BY DEF Inserts, ControlInv, TypeOK

(* No account is ever removed, loses its password or its link. *)
LEMMA AccountsStay ==
  ASSUME TypeOK, ControlInv, PasswordInv, NEW r \in Request, Act(r)
  PROVE  \A e \in Email : Exists(e) =>
           /\ Exists(e)'
           /\ users'[e].password = users[e].password
           /\ users[e].googleId # Null => users'[e].googleId # Null
<1>1. CASE UNCHANGED <<users, retired>>
  BY <1>1 DEF Exists
<1>2. CASE Inserts(r)
  BY <1>2, InsertEffect DEF Exists, TypeOK
<1>3. CASE Links(r) \/ Stores(r) \/ Clears(r)
  BY <1>3, SetRowEffect, NoUserAssumption DEF Exists, TypeOK
<1> QED BY <1>1, <1>2, <1>3, RowSteps

-----------------------------------------------------------------------------
(* Types and control. *)

LEMMA RowTypes ==
  ASSUME TypeOK, ControlInv, PasswordInv, NEW r \in Request, Act(r)
  PROVE  /\ users' \in [Email -> User \cup {Null}]
         /\ retired' \in [Email -> SUBSET Request]
<1> USE DEF TypeOK
<1>1. CASE UNCHANGED <<users, retired>>
  BY <1>1
<1>2. CASE Inserts(r)
  BY <1>2, InsertEffect
<1>3. CASE Links(r) \/ Stores(r) \/ Clears(r)
  <2>1. PICK row \in User :
          /\ target[r] \in Email /\ users[target[r]] \in User
          /\ users' = [users EXCEPT ![target[r]] = row]
          /\ retired' = [retired EXCEPT ![target[r]] =
               IF row.hashedRefreshToken = Hash(target[r]) THEN @
               ELSE (@ \cup {Hash(target[r])}) \ {Null}]
    BY <1>3, SetRowEffect
  <2>2. Hash(target[r]) \in Request \cup {Null}
    BY <2>1 DEF Hash, User
  <2> QED BY <2>1, <2>2
<1> QED BY <1>1, <1>2, <1>3, RowSteps

LEMMA MemoryTypes ==
  ASSUME TypeOK, ControlInv, NEW r \in Request, Act(r)
  PROVE  /\ answered' \in [Email -> Request \cup {Null}]
         /\ pc' \in [Request -> {"idle"} \cup Suspended \cup Finished]
         /\ call' \in [Request -> Call \cup {Null}]
         /\ target' \in [Request -> Email \cup {Null}]
         /\ seen' \in [Request -> User \cup {Null}]
         /\ user' \in [Request -> User \cup {Null}]
         /\ dirty' \in [Request -> SUBSET Column]
<1> USE DEF TypeOK, Suspended, Finished, Call
<1>1. ASSUME NEW e \in Email,
             \/ LoginAccept(r, e) \/ LoginReject(r, e) \/ RefreshReject(r, e)
             \/ GoogleLinked(r, e)
      PROVE  /\ UNCHANGED <<answered, seen, user, dirty>>
             /\ pc' \in [Request -> {"idle"} \cup Suspended \cup Finished]
             /\ call' \in [Request -> Call \cup {Null}]
             /\ target' \in [Request -> Email \cup {Null}]
  BY <1>1
  DEF LoginAccept, LoginReject, RefreshReject, GoogleLinked, Start, memory
<1>2. ASSUME NEW e \in Email, RefreshAccept(r, e) \/ LogoutStart(r, e)
      PROVE  /\ UNCHANGED <<answered, user, dirty>>
             /\ seen' \in [Request -> User \cup {Null}]
             /\ pc' \in [Request -> {"idle"} \cup Suspended \cup Finished]
             /\ call' \in [Request -> Call \cup {Null}]
             /\ target' \in [Request -> Email \cup {Null}]
  BY <1>2 DEF RefreshAccept, LogoutStart, Start
<1>3. ASSUME NEW e \in Email,
             \/ RegisterCheck(r, e)
             \/ \E g \in GoogleId : GoogleCreate(r, e, g)
      PROVE  /\ UNCHANGED <<answered, seen, dirty>>
             /\ user' \in [Request -> User \cup {Null}]
             /\ pc' \in [Request -> {"idle"} \cup Suspended \cup Finished]
             /\ call' \in [Request -> Call \cup {Null}]
             /\ target' \in [Request -> Email \cup {Null}]
  BY <1>3, NewUserType DEF RegisterCheck, GoogleCreate, Start
<1>4. ASSUME NEW e \in Email, NEW g \in GoogleId, GoogleLink(r, e, g)
      PROVE  /\ UNCHANGED <<answered, dirty>>
             /\ seen' \in [Request -> User \cup {Null}]
             /\ user' \in [Request -> User \cup {Null}]
             /\ pc' \in [Request -> {"idle"} \cup Suspended \cup Finished]
             /\ call' \in [Request -> Call \cup {Null}]
             /\ target' \in [Request -> Email \cup {Null}]
  <2>1. users[e] \in User
    BY <1>4 DEF GoogleLink, Exists
  <2>2. [users[e] EXCEPT !.googleId = g] \in User
    BY <2>1 DEF User
  <2> QED BY <1>4, <2>1, <2>2 DEF GoogleLink, Start
<1>5. CASE Resume(r) \/ Abort(r)
  BY <1>5
  DEF Resume, Insert, SaveReload, SaveWrite, StoreToken, LogoutClear, Answer,
      Abort, Continue, memory, ControlInv
<1> QED BY <1>1, <1>2, <1>3, <1>4, <1>5 DEF Act, Arrive

LEMMA TypeStep ==
  ASSUME TypeOK, ControlInv, PasswordInv, Next
  PROVE  TypeOK'
<1>1. PICK r \in Request : Act(r)
  BY DEF Next, Act
<1>2. contended' \subseteq Email
  BY DEF TypeOK, Next, Contention
<1> QED BY <1>1, <1>2, RowTypes, MemoryTypes DEF TypeOK

LEMMA ControlStep ==
  ASSUME TypeOK, ControlInv, PasswordInv, NEW r \in Request, Act(r)
  PROVE  ControlInv'
<1> USE DEF TypeOK
<1> DEFINE C(q) ==
      /\ pc[q] # "idle" => target[q] \in Email
      /\ pc[q] \in {"reload", "write", "store", "clear", "answer", "done"}
           => Exists(target[q])
      /\ pc[q] = "insert" =>
           /\ call[q] \in {"register", "google"}
           /\ user[q] # Null
           /\ call[q] = "register" => user[q].password = "chosen"
      /\ Linking(q) =>
           /\ call[q] = "google"
           /\ user[q] # Null /\ seen[q] # Null
           /\ user[q].googleId # Null
           /\ user[q].hashedRefreshToken = seen[q].hashedRefreshToken
      /\ pc[q] = "clear" => call[q] = "logout"
      /\ pc[q] = "store" => call[q] # "logout"
      /\ pc[q] = "store" /\ call[q] = "refresh" =>
           seen[q] # Null /\ seen[q].hashedRefreshToken # Null
<1>1. \A e \in Email : Exists(e) => Exists(e)'
  BY AccountsStay
<1>2. ASSUME NEW q \in Request \ {r}
      PROVE  C(q)'
  <2>1. C(q)
    BY DEF ControlInv
  <2>2. /\ pc'[q] = pc[q] /\ call'[q] = call[q] /\ target'[q] = target[q]
        /\ seen'[q] = seen[q] /\ user'[q] = user[q]
    BY Others
  <2> QED BY <1>1, <2>1, <2>2 DEF Linking
<1>3. C(r)'
  <2>1. C(r)
    BY DEF ControlInv
  <2>2. ASSUME NEW e \in Email,
               \/ LoginAccept(r, e) \/ LoginReject(r, e)
               \/ RefreshReject(r, e) \/ GoogleLinked(r, e)
        PROVE  C(r)'
    BY <1>1, <2>2
    DEF LoginAccept, LoginReject, RefreshReject, GoogleLinked, Start, Linking
  <2>3. ASSUME NEW e \in Email, RefreshAccept(r, e) \/ LogoutStart(r, e)
        PROVE  C(r)'
    <3>1. Exists(e)
      BY <2>3 DEF RefreshAccept, LogoutStart, Delivered, ControlInv
    <3> QED
      BY <1>1, <2>3, <3>1
      DEF RefreshAccept, LogoutStart, Start, Linking, Exists
  <2>4. ASSUME NEW e \in Email,
               \/ RegisterCheck(r, e)
               \/ \E g \in GoogleId : GoogleCreate(r, e, g)
        PROVE  C(r)'
    <3>1. user'[r] # Null /\ (RegisterCheck(r, e) => user'[r].password = "chosen")
      BY <2>4, NewUserType, NoUserAssumption
      DEF RegisterCheck, GoogleCreate, NewUser
    <3> QED
      BY <1>1, <2>4, <3>1 DEF RegisterCheck, GoogleCreate, Start, Linking
  <2>5. ASSUME NEW e \in Email, NEW g \in GoogleId, GoogleLink(r, e, g)
        PROVE  C(r)'
    <3>1. /\ users[e] \in User /\ user'[r] = [users[e] EXCEPT !.googleId = g]
          /\ seen'[r] = users[e] /\ pc'[r] = "reload" /\ target'[r] = e
          /\ call'[r] = "google"
      BY <2>5 DEF GoogleLink, Start, Exists
    <3>2. /\ user'[r] \in User /\ user'[r].googleId = g
          /\ user'[r].hashedRefreshToken = users[e].hashedRefreshToken
      BY <3>1 DEF User
    <3>3. Exists(e)'
      BY <1>1, <2>5 DEF GoogleLink
    <3> QED
      BY <3>1, <3>2, <3>3, NoUserAssumption, AuthAssumption DEF Linking
  <2>6. CASE Insert(r)
    <3>1. pc'[r] = "store" => Exists(target[r])'
      BY <2>6, <2>1, NoUserAssumption DEF Insert, Continue, Exists
    <3>2. /\ pc[r] = "insert" /\ pc'[r] \in {"store", "failed"}
          /\ UNCHANGED <<call, target, seen, user>>
      BY <2>6 DEF Insert, Continue, memory
    <3> QED BY <2>1, <3>1, <3>2 DEF Linking
  <2>7. CASE SaveReload(r) \/ SaveWrite(r) \/ Answer(r) \/ Abort(r)
    BY <1>1, <2>1, <2>7
    DEF SaveReload, SaveWrite, Answer, Abort, Continue, Linking, memory,
        Suspended
  <2>8. CASE StoreToken(r) \/ LogoutClear(r)
    BY <1>1, <2>1, <2>8
    DEF StoreToken, LogoutClear, Continue, Linking, memory
  <2> QED BY <2>2, <2>3, <2>4, <2>5, <2>6, <2>7, <2>8
          DEF Act, Arrive, Resume
<1> QED BY <1>2, <1>3 DEF ControlInv

-----------------------------------------------------------------------------
(* Passwords and registrations. *)

LEMMA PasswordStep ==
  ASSUME TypeOK, ControlInv, PasswordInv, NEW r \in Request, Act(r)
  PROVE  PasswordInv'
<1> USE DEF TypeOK
<1>1. ASSUME NEW q \in Request \ {r}, Linking(q)'
      PROVE  user'[q].password = users'[target'[q]].password
  <2>1. pc'[q] = pc[q] /\ target'[q] = target[q] /\ user'[q] = user[q]
    BY Others
  <2>2. /\ Linking(q) /\ target[q] \in Email /\ Exists(target[q])
        /\ user[q].password = users[target[q]].password
    BY <1>1, <2>1 DEF Linking, ControlInv, PasswordInv
  <2> QED BY <2>1, <2>2, AccountsStay
<1>2. ASSUME Linking(r)'
      PROVE  user'[r].password = users'[target'[r]].password
  <2>1. CASE \E e \in Email, g \in GoogleId : GoogleLink(r, e, g)
    <3>1. PICK e \in Email, g \in GoogleId : GoogleLink(r, e, g)
      BY <2>1
    <3>2. /\ users[e] \in User /\ user'[r] = [users[e] EXCEPT !.googleId = g]
          /\ target'[r] = e /\ users' = users
      BY <3>1 DEF GoogleLink, Start, Exists
    <3> QED BY <3>2 DEF User
  <2>2. CASE SaveReload(r)
    BY <2>2 DEF SaveReload, Continue, Linking, PasswordInv
  <2>3. \/ \E e \in Email, g \in GoogleId : GoogleLink(r, e, g)
        \/ SaveReload(r)
    BY <1>2
    DEF Linking, Act, Arrive, Resume, RegisterCheck, LoginAccept, LoginReject,
        RefreshAccept, RefreshReject, GoogleCreate, GoogleLinked, LogoutStart,
        Insert, SaveWrite, StoreToken, LogoutClear, Answer, Abort, Start,
        Continue
  <2> QED BY <2>1, <2>2, <2>3
<1> QED BY <1>1, <1>2 DEF PasswordInv

(* Only the insert of a register call adds to the registrations. *)
LEMMA Registers ==
  ASSUME TypeOK, ControlInv, NEW r \in Request, Act(r), NEW e \in Email
  PROVE  \/ Registered(e)' \subseteq Registered(e)
         \/ /\ Inserts(r) /\ target[r] = e /\ call[r] = "register"
            /\ Registered(e)' \subseteq Registered(e) \cup {r}
<1> USE DEF TypeOK
<1>1. Registered(e)' \subseteq Registered(e) \cup {r}
  BY Others DEF Registered
<1>2. SUFFICES ASSUME r \in Registered(e)', r \notin Registered(e)
               PROVE  Inserts(r) /\ target[r] = e /\ call[r] = "register"
  BY <1>1
<1>3. /\ pc'[r] \in {"store", "answer", "done"} /\ call'[r] = "register"
      /\ target'[r] = e
  BY <1>2 DEF Registered
<1>4. ~ \E x \in Email : Arrive(r, x)
  BY <1>3
  DEF Arrive, RegisterCheck, LoginAccept, LoginReject, RefreshAccept,
      RefreshReject, GoogleCreate, GoogleLink, GoogleLinked, LogoutStart, Start
<1>5. call[r] = "register" /\ target[r] = e
  BY <1>3, <1>4
  DEF Act, Resume, Insert, SaveReload, SaveWrite, StoreToken, LogoutClear,
      Answer, Abort
<1>6. pc[r] \notin {"store", "answer", "reload", "write", "clear"}
  BY <1>2, <1>5 DEF Registered, ControlInv, Linking
<1>7. Insert(r)
  BY <1>3, <1>4, <1>6
  DEF Act, Resume, SaveReload, SaveWrite, StoreToken, LogoutClear, Answer,
      Abort, Continue
<1> QED BY <1>3, <1>5, <1>7 DEF Insert, Inserts, Continue

LEMMA RegisterStep ==
  ASSUME TypeOK, ControlInv, PasswordInv, RegisterInv, NEW r \in Request, Act(r)
  PROVE  RegisterInv'
<1> SUFFICES ASSUME NEW e \in Email
             PROVE  /\ \A p, q \in Registered(e)' : p = q
                    /\ Registered(e)' # {} => users'[e].password = "chosen"
  BY DEF RegisterInv
<1>1. Registered(e) # {} => Exists(e)
  BY DEF Registered, ControlInv
<1>2. CASE Registered(e)' \subseteq Registered(e)
  BY <1>1, <1>2, AccountsStay DEF RegisterInv
<1>3. CASE /\ Inserts(r) /\ target[r] = e /\ call[r] = "register"
           /\ Registered(e)' \subseteq Registered(e) \cup {r}
  <2>1. Registered(e) = {}
    BY <1>1, <1>3, InsertEffect
  <2>2. users'[e] = user[r] /\ user[r].password = "chosen"
    BY <1>3, InsertEffect DEF Inserts, ControlInv, TypeOK
  <2> QED BY <1>3, <2>1, <2>2
<1> QED BY <1>2, <1>3, Registers

-----------------------------------------------------------------------------
(* Tokens are signed once. *)

LEMMA SignedGrows ==
  ASSUME TypeOK, NEW r \in Request, Act(r)
  PROVE  Signed \subseteq Signed'
<1>1. pc[r] \in {"answer", "done", "failed"}
        => pc'[r] \in {"answer", "done", "failed"}
  BY DEF TypeOK, Act, Arrive, Resume, RegisterCheck, LoginAccept, LoginReject,
     RefreshAccept, RefreshReject, GoogleCreate, GoogleLink, GoogleLinked,
     LogoutStart, Insert, SaveReload, SaveWrite, StoreToken, LogoutClear,
     Answer, Abort, Start, Continue
<1> QED BY <1>1, Others DEF Signed

(* What a request has read or made is not newer than the rows. *)
LEMMA SignedMemory ==
  ASSUME TypeOK, SignedInv, NEW r \in Request, Act(r)
  PROVE  /\ user'[r] # Null
              => user'[r].hashedRefreshToken \in Signed \cup {Null}
         /\ seen'[r] # Null
              => seen'[r].hashedRefreshToken \in Signed \cup {Null}
<1> USE DEF TypeOK
<1>1. ASSUME NEW e \in Email, NEW g \in GoogleId, GoogleLink(r, e, g)
      PROVE  /\ user'[r].hashedRefreshToken \in Signed \cup {Null}
             /\ seen'[r].hashedRefreshToken \in Signed \cup {Null}
  <2>1. /\ users[e] \in User /\ Hash(e) \in Signed \cup {Null}
        /\ user'[r] = [users[e] EXCEPT !.googleId = g] /\ seen'[r] = users[e]
    BY <1>1 DEF GoogleLink, Exists, SignedInv
  <2> QED BY <2>1 DEF User, Hash
<1>2. ASSUME NEW e \in Email, RefreshAccept(r, e) \/ LogoutStart(r, e)
      PROVE  /\ user'[r] = user[r]
             /\ seen'[r] # Null
                  => seen'[r].hashedRefreshToken \in Signed \cup {Null}
  BY <1>2 DEF RefreshAccept, LogoutStart, SignedInv, Exists, Hash
<1>3. ASSUME NEW e \in Email,
             \/ RegisterCheck(r, e)
             \/ \E g \in GoogleId : GoogleCreate(r, e, g)
      PROVE  user'[r].hashedRefreshToken = Null /\ seen'[r] = seen[r]
  BY <1>3 DEF RegisterCheck, GoogleCreate, NewUser
<1>4. ASSUME NEW e \in Email,
             \/ LoginAccept(r, e) \/ LoginReject(r, e)
             \/ RefreshReject(r, e) \/ GoogleLinked(r, e)
      PROVE  user'[r] = user[r] /\ seen'[r] = seen[r]
  BY <1>4 DEF LoginAccept, LoginReject, RefreshReject, GoogleLinked, memory
<1>5. ASSUME Resume(r) \/ Abort(r)
      PROVE  user'[r] = user[r] /\ seen'[r] = seen[r]
  BY <1>5
  DEF Resume, Insert, SaveReload, SaveWrite, StoreToken, LogoutClear, Answer,
      Abort, memory
<1> QED BY <1>1, <1>2, <1>3, <1>4, <1>5 DEF Act, Arrive, SignedInv

LEMMA SignedStep ==
  ASSUME TypeOK, ControlInv, PasswordInv, SignedInv, NEW r \in Request, Act(r)
  PROVE  SignedInv'
<1> USE DEF TypeOK
<1>1. Signed \subseteq Signed'
  BY SignedGrows
<1>2. \A q \in Request :
        /\ user'[q] # Null
             => user'[q].hashedRefreshToken \in Signed' \cup {Null}
        /\ seen'[q] # Null
             => seen'[q].hashedRefreshToken \in Signed' \cup {Null}
  BY <1>1, SignedMemory, Others DEF SignedInv
<1>3. ASSUME NEW e \in Email
      PROVE  /\ retired'[e] \subseteq Signed'
             /\ Exists(e)' => Hash(e)' \in Signed' \cup {Null}
  <2>1. CASE UNCHANGED <<users, retired>>
    BY <1>1, <2>1 DEF SignedInv, Exists, Hash
  <2>2. CASE Inserts(r)
    BY <1>1, <2>2, InsertEffect, NoUserAssumption
    DEF SignedInv, Exists, Hash
  <2>3. CASE Links(r) \/ Stores(r) \/ Clears(r)
    <3>1. PICK row \in User :
            /\ target[r] \in Email /\ Exists(target[r])
            /\ users' = [users EXCEPT ![target[r]] = row]
            /\ retired' = [retired EXCEPT ![target[r]] =
                 IF row.hashedRefreshToken = Hash(target[r]) THEN @
                 ELSE (@ \cup {Hash(target[r])}) \ {Null}]
            /\ Links(r) => row.hashedRefreshToken \in
                 {user[r].hashedRefreshToken, Hash(target[r])}
            /\ Stores(r) => row.hashedRefreshToken = r
            /\ Clears(r) => row.hashedRefreshToken = Null
      BY <2>3, SetRowEffect
    <3>2. Stores(r) => r \in Signed'
      BY DEF Stores, Signed
    <3>3. Links(r) => user[r].hashedRefreshToken \in Signed \cup {Null}
      BY DEF Links, Linking, ControlInv, SignedInv
    <3>4. Hash(target[r]) \in Signed \cup {Null}
      BY <3>1 DEF SignedInv
    <3>5. row.hashedRefreshToken \in Signed' \cup {Null}
      BY <1>1, <2>3, <3>1, <3>2, <3>3, <3>4
    <3>6. retired'[target[r]] \subseteq Signed'
      BY <1>1, <3>1, <3>4 DEF SignedInv
    <3> QED
      BY <1>1, <3>1, <3>5, <3>6 DEF SignedInv, Exists, Hash
  <2> QED BY <2>1, <2>2, <2>3, RowSteps
<1> QED BY <1>2, <1>3 DEF SignedInv

-----------------------------------------------------------------------------
(* Requests that do not overlap. *)

LEMMA AtMostOne ==
  ASSUME NEW S, IsFiniteSet(S), ~(Cardinality(S) > 1), NEW x \in S, NEW y \in S
  PROVE  x = y
<1>1. Cardinality(S) \in Nat
  BY FS_CardinalityType
<1>2. Cardinality(S) # 0
  BY FS_EmptySet
<1>3. Cardinality(S) = 1
  BY <1>1, <1>2
<1> QED BY <1>3, FS_Singleton

LEMMA AloneStep ==
  ASSUME TypeOK, AloneInv, Next
  PROVE  AloneInv'
<1>1. PICK r \in Request : Act(r)
  BY DEF Next, Act
<1>2. Open' \subseteq Open \cup {r}
  BY <1>1, Others DEF Open
<1>3. IsFiniteSet(Open')
  BY <1>2, FS_AddElement, FS_Subset DEF AloneInv
<1>4. ASSUME NEW e \in Email \ contended', NEW p \in Open', NEW q \in Open',
             target'[p] = e, target'[q] = e
      PROVE  p = q
  <2> DEFINE S == {t \in Open' : target'[t] = e}
  <2>1. IsFiniteSet(S)
    BY <1>3, FS_Subset
  <2>2. ~(Cardinality(S) > 1)
    BY <1>4 DEF Next, Contention
  <2>3. p \in S /\ q \in S
    BY <1>4
  <2> HIDE DEF S
  <2> QED BY <2>1, <2>2, <2>3, AtMostOne
<1> QED BY <1>3, <1>4 DEF AloneInv

(* A request that is not idle keeps its account; it ends as done only by   *)
(* its answer.                                                             *)
LEMMA Ends ==
  ASSUME TypeOK, NEW r \in Request, Act(r)
  PROVE  /\ pc'[r] # "idle"
         /\ pc[r] = "idle" \/ pc[r] \in Suspended
         /\ pc[r] \in Suspended => target'[r] = target[r] /\ call'[r] = call[r]
         /\ pc[r] \in Suspended =>
              \/ pc'[r] \in Suspended \cup {"failed"}
              \/ Answer(r) /\ UNCHANGED <<users, retired>>
         /\ pc[r] = "idle" => UNCHANGED <<users, retired, answered>>
         /\ pc'[r] = "answer" => Stores(r) \/ Clears(r)
         /\ ~Answer(r) => answered' = answered
<1> USE DEF TypeOK
<1>1. ASSUME NEW e \in Email, Arrive(r, e)
      PROVE  /\ pc[r] = "idle" /\ pc'[r] \notin {"idle", "answer"}
             /\ UNCHANGED <<users, retired, answered>>
  BY <1>1
  DEF Arrive, RegisterCheck, LoginAccept, LoginReject, RefreshAccept,
      RefreshReject, GoogleCreate, GoogleLink, GoogleLinked, LogoutStart, Start
<1>2. CASE Insert(r) \/ SaveReload(r) \/ SaveWrite(r) \/ Abort(r)
  BY <1>2
  DEF Insert, SaveReload, SaveWrite, Abort, Continue, Suspended
<1>3. CASE StoreToken(r) \/ LogoutClear(r)
  BY <1>3
  DEF StoreToken, LogoutClear, Continue, Suspended, Stores, Clears
<1>4. CASE Answer(r)
  BY <1>4 DEF Answer, Continue, Suspended
<1> QED BY <1>1, <1>2, <1>3, <1>4 DEF Act, Resume, Suspended

(* A step leaves an account alone that its request is not working on. *)
LEMMA OtherAccounts ==
  ASSUME TypeOK, ControlInv, PasswordInv, NEW r \in Request, Act(r),
         NEW e \in Email, target'[r] # e
  PROVE  /\ users'[e] = users[e] /\ answered'[e] = answered[e]
         /\ target[r] = e => pc[r] = "idle"
<1>1. target[r] = e => pc[r] = "idle"
  BY Ends
<1>2. answered'[e] = answered[e]
  BY Ends DEF Answer, TypeOK
<1>3. users'[e] = users[e]
  <2>1. CASE UNCHANGED <<users, retired>>
    BY <2>1
  <2>2. CASE Inserts(r)
    BY <2>2, <1>1, InsertEffect DEF Inserts, TypeOK
  <2>3. CASE Links(r)
    BY <2>3, <1>1, SetRowEffect DEF Links, TypeOK
  <2>4. CASE Stores(r)
    BY <2>4, <1>1, SetRowEffect DEF Stores, TypeOK
  <2>5. CASE Clears(r)
    BY <2>5, <1>1, SetRowEffect DEF Clears, TypeOK
  <2> QED BY <2>1, <2>2, <2>3, <2>4, <2>5, RowSteps
<1> QED BY <1>1, <1>2, <1>3

LEMMA AnsweredStep ==
  ASSUME TypeOK, ControlInv, PasswordInv, AloneInv, AnsweredInv, Next
  PROVE  AnsweredInv'
<1>1. PICK r \in Request : Act(r)
  BY DEF Next, Act
<1> SUFFICES ASSUME NEW e \in Email \ contended'
             PROVE  /\ \A q \in Request : pc'[q] = "answer" /\ target'[q] = e =>
                         Hash(e)' = IF call'[q] = "logout" THEN Null ELSE q
                    /\ (/\ Exists(e)'
                        /\ \A q \in Request :
                             target'[q] = e
                               => pc'[q] \notin Suspended \cup {"failed"})
                         => Hash(e)' = answered'[e]
  BY DEF AnsweredInv
<1>2. e \in Email \ contended
  BY DEF Next
<1>3. /\ \A q \in Request : pc[q] = "answer" /\ target[q] = e =>
           Hash(e) = IF call[q] = "logout" THEN Null ELSE q
      /\ (/\ Exists(e)
          /\ \A q \in Request :
               target[q] = e => pc[q] \notin Suspended \cup {"failed"})
           => Hash(e) = answered[e]
  BY <1>2 DEF AnsweredInv
<1>4. \A q \in Request \ {r} :
        pc'[q] = pc[q] /\ target'[q] = target[q] /\ call'[q] = call[q]
  BY <1>1, Others
<1>5. CASE target'[r] # e
  <2>1. /\ users'[e] = users[e] /\ answered'[e] = answered[e]
        /\ target[r] = e => pc[r] = "idle"
    BY <1>1, <1>5, OtherAccounts
  <2> QED BY <1>3, <1>4, <1>5, <2>1 DEF Exists, Hash, Suspended
<1>6. CASE target'[r] = e
  <2>1. ASSUME NEW q \in Request, pc'[q] = "answer", target'[q] = e
        PROVE  Hash(e)' = IF call'[q] = "logout" THEN Null ELSE q
    <3>1. CASE q = r
      <4>1. Stores(r) \/ Clears(r)
        BY <1>1, <2>1, <3>1, Ends
      <4>2. /\ target[r] = e /\ call'[r] = call[r]
            /\ Stores(r) => call[r] # "logout"
            /\ Clears(r) => call[r] = "logout"
        BY <1>1, <1>6, <4>1, Ends DEF Stores, Clears, ControlInv, Suspended
      <4>3. /\ Stores(r) => Hash(e)' = r
            /\ Clears(r) => Hash(e)' = Null
        BY <4>1, <4>2, SetRowEffect DEF Hash, TypeOK
      <4> QED BY <3>1, <4>1, <4>2, <4>3
    <3>2. CASE q # r
      <4>1. q \in Open /\ target[q] = e /\ pc[q] = "answer"
        BY <1>4, <2>1, <3>2 DEF Open, Suspended
      <4>2. r \notin Open
        <5>1. r \in Open => target[r] = e
          BY <1>1, <1>6, Ends DEF Open
        <5> QED BY <1>2, <3>2, <4>1, <5>1 DEF AloneInv
      <4>3. pc[r] = "idle"
        BY <1>1, <4>2, Ends DEF Open
      <4>4. users' = users
        BY <1>1, <4>3, Ends
      <4> QED BY <1>3, <1>4, <3>2, <4>1, <4>4 DEF Hash
    <3> QED BY <3>1, <3>2
  <2>2. ASSUME Exists(e)',
               \A q \in Request :
                 target'[q] = e => pc'[q] \notin Suspended \cup {"failed"}
        PROVE  Hash(e)' = answered'[e]
    <3>1. CASE pc[r] = "idle"
      <4>1. UNCHANGED <<users, answered>>
        BY <1>1, <3>1, Ends
      <4>2. \A q \in Request :
              target[q] = e => pc[q] \notin Suspended \cup {"failed"}
        BY <1>4, <2>2, <3>1 DEF Suspended
      <4> QED BY <1>3, <2>2, <4>1, <4>2 DEF Hash, Exists
    <3>2. CASE pc[r] \in Suspended
      <4>1. Answer(r) /\ users' = users /\ target[r] = e
        BY <1>1, <1>6, <2>2, <3>2, Ends
      <4>2. Hash(e) = IF call[r] = "logout" THEN Null ELSE r
        BY <1>3, <4>1 DEF Answer, Continue
      <4>3. answered'[e] = IF call[r] = "logout" THEN Null ELSE r
        BY <4>1 DEF Answer, TypeOK
      <4> QED BY <4>1, <4>2, <4>3 DEF Hash
    <3> QED BY <1>1, <3>1, <3>2, Ends
  <2> QED BY <2>1, <2>2
<1> QED BY <1>5, <1>6

-----------------------------------------------------------------------------
(* The inductive invariant, and what it implies. *)

LEMMA InitInv == Init => Inv
<1> SUFFICES ASSUME Init
             PROVE  Inv
  OBVIOUS
<1> USE DEF Init
<1>1. TypeOK
  BY DEF TypeOK
<1>2. ControlInv /\ PasswordInv
  BY DEF ControlInv, PasswordInv, Linking
<1>3. RegisterInv /\ SignedInv
  BY DEF RegisterInv, Registered, SignedInv, Exists
<1>4. AloneInv /\ AnsweredInv
  BY FS_EmptySet DEF AloneInv, AnsweredInv, Open, Suspended, Exists
<1> QED BY <1>1, <1>2, <1>3, <1>4 DEF Inv

LEMMA StutterInv == Inv /\ UNCHANGED vars => Inv'
<1> SUFFICES ASSUME Inv, UNCHANGED vars
             PROVE  Inv'
  OBVIOUS
<1> USE DEF Inv, vars, memory
<1>1. TypeOK'
  BY DEF TypeOK
<1>2. ControlInv' /\ PasswordInv'
  BY DEF ControlInv, PasswordInv, Linking, Exists
<1>3. RegisterInv' /\ SignedInv'
  BY DEF RegisterInv, Registered, SignedInv, Signed, Exists, Hash
<1>4. AloneInv' /\ AnsweredInv'
  BY DEF AloneInv, AnsweredInv, Open, Exists, Hash
<1> QED BY <1>1, <1>2, <1>3, <1>4

LEMMA StepInv == Inv /\ [Next]_vars => Inv'
<1>1. ASSUME Inv, Next
      PROVE  Inv'
  <2>1. PICK r \in Request : Act(r)
    BY <1>1 DEF Next, Act
  <2> QED
    BY <1>1, <2>1, TypeStep, ControlStep, PasswordStep, RegisterStep,
       SignedStep, AloneStep, AnsweredStep DEF Inv
<1> QED BY <1>1, StutterInv

(* The strengthened invariant of the accounts and their sessions.          *)
THEOREM Invariance == Spec => []Inv
  BY InitInv, StepInv, PTL DEF Spec

(* All variables keep their types, for any number of accounts and calls.   *)
THEOREM TypeCorrect == Spec => []TypeOK
<1>1. Inv => TypeOK
  BY DEF Inv
<1> QED BY <1>1, Invariance, PTL

(***************************************************************************)
(* Of all the register calls for an e-mail one at most is answered with an *)
(* account, and then the account has the password that was chosen: the     *)
(* unique column decides between calls that overlap.                       *)
(***************************************************************************)
THEOREM RegisteredOnce == Spec => []OneRegistrationPerEmail
<1>1. ASSUME Inv
      PROVE  OneRegistrationPerEmail
  <2> SUFFICES ASSUME NEW e \in Email
               PROVE  LET registered ==
                            {r \in Request : /\ pc[r] = "done"
                                             /\ call[r] = "register"
                                             /\ target[r] = e}
                      IN /\ Cardinality(registered) <= 1
                         /\ registered # {} =>
                              Exists(e) /\ users[e].password = "chosen"
    BY DEF OneRegistrationPerEmail
  <2> DEFINE registered ==
        {r \in Request : /\ pc[r] = "done"
                         /\ call[r] = "register"
                         /\ target[r] = e}
  <2>1. registered \subseteq Registered(e)
    BY DEF Registered
  <2>2. registered # {} => Exists(e) /\ users[e].password = "chosen"
    BY <1>1, <2>1 DEF Inv, RegisterInv, ControlInv
  <2>3. \A q, r \in registered : q = r
    BY <1>1, <2>1 DEF Inv, RegisterInv
  <2> HIDE DEF registered
  <2>4. registered = {} \/ \E r : registered = {r}
    BY <2>3
  <2>5. Cardinality(registered) <= 1
    BY <2>4, FS_EmptySet, FS_Singleton
  <2> QED BY <2>2, <2>5 DEF registered
<1> QED BY <1>1, Invariance, PTL

(***************************************************************************)
(* No save and no update of any request takes a Google link away.          *)
(***************************************************************************)
THEOREM LinksStay == Spec => LinkedStaysLinked
<1>1. ASSUME Inv, [Next]_vars
      PROVE  [\A e \in Email :
                Exists(e) /\ users[e].googleId # Null
                  => Exists(e)' /\ users'[e].googleId # Null]_vars
  <2>1. ASSUME Next
        PROVE  \A e \in Email :
                 Exists(e) /\ users[e].googleId # Null
                   => Exists(e)' /\ users'[e].googleId # Null
    <3>1. PICK r \in Request : Act(r)
      BY <2>1 DEF Next, Act
    <3> QED BY <1>1, <3>1, AccountsStay DEF Inv
  <2> QED BY <1>1, <2>1
<1> QED BY <1>1, Invariance, PTL DEF Spec, LinkedStaysLinked

(***************************************************************************)
(* A token that was replaced or cleared comes back only by the save of a   *)
(* link whose request had read it before it changed: a token that is       *)
(* stored otherwise is stored for the first time.                          *)
(***************************************************************************)
THEOREM LinkingRestores == Spec => OnlyLinkingRestores
<1>1. ASSUME Inv, [Next]_vars
      PROVE  [\A e \in Email :
                Exists(e) /\ Hash(e)' # Hash(e) /\ Hash(e)' \in retired[e]
                  => \E r \in Request :
                       /\ pc[r] = "write" /\ pc'[r] = "store"
                       /\ target[r] = e
                       /\ seen[r].hashedRefreshToken # Hash(e)]_vars
  <2> SUFFICES ASSUME Next, NEW e \in Email, Exists(e), Hash(e)' # Hash(e),
                      Hash(e)' \in retired[e]
               PROVE  \E r \in Request :
                        /\ pc[r] = "write" /\ pc'[r] = "store"
                        /\ target[r] = e
                        /\ seen[r].hashedRefreshToken # Hash(e)
    BY <1>1
  <2> USE <1>1 DEF Inv
  <2>1. PICK r \in Request : Act(r)
    BY DEF Next, Act
  <2>2. ~UNCHANGED <<users, retired>>
    BY DEF Hash
  <2>3. ~Inserts(r)
    BY InsertEffect DEF Hash, TypeOK
  <2>4. Links(r) \/ Stores(r) \/ Clears(r)
    BY <2>1, <2>2, <2>3, RowSteps
  <2>5. PICK row \in User :
          /\ target[r] \in Email
          /\ users' = [users EXCEPT ![target[r]] = row]
          /\ Links(r) => row.hashedRefreshToken \in
               {user[r].hashedRefreshToken, Hash(target[r])}
          /\ Stores(r) => row.hashedRefreshToken = r
          /\ Clears(r) => row.hashedRefreshToken = Null
    BY <2>4, SetRowEffect
  <2>6. target[r] = e /\ Hash(e)' = row.hashedRefreshToken
    BY <2>5 DEF Hash, TypeOK
  <2>7. Hash(e)' \in Signed /\ Hash(e)' \in Request
    BY DEF SignedInv, TypeOK
  <2>8. ~Stores(r) /\ ~Clears(r)
    BY <2>5, <2>6, <2>7, AuthAssumption DEF Stores, Signed
  <2>9. /\ Links(r)
        /\ user[r].hashedRefreshToken = seen[r].hashedRefreshToken
    BY <2>4, <2>8 DEF Links, Linking, ControlInv
  <2> QED BY <2>5, <2>6, <2>9 DEF Links
<1> QED BY <1>1, Invariance, PTL DEF Spec, OnlyLinkingRestores

(***************************************************************************)
(* After a logout the account has a token again only by a sign-in, or by a *)
(* refresh or a link that had read the account while it had a token.       *)
(***************************************************************************)
THEOREM LogoutHolds == Spec => LogoutRevokes
<1>1. ASSUME Inv, [Next]_vars
      PROVE  [\A e \in Email :
                Exists(e) /\ Hash(e) = Null /\ Hash(e)' # Null
                  => \E r \in Request :
                       /\ target[r] = e
                       /\ pc[r] \in {"store", "write"} /\ pc'[r] # pc[r]
                       /\ \/ pc[r] = "store" /\ call[r] # "refresh"
                          \/ seen[r].hashedRefreshToken # Null]_vars
  <2> SUFFICES ASSUME Next, NEW e \in Email, Exists(e), Hash(e) = Null,
                      Hash(e)' # Null
               PROVE  \E r \in Request :
                        /\ target[r] = e
                        /\ pc[r] \in {"store", "write"} /\ pc'[r] # pc[r]
                        /\ \/ pc[r] = "store" /\ call[r] # "refresh"
                           \/ seen[r].hashedRefreshToken # Null
    BY <1>1
  <2> USE <1>1 DEF Inv
  <2>1. PICK r \in Request : Act(r)
    BY DEF Next, Act
  <2>2. ~UNCHANGED <<users, retired>>
    BY DEF Hash
  <2>3. ~Inserts(r)
    BY InsertEffect DEF Hash, TypeOK
  <2>4. Links(r) \/ Stores(r) \/ Clears(r)
    BY <2>1, <2>2, <2>3, RowSteps
  <2>5. PICK row \in User :
          /\ target[r] \in Email
          /\ users' = [users EXCEPT ![target[r]] = row]
          /\ Links(r) => row.hashedRefreshToken \in
               {user[r].hashedRefreshToken, Hash(target[r])}
          /\ Clears(r) => row.hashedRefreshToken = Null
    BY <2>4, SetRowEffect
  <2>6. target[r] = e /\ Hash(e)' = row.hashedRefreshToken
    BY <2>5 DEF Hash, TypeOK
  <2>7. CASE Links(r)
    BY <2>5, <2>6, <2>7 DEF Links, Linking, ControlInv
  <2>8. CASE Stores(r)
    BY <2>6, <2>8 DEF Stores, ControlInv
  <2> QED BY <2>4, <2>5, <2>6, <2>7, <2>8
<1> QED BY <1>1, Invariance, PTL DEF Spec, LogoutRevokes

(***************************************************************************)
(* An account on which no two requests overlapped and none failed has,     *)
(* between requests, the token of the last answer and none after a logout. *)
(***************************************************************************)
THEOREM AnswersHold == Spec => []AnsweredTokenStored
<1>1. Inv => AnsweredTokenStored
  BY DEF Inv, AnsweredInv, AnsweredTokenStored
<1> QED BY <1>1, Invariance, PTL
=============================================================================
