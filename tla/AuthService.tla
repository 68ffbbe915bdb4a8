----------------------------- MODULE AuthService -----------------------------
(***************************************************************************)
(* AuthService: accounts and their sessions.  An account has one session:  *)
(* the hash of the refresh token signed last, or null after a logout.      *)
(* register, login, refresh and the Google callback replace it; linking a  *)
(* Google account also saves a whole user object that was read earlier.    *)
(*                                                                         *)
(* As in OrderStore a request runs undisturbed from one await to the next; *)
(* awaits without a database access of their own (bcrypt, signing) are     *)
(* part of the wait for the statement that follows.  A refresh token is    *)
(* named by the request that signed it, and so is its hash.                *)
(***************************************************************************)
EXTENDS FiniteSets, Naturals

CONSTANTS
  Email,        \* e-mail addresses, which identify the accounts
  GoogleId,     \* ids of Google accounts
  Request,      \* one element per handler call, and per token it signs
  Null,         \* no account, a null column
  MaxInFlight   \* bound: how many requests are open at a time

ASSUME AuthAssumption ==
  /\ MaxInFlight \in Nat \ {0}
  /\ Null \notin Request \cup GoogleId

Column == {"password", "googleId", "hashedRefreshToken"}

\* The password is one the user chose, or the random one of a Google account.
User ==
  [password : {"chosen", "random"},
   googleId : GoogleId \cup {Null},
   hashedRefreshToken : Request \cup {Null}]

\* Null stands for nothing else.
ASSUME NoUserAssumption == Null \notin User

VARIABLES
  users,     \* users table: e-mail -> row, Null before the insert
  retired,   \* history: the tokens of an account that were replaced or cleared
  answered,  \* history: what the last answer left an account with
  pc,        \* where a request is suspended
  call,      \* which operation a request runs
  target,    \* the account a request works on
  seen,      \* history: the row a request read
  user,      \* the user object in the memory of a request
  dirty,     \* the columns the request's save is about to UPDATE
  contended  \* history: accounts two open requests worked on at once

vars == <<users, retired, answered, pc, call, target, seen, user, dirty,
          contended>>

memory == <<seen, user, dirty>>

Suspended == {"insert", "reload", "write", "store", "clear", "answer"}

Finished == {"done", "rejected", "failed"}

Call == {"register", "login", "refresh", "google", "logout"}

Exists(e) == users[e] # Null

Open == {r \in Request : pc[r] \in Suspended}

\* No other account has the Google id g: the unique constraint of the column.
Free(g, e) ==
  g = Null \/ \A f \in Email \ {e} : Exists(f) => users[f].googleId # g

\* The refresh tokens that have reached the client of account e.
Delivered(e) ==
  {q \in Request : pc[q] = "done" /\ target[q] = e /\ call[q] # "logout"}

NewUser(password, g) ==
  [password |-> password, googleId |-> g, hashedRefreshToken |-> Null]

Init ==
  /\ users = [e \in Email |-> Null]
  /\ retired = [e \in Email |-> {}]
  /\ answered = [e \in Email |-> Null]
  /\ pc = [r \in Request |-> "idle"]
  /\ call = [r \in Request |-> Null]
  /\ target = [r \in Request |-> Null]
  /\ seen = [r \in Request |-> Null]
  /\ user = [r \in Request |-> Null]
  /\ dirty = [r \in Request |-> {}]
  /\ contended = {}

-----------------------------------------------------------------------------
Start(r, k, e, l) ==
  /\ pc[r] = "idle"
  /\ Cardinality(Open) < MaxInFlight
  /\ call' = [call EXCEPT ![r] = k]
  /\ target' = [target EXCEPT ![r] = e]
  /\ pc' = [pc EXCEPT ![r] = l]

Continue(r, from, to) ==
  /\ pc[r] = from
  /\ pc' = [pc EXCEPT ![r] = to]

\* The row of account e becomes `row'; the token it had, if any, is retired.
SetRow(e, row) ==
  /\ users' = [users EXCEPT ![e] = row]
  /\ retired' = [retired EXCEPT ![e] =
       IF row.hashedRefreshToken = users[e].hashedRefreshToken THEN @
       ELSE (@ \cup {users[e].hashedRefreshToken}) \ {Null}]

-----------------------------------------------------------------------------
(* register: look for the e-mail, insert, then a session as everywhere. *)
RegisterCheck(r, e) ==
  /\ Start(r, "register", e, IF Exists(e) THEN "rejected" ELSE "insert")
  /\ user' = [user EXCEPT ![r] = NewUser("chosen", Null)]
  /\ UNCHANGED <<users, retired, answered, seen, dirty>>

\* Mutant of Insert: the e-mail column is not unique.
InsertAnyway(r) ==
  /\ Continue(r, "insert", "store")
  /\ users' = [users EXCEPT ![target[r]] = user[r]]
  /\ UNCHANGED <<retired, answered, call, target, memory>>

\* save of a new user.  E-mail and Google id are unique columns.
Insert(r) ==
  LET e == target[r]
      unique == ~Exists(e) /\ Free(user[r].googleId, e)
  IN /\ Continue(r, "insert", IF unique THEN "store" ELSE "failed")
     /\ users' = IF unique THEN [users EXCEPT ![e] = user[r]] ELSE users
     /\ UNCHANGED <<retired, answered, call, target, memory>>

(* login: only the password that was chosen can be entered. *)
LoginAccept(r, e) ==
  /\ Exists(e) /\ users[e].password = "chosen"
  /\ Start(r, "login", e, "store")
  /\ UNCHANGED <<users, retired, answered, memory>>

LoginReject(r, e) ==
  /\ Start(r, "login", e, "rejected")
  /\ UNCHANGED <<users, retired, answered, memory>>

(***************************************************************************)
(* refresh, with a token the client was given.  bcrypt.compare accepts the *)
(* token whose hash is stored, and may accept another one of the account,  *)
(* as it looks at the beginning of the token only.                         *)
(***************************************************************************)
\* Mutant of RefreshAccept: a cleared hash is not looked for.
RefreshAnyway(r, e) ==
  /\ Delivered(e) # {}
  /\ Start(r, "refresh", e, "store")
  /\ seen' = [seen EXCEPT ![r] = users[e]]
  /\ UNCHANGED <<users, retired, answered, user, dirty>>

RefreshAccept(r, e) ==
  /\ Delivered(e) # {}
  /\ users[e].hashedRefreshToken # Null
  /\ Start(r, "refresh", e, "store")
  /\ seen' = [seen EXCEPT ![r] = users[e]]
  /\ UNCHANGED <<users, retired, answered, user, dirty>>

RefreshReject(r, e) ==
  /\ \E t \in Delivered(e) : t # users[e].hashedRefreshToken
  /\ Start(r, "refresh", e, "rejected")
  /\ UNCHANGED <<users, retired, answered, memory>>

-----------------------------------------------------------------------------
(***************************************************************************)
(* The Google callback: an unknown e-mail becomes an account, a known one  *)
(* is linked unless it is linked already.                                  *)
(***************************************************************************)
GoogleCreate(r, e, g) ==
  /\ ~Exists(e)
  /\ Start(r, "google", e, "insert")
  /\ user' = [user EXCEPT ![r] = NewUser("random", g)]
  /\ UNCHANGED <<users, retired, answered, seen, dirty>>

GoogleLink(r, e, g) ==
  /\ Exists(e) /\ users[e].googleId = Null
  /\ Start(r, "google", e, "reload")
  /\ seen' = [seen EXCEPT ![r] = users[e]]
  /\ user' = [user EXCEPT ![r] = [users[e] EXCEPT !.googleId = g]]
  /\ UNCHANGED <<users, retired, answered, dirty>>

GoogleLinked(r, e) ==
  /\ Exists(e) /\ users[e].googleId # Null
  /\ Start(r, "google", e, "store")
  /\ UNCHANGED <<users, retired, answered, memory>>

\* save of a user that was read: the row is read again and compared, ...
SaveReload(r) ==
  /\ Continue(r, "reload", "write")
  /\ dirty' = [dirty EXCEPT ![r] =
                 {c \in Column : user[r][c] # users[target[r]][c]}]
  /\ UNCHANGED <<users, retired, answered, call, target, seen, user>>

\* ... and the columns that differed are written.
SaveWrite(r) ==
  LET e == target[r]
      row == [c \in Column |->
                IF c \in dirty[r] THEN user[r][c] ELSE users[e][c]]
      unique == Free(row.googleId, e)
  IN /\ Continue(r, "write", IF unique THEN "store" ELSE "failed")
     /\ IF unique THEN SetRow(e, row) ELSE UNCHANGED <<users, retired>>
     /\ UNCHANGED <<answered, call, target, memory>>

-----------------------------------------------------------------------------
\* Mutants of StoreToken: arguments swapped; the token that came is stored
\* again; the linked user is saved once more after the token.
StoreId(r) ==
  LET e == target[r]
  IN /\ Continue(r, "store", "answer")
     /\ SetRow(e, [users[e] EXCEPT !.hashedRefreshToken = e])
     /\ UNCHANGED <<answered, call, target, memory>>

StoreOld(r) ==
  LET e == target[r]
      token == IF call[r] = "refresh" THEN seen[r].hashedRefreshToken ELSE r
  IN /\ Continue(r, "store", "answer")
     /\ SetRow(e, [users[e] EXCEPT !.hashedRefreshToken = token])
     /\ UNCHANGED <<answered, call, target, memory>>

StoreThenSave(r) ==
  LET e == target[r]
      row == IF user[r] # Null THEN user[r] ELSE users[e]
      token == IF user[r] # Null THEN user[r].hashedRefreshToken ELSE r
  IN /\ Continue(r, "store", "answer")
     /\ SetRow(e, [row EXCEPT !.hashedRefreshToken = token])
     /\ UNCHANGED <<answered, call, target, memory>>

(* generateTokens and saveRefreshToken, the end of every sign-in. *)
StoreToken(r) ==
  LET e == target[r]
  IN /\ Continue(r, "store", "answer")
     /\ SetRow(e, [users[e] EXCEPT !.hashedRefreshToken = r])
     /\ UNCHANGED <<answered, call, target, memory>>

(* logout: the guard reads the account, the handler clears the hash. *)
LogoutStart(r, e) ==
  /\ Delivered(e) # {}
  /\ Start(r, "logout", e, "clear")
  /\ seen' = [seen EXCEPT ![r] = users[e]]
  /\ UNCHANGED <<users, retired, answered, user, dirty>>

\* Mutant of LogoutClear: the whole user the guard read is written.
LogoutSave(r) ==
  LET e == target[r]
  IN /\ Continue(r, "clear", "answer")
     /\ SetRow(e, [seen[r] EXCEPT !.hashedRefreshToken = Null])
     /\ UNCHANGED <<answered, call, target, memory>>

LogoutClear(r) ==
  LET e == target[r]
  IN /\ Continue(r, "clear", "answer")
     /\ SetRow(e, [users[e] EXCEPT !.hashedRefreshToken = Null])
     /\ UNCHANGED <<answered, call, target, memory>>

Answer(r) ==
  /\ Continue(r, "answer", "done")
  /\ answered' = [answered EXCEPT ![target[r]] =
                    IF call[r] = "logout" THEN Null ELSE r]
  /\ UNCHANGED <<users, retired, call, target, memory>>

\* An awaited call throws, or the process stops.
Abort(r) ==
  /\ pc[r] \in Suspended
  /\ pc' = [pc EXCEPT ![r] = "failed"]
  /\ UNCHANGED <<users, retired, answered, call, target, memory>>

-----------------------------------------------------------------------------
Arrive(r, e) ==
  \/ RegisterCheck(r, e)
  \/ LoginAccept(r, e)
  \/ LoginReject(r, e)
  \/ RefreshAccept(r, e)
  \/ RefreshReject(r, e)
  \/ \E g \in GoogleId : GoogleCreate(r, e, g) \/ GoogleLink(r, e, g)
  \/ GoogleLinked(r, e)
  \/ LogoutStart(r, e)

Resume(r) ==
  \/ Insert(r)
  \/ SaveReload(r)
  \/ SaveWrite(r)
  \/ StoreToken(r)
  \/ LogoutClear(r)
  \/ Answer(r)

Contention ==
  {e \in Email : Cardinality({r \in Open : target[r] = e}) > 1}

Next ==
  /\ \E r \in Request :
       \/ \E e \in Email : Arrive(r, e)
       \/ Resume(r)
       \/ Abort(r)
  /\ contended' = contended \cup Contention'

Spec == Init /\ [][Next]_vars
=============================================================================
