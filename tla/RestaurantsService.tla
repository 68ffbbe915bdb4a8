-------------------------- MODULE RestaurantsService --------------------------
(***************************************************************************)
(* RestaurantsService: restaurants in Postgres, details and list pages in  *)
(* a read-through cache.  update and remove load the restaurant through    *)
(* that cache, so what they save may be built on an old copy.              *)
(*                                                                         *)
(* The cache is the one the installed packages give (package-lock.json:    *)
(* cache-manager 7.2.8, @nestjs/cache-manager 3.1.2): a Keyv in the memory *)
(* of the process that stores copies.  The option `store' of               *)
(* app.module.ts, meant to put it in Redis, has no effect there.           *)
(*                                                                         *)
(* As in OrderStore a request runs undisturbed from one await to the next. *)
(* The columns a client may PATCH behave alike and are represented by      *)
(* phone, the one create looks at; all restaurants fit one list page.      *)
(***************************************************************************)
EXTENDS FiniteSets, Naturals

CONSTANTS
  Restaurant,   \* restaurant ids
  Phone,        \* phone numbers
  Request,      \* one element per handler call
  Null,         \* no row, no cache entry
  List,         \* the cache key of the list page
  MaxInFlight,  \* bound: how many requests are open at a time
  MaxFailures   \* bound: failed database calls

ASSUME RestaurantAssumption ==
  /\ MaxInFlight \in Nat \ {0}
  /\ MaxFailures \in Nat
  /\ List \notin Restaurant

Column == {"phone", "isActive"}

Row == [phone : Phone, isActive : BOOLEAN]

\* Null stands for no row.
ASSUME NoRowAssumption == Null \notin Row

Page == [page : [Restaurant -> Row \cup {Null}]]

Key == Restaurant \cup {List}

VARIABLES
  table,     \* restaurants table: id -> row, Null before the insert
  cache,     \* key -> row or page, Null if there is no entry
  stored,    \* history: the rows a restaurant has had
  pc,        \* where a request is suspended
  call,      \* which operation a request runs
  target,    \* the restaurant a request works on
  dto,       \* the phone in the body of a request
  object,    \* the object in the memory of a request: a row or a page
  dirty,     \* the columns the request's save is about to UPDATE
  failures,  \* failed calls, up to now
  contended  \* history: restaurants two open requests worked on at once,
             \* and List if any two were open at once

vars == <<table, cache, stored, pc, call, target, dto, object, dirty,
          failures, contended>>

memory == <<object, dirty>>

Suspended ==
  {"insert", "listRead", "listSet", "read", "set", "reload", "write", "del"}

DatabaseCall == {"insert", "listRead", "read", "reload", "write"}

Finished == {"done", "rejected", "failed"}

Call == {"create", "findAll", "findOne", "update", "remove"}

Exists(x) == table[x] # Null

Open == {r \in Request : pc[r] \in Suspended}

ActivePage ==
  [page |-> [x \in Restaurant |->
               IF Exists(x) /\ table[x].isActive THEN table[x] ELSE Null]]

Init ==
  /\ table = [x \in Restaurant |-> Null]
  /\ cache = [k \in Key |-> Null]
  /\ stored = [x \in Restaurant |-> {}]
  /\ pc = [r \in Request |-> "idle"]
  /\ call = [r \in Request |-> Null]
  /\ target = [r \in Request |-> Null]
  /\ dto = [r \in Request |-> Null]
  /\ object = [r \in Request |-> Null]
  /\ dirty = [r \in Request |-> {}]
  /\ failures = 0
  /\ contended = {}

-----------------------------------------------------------------------------
Start(r, k, l) ==
  /\ pc[r] = "idle"
  /\ Cardinality(Open) < MaxInFlight
  /\ call' = [call EXCEPT ![r] = k]
  /\ pc' = [pc EXCEPT ![r] = l]

Continue(r, from, to) ==
  /\ pc[r] = from
  /\ pc' = [pc EXCEPT ![r] = to]

(***************************************************************************)
(* Where invalidateRestaurantCache leaves a request: it has ended.  The    *)
(* first store of the installed cache-manager is a Keyv, which has no      *)
(* keys(), so the function returns before it looks for anything to delete. *)
(***************************************************************************)
Invalidation == "done"

-----------------------------------------------------------------------------
(* create: look for the phone number, insert, invalidate. *)

\* Mutant of CreateCheck: only active restaurants are looked at.
CheckActive(r, p) ==
  /\ Start(r, "create",
           IF \E x \in Restaurant :
                Exists(x) /\ table[x].phone = p /\ table[x].isActive
           THEN "rejected" ELSE "insert")
  /\ dto' = [dto EXCEPT ![r] = p]
  /\ UNCHANGED <<table, cache, stored, target, memory, failures>>

CreateCheck(r, p) ==
  /\ Start(r, "create",
           IF \E x \in Restaurant : Exists(x) /\ table[x].phone = p
           THEN "rejected" ELSE "insert")
  /\ dto' = [dto EXCEPT ![r] = p]
  /\ UNCHANGED <<table, cache, stored, target, memory, failures>>

CreateInsert(r, x) ==
  LET row == [phone |-> dto[r], isActive |-> TRUE]
  IN /\ Continue(r, "insert", Invalidation)
     /\ ~Exists(x)
     /\ table' = [table EXCEPT ![x] = row]
     /\ stored' = [stored EXCEPT ![x] = {row}]
     /\ target' = [target EXCEPT ![r] = x]
     /\ UNCHANGED <<cache, call, dto, memory, failures>>

-----------------------------------------------------------------------------
(* findAll.  A query with filters goes to the database and is not cached. *)

FindAllAnswer(r) ==
  /\ Start(r, "findAll", "done")
  /\ UNCHANGED <<table, cache, stored, target, dto, memory, failures>>

FindAllMiss(r) ==
  /\ cache[List] = Null
  /\ Start(r, "findAll", "listRead")
  /\ UNCHANGED <<table, cache, stored, target, dto, memory, failures>>

FindAllRead(r) ==
  /\ Continue(r, "listRead", "listSet")
  /\ object' = [object EXCEPT ![r] = ActivePage]
  /\ UNCHANGED <<table, cache, stored, call, target, dto, dirty, failures>>

FindAllSet(r) ==
  /\ Continue(r, "listSet", "done")
  /\ cache' = [cache EXCEPT ![List] = object[r]]
  /\ UNCHANGED <<table, stored, call, target, dto, memory, failures>>

-----------------------------------------------------------------------------
(***************************************************************************)
(* findOne, by itself or as the first step of update and remove: the cache *)
(* entry if there is one, else the row, which is then cached.  Inactive    *)
(* restaurants are found like active ones.                                 *)
(***************************************************************************)
LoadCall == {"findOne", "update", "remove"}

\* Mutant of Changed: an update reactivates.
Reactivating(k, row, p) ==
  IF k = "update" THEN [row EXCEPT !.phone = p, !.isActive = TRUE]
  ELSE [row EXCEPT !.isActive = FALSE]

Changed(k, row, p) ==
  IF k = "update" THEN [row EXCEPT !.phone = p]
  ELSE [row EXCEPT !.isActive = FALSE]

AfterFindOne(k) == IF k = "findOne" THEN "done" ELSE "reload"

\* findOne has returned `row' to operation k of request r, which changes it.
Return(r, k, row, p) ==
  IF k = "findOne" THEN UNCHANGED object
  ELSE object' = [object EXCEPT ![r] = Changed(k, row, p)]

FindOneHit(r, k, x, p) ==
  /\ cache[x] # Null
  /\ Start(r, k, AfterFindOne(k))
  /\ target' = [target EXCEPT ![r] = x]
  /\ Return(r, k, cache[x], p)
  /\ UNCHANGED <<table, cache, stored, dto, dirty, failures>>

FindOneMiss(r, k, x, p) ==
  /\ cache[x] = Null
  /\ Start(r, k, "read")
  /\ target' = [target EXCEPT ![r] = x]
  /\ dto' = [dto EXCEPT ![r] = p]
  /\ UNCHANGED <<table, cache, stored, memory, failures>>

FindOneRead(r) ==
  /\ Continue(r, "read", IF Exists(target[r]) THEN "set" ELSE "rejected")
  /\ object' = [object EXCEPT ![r] = table[target[r]]]
  /\ UNCHANGED <<table, cache, stored, call, target, dto, dirty, failures>>

\* Mutant of FindOneSet: the copy is changed before it is cached.
CacheChanged(r) ==
  /\ Continue(r, "set", AfterFindOne(call[r]))
  /\ cache' = [cache EXCEPT ![target[r]] =
                 Changed(call[r], object[r], dto[r])]
  /\ Return(r, call[r], object[r], dto[r])
  /\ UNCHANGED <<table, stored, call, target, dto, dirty, failures>>

FindOneSet(r) ==
  /\ Continue(r, "set", AfterFindOne(call[r]))
  /\ cache' = [cache EXCEPT ![target[r]] = object[r]]
  /\ Return(r, call[r], object[r], dto[r])
  /\ UNCHANGED <<table, stored, call, target, dto, dirty, failures>>

-----------------------------------------------------------------------------
(***************************************************************************)
(* The rest of update and remove.  save(object) reads the row again,       *)
(* UPDATEs the columns in which the object differs from it, and takes no   *)
(* lock; then the cache entry is deleted.                                  *)
(***************************************************************************)
SaveReload(r) ==
  /\ Continue(r, "reload", "write")
  /\ dirty' = [dirty EXCEPT ![r] =
                 {c \in Column : object[r][c] # table[target[r]][c]}]
  /\ UNCHANGED <<table, cache, stored, call, target, dto, object, failures>>

\* Mutant of SaveWrite: nothing is invalidated after it.
SaveOnly(r) ==
  LET x == target[r]
      row == [c \in Column |->
                IF c \in dirty[r] THEN object[r][c] ELSE table[x][c]]
  IN /\ Continue(r, "write", "done")
     /\ table' = [table EXCEPT ![x] = row]
     /\ stored' = [stored EXCEPT ![x] = @ \cup {row}]
     /\ UNCHANGED <<cache, call, target, dto, memory, failures>>

SaveWrite(r) ==
  LET x == target[r]
      row == [c \in Column |->
                IF c \in dirty[r] THEN object[r][c] ELSE table[x][c]]
  IN /\ Continue(r, "write", "del")
     /\ table' = [table EXCEPT ![x] = row]
     /\ stored' = [stored EXCEPT ![x] = @ \cup {row}]
     /\ UNCHANGED <<cache, call, target, dto, memory, failures>>

DeleteEntry(r) ==
  /\ Continue(r, "del", Invalidation)
  /\ cache' = [cache EXCEPT ![target[r]] = Null]
  /\ UNCHANGED <<table, stored, call, target, dto, memory, failures>>

-----------------------------------------------------------------------------
(* A database call throws: it has changed nothing, and the request ends    *)
(* with an error.  The cache is in memory, where get, set and del succeed. *)
Fail(r) ==
  /\ pc[r] \in DatabaseCall
  /\ failures < MaxFailures
  /\ failures' = failures + 1
  /\ pc' = [pc EXCEPT ![r] = "failed"]
  /\ UNCHANGED <<table, cache, stored, call, target, dto, memory>>

\* The TTL of an entry runs out; reading an entry does not renew it.
Expire(k) ==
  /\ cache[k] # Null
  /\ cache' = [cache EXCEPT ![k] = Null]
  /\ UNCHANGED <<table, stored, pc, call, target, dto, memory, failures>>

Arrive(r) ==
  \/ \E p \in Phone : CreateCheck(r, p)
  \/ FindAllAnswer(r)
  \/ FindAllMiss(r)
  \/ \E k \in LoadCall, x \in Restaurant, p \in Phone :
       FindOneHit(r, k, x, p) \/ FindOneMiss(r, k, x, p)

Resume(r) ==
  \/ \E x \in Restaurant : CreateInsert(r, x)
  \/ FindAllRead(r)
  \/ FindAllSet(r)
  \/ FindOneRead(r)
  \/ FindOneSet(r)
  \/ SaveReload(r)
  \/ SaveWrite(r)
  \/ DeleteEntry(r)

Contention ==
  {x \in Restaurant : Cardinality({r \in Open : target[r] = x}) > 1}
    \cup IF Cardinality(Open) > 1 THEN {List} ELSE {}

Next ==
  /\ \/ \E r \in Request : Arrive(r) \/ Resume(r) \/ Fail(r)
     \/ \E k \in Key : Expire(k)
  /\ contended' = contended \cup Contention'

Spec == Init /\ [][Next]_vars
=============================================================================
