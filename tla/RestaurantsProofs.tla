-------------------------- MODULE RestaurantsProofs --------------------------
(***************************************************************************)
(* Proofs about RestaurantsService, for any restaurants, phone numbers and *)
(* requests, any load and any number of failures: the inductive invariant  *)
(* first, then the properties of RestaurantsProperties.                    *)
(***************************************************************************)
EXTENDS RestaurantsProperties, FiniteSetTheorems, TLAPS

TypeOK ==
  /\ table \in [Restaurant -> Row \cup {Null}]
  /\ cache \in [Key -> Row \cup Page \cup {Null}]
  /\ stored \in [Restaurant -> SUBSET Row]
  /\ pc \in [Request -> {"idle"} \cup Suspended \cup Finished]
  /\ call \in [Request -> Call \cup {Null}]
  /\ target \in [Request -> Restaurant \cup {Null}]
  /\ dto \in [Request -> Phone \cup {Null}]
  /\ object \in [Request -> Row \cup Page \cup {Null}]
  /\ dirty \in [Request -> SUBSET Column]
  /\ failures \in Nat
  /\ contended \subseteq Key

(* What a request has in memory where it waits. *)
ControlInv ==
  \A r \in Request :
    /\ pc[r] = "insert" => dto[r] \in Phone
    /\ pc[r] \in {"read", "set"} =>
         target[r] \in Restaurant /\ dto[r] \in Phone /\ call[r] \in LoadCall
    /\ pc[r] \in {"reload", "write", "del"} =>
         /\ target[r] \in Restaurant /\ Exists(target[r])
         /\ call[r] \in {"update", "remove"}
    /\ pc[r] \in {"reload", "write"} => object[r] \in Row
    /\ pc[r] = "listSet" => object[r] \in Page

(* Every copy of a row was once the row. *)
StoredInv ==
  /\ \A x \in Restaurant :
       IF Exists(x) THEN table[x] \in stored[x] ELSE stored[x] = {}
  /\ \A r \in Request : pc[r] = "set" => object[r] \in stored[target[r]]
  /\ CachedWasStored

(* A restaurant that was never contended has one open request at most. *)
AloneInv ==
  /\ IsFiniteSet(Open)
  /\ \A x \in Restaurant \ contended :
       \A q, r \in Open : target[q] = x /\ target[r] = x => q = r
  /\ List \notin contended => \A q, r \in Open : q = r

(* An insert that is due still has a phone number of its own. *)
CheckInv ==
  List \notin contended =>
    \A r \in Request : pc[r] = "insert" =>
      \A y \in Restaurant : Exists(y) => table[y].phone # dto[r]

(***************************************************************************)
(* As long as a restaurant is calm, what a request has read of it is its   *)
(* row, what a request is about to save differs from it in the columns it  *)
(* was asked to change, and only between a save and the deletion of the    *)
(* cache entry the entry may be another.                                   *)
(***************************************************************************)
DetailInv ==
  \A x \in Restaurant : Calm(x) =>
    /\ (\A r \in Request : ~(pc[r] = "del" /\ target[r] = x))
         => cache[x] \in {Null, table[x]}
    /\ \A r \in Request : target[r] = x =>
         /\ pc[r] = "set" => object[r] = table[x]
         /\ pc[r] \in {"reload", "write"} =>
              \A c \in Column \ OwnColumn(call[r]) : object[r][c] = table[x][c]

Inv ==
  /\ TypeOK
  /\ ControlInv
  /\ StoredInv
  /\ AloneInv
  /\ CheckInv
  /\ DetailInv

-----------------------------------------------------------------------------
(* Lemmas about rows and steps. *)

\* A step of request r.
Act(r) == Arrive(r) \/ Resume(r) \/ Fail(r)

(* A step of r leaves the state of the other requests alone. *)
LEMMA Others ==
  ASSUME TypeOK, NEW r \in Request, Act(r)
  PROVE  \A q \in Request \ {r} :
           /\ pc'[q] = pc[q] /\ call'[q] = call[q] /\ target'[q] = target[q]
           /\ dto'[q] = dto[q] /\ object'[q] = object[q]
           /\ dirty'[q] = dirty[q]
<1> USE DEF TypeOK, memory
<1>1. CASE Arrive(r)
  BY <1>1 DEF Arrive, CreateCheck, FindAllAnswer, FindAllMiss, FindOneHit,
     FindOneMiss, Start, Return
<1>2. CASE Resume(r)
  BY <1>2 DEF Resume, CreateInsert, FindAllRead, FindAllSet, FindOneRead,
     FindOneSet, SaveReload, SaveWrite, DeleteEntry, Continue, Return
<1>3. CASE Fail(r)
  BY <1>3 DEF Fail
<1> QED BY <1>1, <1>2, <1>3 DEF Act

\* The row that the save of r writes.
Saved(r) ==
  [c \in Column |-> IF c \in dirty[r] THEN object[r][c] ELSE table[target[r]][c]]

LEMMA RowIs ==
  \A row \in Row :
    /\ row.phone \in Phone /\ row.isActive \in BOOLEAN
    /\ row = [phone |-> row.phone, isActive |-> row.isActive]
  BY DEF Row

LEMMA SavedType ==
  ASSUME NEW r \in Request, object[r] \in Row, table[target[r]] \in Row
  PROVE  Saved(r) \in Row
<1>1. Saved(r) = [phone |-> Saved(r).phone, isActive |-> Saved(r).isActive]
  BY DEF Saved, Column
<1> QED BY <1>1 DEF Saved, Column, Row

(* Only an insert and a save change the table. *)
LEMMA TableSteps ==
  ASSUME NEW r \in Request, Act(r)
  PROVE  \/ UNCHANGED <<table, stored>>
         \/ \E x \in Restaurant : CreateInsert(r, x)
         \/ SaveWrite(r)
<1>1. CASE Arrive(r)
  BY <1>1 DEF Arrive, CreateCheck, FindAllAnswer, FindAllMiss, FindOneHit,
     FindOneMiss
<1>2. CASE Resume(r)
  BY <1>2 DEF Resume, FindAllRead, FindAllSet, FindOneRead,
     FindOneSet, SaveReload, DeleteEntry
<1>3. CASE Fail(r)
  BY <1>3 DEF Fail
<1> QED BY <1>1, <1>2, <1>3 DEF Act

(* An insert, spelled out. *)
LEMMA InsertEffect ==
  ASSUME TypeOK, ControlInv, NEW r \in Request, NEW x \in Restaurant,
         CreateInsert(r, x)
  PROVE  LET row == [phone |-> dto[r], isActive |-> TRUE]
         IN /\ row \in Row /\ ~Exists(x)
            /\ table' = [table EXCEPT ![x] = row]
            /\ stored' = [stored EXCEPT ![x] = {row}]
            /\ target' = [target EXCEPT ![r] = x]
            /\ pc[r] = "insert"
            /\ pc' = [pc EXCEPT ![r] = Invalidation]
            /\ UNCHANGED <<cache, call, dto, memory, failures>>
  BY DEF CreateInsert, Continue, ControlInv, Row

(* A save, spelled out. *)
LEMMA SaveEffect ==
  ASSUME TypeOK, ControlInv, NEW r \in Request, SaveWrite(r)
  PROVE  /\ Saved(r) \in Row
         /\ target[r] \in Restaurant /\ Exists(target[r])
         /\ table' = [table EXCEPT ![target[r]] = Saved(r)]
         /\ stored' = [stored EXCEPT ![target[r]] = @ \cup {Saved(r)}]
         /\ pc[r] = "write"
         /\ pc' = [pc EXCEPT ![r] = "del"]
         /\ UNCHANGED <<cache, call, target, dto, memory, failures>>
<1>1. pc[r] = "write"
  BY DEF SaveWrite, Continue
<1>2. /\ target[r] \in Restaurant /\ Exists(target[r])
      /\ object[r] \in Row /\ table[target[r]] \in Row
  BY <1>1 DEF ControlInv, TypeOK, Exists
<1> QED BY <1>1, <1>2, SavedType DEF SaveWrite, Continue, Saved

(* No row is ever removed. *)
LEMMA RowsStay ==
  ASSUME TypeOK, ControlInv, NEW r \in Request, Act(r), NEW x \in Restaurant,
         Exists(x)
  PROVE  Exists(x)'
<1>1. ASSUME NEW y \in Restaurant, CreateInsert(r, y)
      PROVE  Exists(x)'
  BY <1>1, InsertEffect, NoRowAssumption DEF TypeOK, Exists
<1>2. CASE SaveWrite(r)
  BY <1>2, SaveEffect, NoRowAssumption DEF TypeOK, Exists
<1> QED BY <1>1, <1>2, TableSteps DEF Exists

\* Entries are only removed.
Forgets ==
  /\ \A k \in Key : cache'[k] \in {cache[k], Null}
  /\ cache' \in [Key -> Row \cup Page \cup {Null}]

LEMMA CacheSteps ==
  ASSUME TypeOK, NEW r \in Request, Act(r)
  PROVE  FindAllSet(r) \/ FindOneSet(r) \/ Forgets
<1> USE DEF TypeOK, Forgets
<1>1. CASE Arrive(r)
  BY <1>1 DEF Arrive, CreateCheck, FindAllAnswer, FindAllMiss, FindOneHit,
     FindOneMiss
<1>2. CASE DeleteEntry(r) \/ Fail(r)
  BY <1>2 DEF DeleteEntry, Fail
<1>3. CASE \/ \E x \in Restaurant : CreateInsert(r, x)
           \/ FindAllRead(r) \/ FindOneRead(r) \/ SaveReload(r)
           \/ SaveWrite(r)
  BY <1>3 DEF CreateInsert, FindAllRead, FindOneRead, SaveReload, SaveWrite
<1> QED BY <1>1, <1>2, <1>3 DEF Act, Resume

LEMMA ExpireForgets ==
  ASSUME TypeOK, NEW k \in Key, Expire(k)
  PROVE  Forgets
  BY DEF TypeOK, Forgets, Expire

-----------------------------------------------------------------------------
(* Types and control. *)

LEMMA ChangedType ==
  ASSUME NEW row \in Row, NEW k \in LoadCall, NEW p \in Phone
  PROVE  /\ Changed(k, row, p) \in Row
         /\ \A c \in Column \ OwnColumn(k) : Changed(k, row, p)[c] = row[c]
  BY DEF Changed, Row, LoadCall, Column, OwnColumn

LEMMA StoreTypes ==
  ASSUME TypeOK, ControlInv, NEW r \in Request, Act(r)
  PROVE  /\ table' \in [Restaurant -> Row \cup {Null}]
         /\ stored' \in [Restaurant -> SUBSET Row]
         /\ cache' \in [Key -> Row \cup Page \cup {Null}]
<1>1. /\ table' \in [Restaurant -> Row \cup {Null}]
      /\ stored' \in [Restaurant -> SUBSET Row]
  <2>1. ASSUME NEW x \in Restaurant, CreateInsert(r, x)
        PROVE  /\ table' \in [Restaurant -> Row \cup {Null}]
               /\ stored' \in [Restaurant -> SUBSET Row]
    <3> DEFINE row == [phone |-> dto[r], isActive |-> TRUE]
    <3>1. /\ row \in Row
          /\ table' = [table EXCEPT ![x] = row]
          /\ stored' = [stored EXCEPT ![x] = {row}]
      BY <2>1, InsertEffect
    <3> HIDE DEF row
    <3> QED BY <3>1 DEF TypeOK
  <2>2. CASE SaveWrite(r)
    BY <2>2, SaveEffect DEF TypeOK
  <2>3. CASE UNCHANGED <<table, stored>>
    BY <2>3 DEF TypeOK
  <2> QED BY <2>1, <2>2, <2>3, TableSteps
<1>2. cache' \in [Key -> Row \cup Page \cup {Null}]
  <2>1. CASE FindAllSet(r)
    BY <2>1 DEF FindAllSet, TypeOK
  <2>2. CASE FindOneSet(r)
    BY <2>2 DEF FindOneSet, TypeOK
  <2> QED BY <2>1, <2>2, CacheSteps DEF Forgets
<1> QED BY <1>1, <1>2

LEMMA PageType ==
  ASSUME TypeOK
  PROVE  ActivePage \in Page
  BY DEF ActivePage, Page, TypeOK

MemoryTyped ==
  /\ pc \in [Request -> {"idle"} \cup Suspended \cup Finished]
  /\ call \in [Request -> Call \cup {Null}]
  /\ target \in [Request -> Restaurant \cup {Null}]
  /\ dto \in [Request -> Phone \cup {Null}]
  /\ object \in [Request -> Row \cup Page \cup {Null}]
  /\ dirty \in [Request -> SUBSET Column]
  /\ failures \in Nat

(* An entry or a row that is there has the type of a row. *)
LEMMA DetailIsRow ==
  ASSUME TypeOK, StoredInv, NEW x \in Restaurant
  PROVE  /\ cache[x] # Null => cache[x] \in Row /\ Exists(x)
         /\ Exists(x) => table[x] \in Row
  BY DEF TypeOK, StoredInv, CachedWasStored, Exists

LEMMA MemoryTypes ==
  ASSUME TypeOK, ControlInv, StoredInv, NEW r \in Request, Act(r)
  PROVE  MemoryTyped'
<1> USE DEF TypeOK, MemoryTyped, Suspended, Finished, Call, memory,
            Invalidation
<1>1. ASSUME NEW p \in Phone, CreateCheck(r, p)
      PROVE  MemoryTyped'
  BY <1>1 DEF CreateCheck, Start
<1>2. CASE FindAllAnswer(r) \/ FindAllMiss(r)
  BY <1>2 DEF FindAllAnswer, FindAllMiss, Start
<1>3. ASSUME NEW k \in LoadCall, NEW x \in Restaurant, NEW p \in Phone,
             FindOneHit(r, k, x, p)
      PROVE  MemoryTyped'
  <2>1. Changed(k, cache[x], p) \in Row
    BY <1>3, DetailIsRow, ChangedType DEF FindOneHit
  <2>2. object' \in [Request -> Row \cup Page \cup {Null}]
    BY <1>3, <2>1 DEF FindOneHit, Return
  <2>3. /\ pc' \in [Request -> {"idle"} \cup Suspended \cup Finished]
        /\ call' \in [Request -> Call \cup {Null}]
        /\ target' \in [Request -> Restaurant \cup {Null}]
        /\ UNCHANGED <<dto, dirty, failures>>
    BY <1>3 DEF FindOneHit, Start, LoadCall, AfterFindOne
  <2> QED BY <2>2, <2>3
<1>4. ASSUME NEW k \in LoadCall, NEW x \in Restaurant, NEW p \in Phone,
             FindOneMiss(r, k, x, p)
      PROVE  MemoryTyped'
  BY <1>4 DEF FindOneMiss, Start, LoadCall
<1>5. ASSUME NEW x \in Restaurant, CreateInsert(r, x)
      PROVE  MemoryTyped'
  BY <1>5 DEF CreateInsert, Continue
<1>6. CASE FindAllRead(r)
  BY <1>6, PageType DEF FindAllRead, Continue
<1>7. CASE FindAllSet(r)
  BY <1>7 DEF FindAllSet, Continue
<1>8. CASE FindOneRead(r)
  <2>1. table[target[r]] \in Row \cup {Null}
    BY <1>8 DEF FindOneRead, Continue, ControlInv
  <2> QED BY <1>8, <2>1 DEF FindOneRead, Continue
<1>9. CASE FindOneSet(r)
  <2>1. /\ target[r] \in Restaurant /\ dto[r] \in Phone
        /\ call[r] \in LoadCall /\ object[r] \in Row
    BY <1>9 DEF FindOneSet, Continue, ControlInv, StoredInv
  <2>2. Changed(call[r], object[r], dto[r]) \in Row
    BY <2>1, ChangedType
  <2>3. object' \in [Request -> Row \cup Page \cup {Null}]
    BY <1>9, <2>2 DEF FindOneSet, Return
  <2>4. /\ pc' \in [Request -> {"idle"} \cup Suspended \cup Finished]
        /\ UNCHANGED <<call, target, dto, dirty, failures>>
    BY <1>9 DEF FindOneSet, Continue, AfterFindOne
  <2> QED BY <2>3, <2>4
<1>10. CASE SaveReload(r)
  BY <1>10 DEF SaveReload, Continue
<1>11. CASE SaveWrite(r)
  BY <1>11 DEF SaveWrite, Continue
<1>12. CASE DeleteEntry(r)
  BY <1>12 DEF DeleteEntry, Continue
<1>13. CASE Fail(r)
  BY <1>13 DEF Fail
<1> QED
  BY <1>1, <1>2, <1>3, <1>4, <1>5, <1>6, <1>7, <1>8, <1>9, <1>10, <1>11,
     <1>12, <1>13
  DEF Act, Arrive, Resume

LEMMA ContentionType == Contention' \subseteq Key
  BY DEF Contention, Key

LEMMA TypeStep ==
  ASSUME TypeOK, ControlInv, StoredInv, NEW r \in Request, Act(r),
         contended' = contended \cup Contention'
  PROVE  TypeOK'
<1>1. contended' \subseteq Key
  BY ContentionType DEF TypeOK
<1> QED BY <1>1, StoreTypes, MemoryTypes DEF TypeOK, MemoryTyped

LEMMA ControlStep ==
  ASSUME TypeOK, ControlInv, StoredInv, NEW r \in Request, Act(r)
  PROVE  ControlInv'
<1> DEFINE C(q) ==
      /\ pc[q] = "insert" => dto[q] \in Phone
      /\ pc[q] \in {"read", "set"} =>
           target[q] \in Restaurant /\ dto[q] \in Phone /\ call[q] \in LoadCall
      /\ pc[q] \in {"reload", "write", "del"} =>
           /\ target[q] \in Restaurant /\ Exists(target[q])
           /\ call[q] \in {"update", "remove"}
      /\ pc[q] \in {"reload", "write"} => object[q] \in Row
      /\ pc[q] = "listSet" => object[q] \in Page
<1>a. ASSUME NEW q \in Request \ {r}
      PROVE  C(q)'
  BY Others, RowsStay DEF ControlInv
<1> SUFFICES C(r)'
  BY <1>a DEF ControlInv
<1>b. C(r)
  BY DEF ControlInv
<1> USE DEF TypeOK, Invalidation, memory
<1>1. ASSUME NEW p \in Phone, CreateCheck(r, p)
      PROVE  C(r)'
  BY <1>1 DEF CreateCheck, Start
<1>2. CASE FindAllAnswer(r) \/ FindAllMiss(r)
  BY <1>2 DEF FindAllAnswer, FindAllMiss, Start
<1>3. ASSUME NEW k \in LoadCall, NEW x \in Restaurant, NEW p \in Phone,
             FindOneHit(r, k, x, p)
      PROVE  C(r)'
  <2>1. Changed(k, cache[x], p) \in Row /\ Exists(x)
    BY <1>3, DetailIsRow, ChangedType DEF FindOneHit
  <2>2. /\ pc'[r] = AfterFindOne(k) /\ call'[r] = k /\ target'[r] = x
        /\ table' = table
    BY <1>3 DEF FindOneHit, Start
  <2>3. k # "findOne" => object'[r] = Changed(k, cache[x], p)
    BY <1>3 DEF FindOneHit, Return
  <2> QED BY <2>1, <2>2, <2>3 DEF AfterFindOne, LoadCall, Exists
<1>4. ASSUME NEW k \in LoadCall, NEW x \in Restaurant, NEW p \in Phone,
             FindOneMiss(r, k, x, p)
      PROVE  C(r)'
  BY <1>4 DEF FindOneMiss, Start, LoadCall
<1>5. ASSUME NEW x \in Restaurant, CreateInsert(r, x)
      PROVE  C(r)'
  BY <1>5 DEF CreateInsert, Continue
<1>6. CASE FindAllRead(r)
  BY <1>6, PageType DEF FindAllRead, Continue
<1>7. CASE FindAllSet(r)
  BY <1>7 DEF FindAllSet, Continue
<1>8. CASE FindOneRead(r)
  BY <1>8, <1>b DEF FindOneRead, Continue
<1>9. CASE FindOneSet(r)
  <2>1. /\ target[r] \in Restaurant /\ dto[r] \in Phone
        /\ call[r] \in LoadCall /\ object[r] \in stored[target[r]]
    BY <1>9 DEF FindOneSet, Continue, ControlInv, StoredInv
  <2>2. Exists(target[r]) /\ object[r] \in Row
    BY <2>1 DEF StoredInv
  <2>3. Changed(call[r], object[r], dto[r]) \in Row
    BY <2>1, <2>2, ChangedType
  <2>4. /\ pc'[r] = AfterFindOne(call[r]) /\ call'[r] = call[r]
        /\ target'[r] = target[r] /\ table' = table
    BY <1>9 DEF FindOneSet, Continue
  <2>5. call[r] # "findOne" =>
          object'[r] = Changed(call[r], object[r], dto[r])
    BY <1>9 DEF FindOneSet, Return
  <2> QED BY <2>1, <2>2, <2>3, <2>4, <2>5 DEF AfterFindOne, LoadCall, Exists
<1>10. CASE SaveReload(r)
  BY <1>10, <1>b DEF SaveReload, Continue, Exists
<1>11. CASE SaveWrite(r)
  <2>1. pc'[r] = "del" /\ target'[r] = target[r] /\ call'[r] = call[r]
    BY <1>11, SaveEffect
  <2>2. /\ target[r] \in Restaurant /\ Exists(target[r])
        /\ call[r] \in {"update", "remove"}
    BY <1>11, <1>b DEF SaveWrite, Continue
  <2> QED BY <2>1, <2>2, RowsStay
<1>12. CASE DeleteEntry(r)
  BY <1>12 DEF DeleteEntry, Continue
<1>13. CASE Fail(r)
  BY <1>13 DEF Fail
<1> HIDE DEF C
<1> QED
  BY <1>1, <1>2, <1>3, <1>4, <1>5, <1>6, <1>7, <1>8, <1>9, <1>10, <1>11,
     <1>12, <1>13
  DEF Act, Arrive, Resume

(***************************************************************************)
(* How a request gets to where it waits, for the places where it matters   *)
(* what it has in memory.                                                  *)
(***************************************************************************)
LEMMA Stages ==
  ASSUME TypeOK, NEW r \in Request, Act(r)
  PROVE  /\ pc'[r] = "insert" => \E p \in Phone : CreateCheck(r, p)
         /\ pc'[r] = "set" => FindOneRead(r)
         /\ pc'[r] = "reload" =>
              \/ FindOneSet(r)
              \/ \E k \in LoadCall, x \in Restaurant, p \in Phone :
                   FindOneHit(r, k, x, p)
         /\ pc'[r] = "write" => SaveReload(r)
         /\ pc'[r] = "del" => SaveWrite(r)
         /\ pc'[r] = "listSet" => FindAllRead(r)
<1> USE DEF TypeOK, Start, Continue, Invalidation, AfterFindOne
<1>1. CASE \E p \in Phone : CreateCheck(r, p)
  BY <1>1 DEF CreateCheck
<1>2. CASE FindAllAnswer(r) \/ FindAllMiss(r)
  BY <1>2 DEF FindAllAnswer, FindAllMiss
<1>3. ASSUME NEW k \in LoadCall, NEW x \in Restaurant, NEW p \in Phone,
             FindOneHit(r, k, x, p)
      PROVE  pc'[r] \in {"reload", "done"}
  BY <1>3 DEF FindOneHit
<1>4. ASSUME NEW k \in LoadCall, NEW x \in Restaurant, NEW p \in Phone,
             FindOneMiss(r, k, x, p)
      PROVE  pc'[r] = "read"
  BY <1>4 DEF FindOneMiss
<1>5. ASSUME NEW x \in Restaurant, CreateInsert(r, x)
      PROVE  pc'[r] = "done"
  BY <1>5 DEF CreateInsert
<1>6. FindAllRead(r) => pc'[r] = "listSet"
  BY DEF FindAllRead
<1>7. FindAllSet(r) => pc'[r] = "done"
  BY DEF FindAllSet
<1>8. FindOneRead(r) => pc'[r] \in {"set", "rejected"}
  BY DEF FindOneRead
<1>9. FindOneSet(r) => pc'[r] \in {"reload", "done"}
  BY DEF FindOneSet
<1>10. SaveReload(r) => pc'[r] = "write"
  BY DEF SaveReload
<1>11. SaveWrite(r) => pc'[r] = "del"
  BY DEF SaveWrite
<1>12. DeleteEntry(r) => pc'[r] = "done"
  BY DEF DeleteEntry
<1>13. CASE Fail(r)
  BY <1>13 DEF Fail
<1> QED
  BY <1>1, <1>2, <1>3, <1>4, <1>5, <1>6, <1>7, <1>8, <1>9, <1>10, <1>11,
     <1>12, <1>13
  DEF Act, Arrive, Resume

-----------------------------------------------------------------------------
(* Copies. *)

LEMMA StoredGrows ==
  ASSUME TypeOK, ControlInv, StoredInv, NEW r \in Request, Act(r)
  PROVE  \A x \in Restaurant :
           /\ stored[x] \subseteq stored'[x]
           /\ IF Exists(x)' THEN table'[x] \in stored'[x] ELSE stored'[x] = {}
<1>1. ASSUME NEW x \in Restaurant, CreateInsert(r, x)
      PROVE  \A y \in Restaurant :
               /\ stored[y] \subseteq stored'[y]
               /\ IF Exists(y)' THEN table'[y] \in stored'[y]
                  ELSE stored'[y] = {}
  <2> DEFINE row == [phone |-> dto[r], isActive |-> TRUE]
  <2>1. /\ row \in Row
        /\ table' = [table EXCEPT ![x] = row]
        /\ stored' = [stored EXCEPT ![x] = {row}]
    BY <1>1, InsertEffect
  <2>2. ~Exists(x)
    BY <1>1, InsertEffect
  <2> HIDE DEF row
  <2> QED BY <2>1, <2>2, NoRowAssumption DEF TypeOK, StoredInv, Exists
<1>2. CASE SaveWrite(r)
  <2>1. PICK row \in Row :
          /\ target[r] \in Restaurant
          /\ table' = [table EXCEPT ![target[r]] = row]
          /\ stored' = [stored EXCEPT ![target[r]] = @ \cup {row}]
    BY <1>2, SaveEffect
  <2> QED BY <2>1, NoRowAssumption, SaveEffect, <1>2
          DEF TypeOK, StoredInv, Exists
<1>3. CASE UNCHANGED <<table, stored>>
  BY <1>3 DEF StoredInv, Exists
<1> QED BY <1>1, <1>2, <1>3, TableSteps

LEMMA StoredStep ==
  ASSUME TypeOK, ControlInv, StoredInv, NEW r \in Request, Act(r)
  PROVE  StoredInv'
<1>1. ASSUME NEW q \in Request, pc'[q] = "set"
      PROVE  object'[q] \in stored'[target'[q]]
  <2>1. CASE q # r
    <3>1. /\ pc[q] = "set" /\ object'[q] = object[q]
          /\ target'[q] = target[q] /\ target[q] \in Restaurant
      BY <1>1, <2>1, Others DEF ControlInv
    <3> QED BY <3>1, StoredGrows DEF StoredInv
  <2>2. CASE q = r
    <3>1. FindOneRead(r)
      BY <1>1, <2>2, Stages
    <3>2. /\ target[r] \in Restaurant /\ target' = target /\ Exists(target[r])
          /\ object'[r] = table[target[r]] /\ stored' = stored
      BY <1>1, <2>2, <3>1 DEF FindOneRead, Continue, ControlInv, TypeOK
    <3> QED BY <2>2, <3>2 DEF StoredInv
  <2> QED BY <2>1, <2>2
<1>2. ASSUME NEW x \in Restaurant, cache'[x] # Null
      PROVE  cache'[x] \in stored'[x]
  <2>1. x \in Key /\ x # List
    BY RestaurantAssumption DEF Key
  <2>2. CASE cache'[x] = cache[x]
    BY <1>2, <2>2, StoredGrows DEF StoredInv, CachedWasStored
  <2>3. CASE FindAllSet(r)
    BY <2>1, <2>2, <2>3 DEF FindAllSet, TypeOK
  <2>4. CASE FindOneSet(r)
    <3>1. object[r] \in stored[target[r]]
      BY <2>4 DEF FindOneSet, Continue, StoredInv
    <3>2. cache' = [cache EXCEPT ![target[r]] = object[r]] /\ stored' = stored
      BY <2>4 DEF FindOneSet
    <3> QED BY <2>1, <2>2, <3>1, <3>2 DEF TypeOK
  <2>5. CASE Forgets
    BY <1>2, <2>1, <2>2, <2>5 DEF Forgets
  <2> QED BY <2>3, <2>4, <2>5, CacheSteps
<1> QED BY <1>1, <1>2, StoredGrows DEF StoredInv, CachedWasStored

-----------------------------------------------------------------------------
(* Requests that do not overlap. *)

LEMMA AtMostOne ==
  ASSUME NEW S, IsFiniteSet(S), ~(Cardinality(S) > 1), NEW x \in S, NEW y \in S
  PROVE  x = y
<1>1. Cardinality(S) \in Nat
  BY FS_CardinalityType
<1>2. Cardinality(S) # 0
  BY FS_EmptySet
<1>3. Cardinality(S) = 1
  BY <1>1, <1>2
<1> QED BY <1>3, FS_Singleton

LEMMA AloneStep ==
  ASSUME TypeOK, AloneInv, NEW r \in Request, Act(r),
         contended' = contended \cup Contention'
  PROVE  AloneInv'
<1>1. Open' \subseteq Open \cup {r}
  BY Others DEF Open
<1>2. IsFiniteSet(Open')
  BY <1>1, FS_AddElement, FS_Subset DEF AloneInv
<1>3. ASSUME NEW x \in Restaurant \ contended', NEW p \in Open', NEW q \in Open',
             target'[p] = x, target'[q] = x
      PROVE  p = q
  <2> DEFINE S == {t \in Open' : target'[t] = x}
  <2>1. IsFiniteSet(S)
    BY <1>2, FS_Subset
  <2>2. ~(Cardinality(S) > 1)
    BY <1>3 DEF Contention
  <2>3. p \in S /\ q \in S
    BY <1>3
  <2> HIDE DEF S
  <2> QED BY <2>1, <2>2, <2>3, AtMostOne
<1>4. ASSUME List \notin contended', NEW p \in Open', NEW q \in Open'
      PROVE  p = q
  <2>1. ~(Cardinality(Open') > 1)
    BY <1>4 DEF Contention
  <2> QED BY <1>2, <2>1, AtMostOne
<1> QED BY <1>2, <1>3, <1>4 DEF AloneInv

LEMMA CheckStep ==
  ASSUME TypeOK, ControlInv, AloneInv, CheckInv, NEW r \in Request, Act(r),
         contended' = contended \cup Contention'
  PROVE  CheckInv'
<1> SUFFICES ASSUME List \notin contended', NEW q \in Request,
                    pc'[q] = "insert", NEW y \in Restaurant, Exists(y)'
             PROVE  table'[y].phone # dto'[q]
  BY DEF CheckInv
<1>1. CASE q = r
  <2>1. PICK p \in Phone : CreateCheck(r, p)
    BY <1>1, Stages
  <2>2. ~\E x \in Restaurant : Exists(x) /\ table[x].phone = p
    BY <1>1, <2>1 DEF CreateCheck, Start, TypeOK
  <2>3. dto'[r] = p /\ table' = table
    BY <2>1 DEF CreateCheck, TypeOK
  <2> QED BY <1>1, <2>2, <2>3 DEF Exists
<1>2. CASE q # r
  <2>1. pc[q] = "insert" /\ dto'[q] = dto[q]
    BY <1>2, Others
  <2>2. ~(\E x \in Restaurant : CreateInsert(r, x)) /\ ~SaveWrite(r)
    <3>1. \A p \in Open : p = q
      BY <2>1 DEF AloneInv, Open, Suspended
    <3> QED BY <1>2, <3>1 DEF CreateInsert, SaveWrite, Continue, Open, Suspended
  <2>3. table' = table
    BY <2>2, TableSteps
  <2> QED BY <2>1, <2>3 DEF CheckInv, Exists
<1> QED BY <1>1, <1>2

-----------------------------------------------------------------------------
(* What is in the cache, and what a request is about to save. *)

(* A step that leaves a key calm found it calm.                            *)
LEMMA StaysCalm ==
  ASSUME NEW k \in Key, contended' = contended \cup Contention', Calm(k)'
  PROVE  Calm(k)
  BY DEF Calm

(* Only the deletion ends the wait for it. *)
LEMMA DelEnds ==
  ASSUME TypeOK, NEW r \in Request, Act(r), pc[r] = "del"
  PROVE  DeleteEntry(r)
<1>1. ~Arrive(r)
  BY DEF Arrive, CreateCheck, FindAllAnswer, FindAllMiss, FindOneHit,
     FindOneMiss, Start
<1>2. Resume(r)
  BY <1>1 DEF Act, Fail, DatabaseCall
<1> QED BY <1>2 DEF Resume, CreateInsert, FindAllRead, FindAllSet,
     FindOneRead, FindOneSet, SaveReload, SaveWrite, Continue

DetailCopies(x, q) ==
  target[q] = x =>
    /\ pc[q] = "set" => object[q] = table[x]
    /\ pc[q] \in {"reload", "write"} =>
         \A c \in Column \ OwnColumn(call[q]) : object[q][c] = table[x][c]

DetailCache(x) ==
  (\A q \in Request : ~(pc[q] = "del" /\ target[q] = x))
    => cache[x] \in {Null, table[x]}

LEMMA DetailStep ==
  ASSUME TypeOK, ControlInv, StoredInv, AloneInv, DetailInv,
         NEW r \in Request, Act(r), contended' = contended \cup Contention'
  PROVE  DetailInv'
<1> SUFFICES ASSUME NEW x \in Restaurant, Calm(x)'
             PROVE  DetailCache(x)' /\ \A q \in Request : DetailCopies(x, q)'
  BY DEF DetailInv, DetailCache, DetailCopies
<1>a. Calm(x) /\ x \in Key
  BY StaysCalm DEF Key
<1>b. DetailCache(x) /\ \A q \in Request : DetailCopies(x, q)
  BY <1>a DEF DetailInv, DetailCache, DetailCopies
<1>c. \A q \in Open : target[q] = x /\ r \in Open /\ target[r] = x => q = r
  BY <1>a DEF AloneInv, Calm
<1>d. \A q \in Open' : target'[q] = x /\ r \in Open' /\ target'[r] = x => q = r
  BY AloneStep DEF AloneInv, Calm
<1>e. x # List
  BY RestaurantAssumption
<1>1. CASE SaveWrite(r) /\ target[r] = x
  <2>1. pc[r] = "write" /\ pc'[r] = "del" /\ target'[r] = x
    BY <1>1, SaveEffect DEF TypeOK
  <2>2. ASSUME NEW q \in Request
        PROVE  DetailCopies(x, q)'
    <3>1. CASE q = r
      BY <2>1, <3>1 DEF DetailCopies
    <3>2. CASE q # r
      BY <1>1, <1>c, <2>1, <3>2, Others DEF DetailCopies, Open, Suspended
    <3> QED BY <3>1, <3>2
  <2> QED BY <2>1, <2>2 DEF DetailCache
<1>2. CASE CreateInsert(r, x)
  <2>1. ~Exists(x) /\ stored[x] = {} /\ cache' = cache
    BY <1>2 DEF CreateInsert, StoredInv
  <2>2. cache[x] = Null
    BY <2>1 DEF StoredInv, CachedWasStored
  <2>3. pc'[r] = "done"
    BY <1>2 DEF CreateInsert, Continue, Invalidation, TypeOK
  <2>4. ASSUME NEW q \in Request
        PROVE  DetailCopies(x, q)'
    <3>1. CASE q = r
      BY <2>3, <3>1 DEF DetailCopies
    <3>2. CASE q # r
      BY <2>1, <3>2, Others DEF DetailCopies, StoredInv, ControlInv
    <3> QED BY <3>1, <3>2
  <2> QED BY <2>1, <2>2, <2>4 DEF DetailCache
<1>3. CASE table'[x] = table[x]
  <2>1. ASSUME \A q \in Request : ~(pc'[q] = "del" /\ target'[q] = x)
        PROVE  cache'[x] \in {Null, table[x]}
    <3>1. CASE cache'[x] = cache[x]
      <4>1. ~(pc[r] = "del" /\ target[r] = x) \/ cache'[x] = Null
        BY <1>a, DelEnds DEF DeleteEntry, TypeOK
      <4>2. \A q \in Request \ {r} : ~(pc[q] = "del" /\ target[q] = x)
        BY <2>1, Others
      <4> QED BY <1>b, <3>1, <4>1, <4>2 DEF DetailCache
    <3>2. CASE FindAllSet(r)
      BY <1>a, <1>e, <3>1, <3>2 DEF FindAllSet, TypeOK
    <3>3. CASE FindOneSet(r)
      <4>1. CASE target[r] = x
        BY <1>a, <1>b, <3>3, <4>1 DEF FindOneSet, Continue, DetailCopies, TypeOK
      <4>2. CASE target[r] # x
        BY <1>a, <3>1, <3>3, <4>2 DEF FindOneSet, TypeOK
      <4> QED BY <4>1, <4>2
    <3>4. CASE Forgets
      BY <1>a, <3>1, <3>4 DEF Forgets
    <3> QED BY <3>2, <3>3, <3>4, CacheSteps
  <2>2. ASSUME NEW q \in Request, q # r
        PROVE  DetailCopies(x, q)'
    BY <1>3, <1>b, <2>2, Others DEF DetailCopies
  <2>3. ASSUME target'[r] = x, pc'[r] = "set"
        PROVE  object'[r] = table'[x]
    <3>1. FindOneRead(r)
      BY <2>3, Stages
    <3> QED BY <1>3, <2>3, <3>1 DEF FindOneRead, TypeOK
  <2>4. ASSUME target'[r] = x, pc'[r] = "write",
               NEW c \in Column \ OwnColumn(call'[r])
        PROVE  object'[r][c] = table'[x][c]
    <3>1. SaveReload(r)
      BY <2>4, Stages
    <3>2. pc[r] = "reload" /\ UNCHANGED <<target, object, call>>
      BY <3>1 DEF SaveReload, Continue
    <3> QED BY <1>3, <1>b, <2>4, <3>2 DEF DetailCopies
  <2>5. ASSUME target'[r] = x, pc'[r] = "reload",
               NEW c \in Column \ OwnColumn(call'[r])
        PROVE  object'[r][c] = table'[x][c]
    <3>1. CASE FindOneSet(r)
      <4>1. /\ pc[r] = "set" /\ target[r] = x /\ call'[r] = call[r]
            /\ call[r] \in LoadCall /\ dto[r] \in Phone
            /\ object[r] \in stored[x]
        BY <2>5, <3>1 DEF FindOneSet, Continue, ControlInv, StoredInv
      <4>2. object[r] = table[x] /\ object[r] \in Row
        BY <1>b, <4>1 DEF DetailCopies, TypeOK
      <4>3. object'[r] = Changed(call[r], object[r], dto[r])
        BY <2>5, <3>1, <4>1 DEF FindOneSet, Continue, AfterFindOne, Return, TypeOK
      <4> QED BY <1>3, <2>5, <4>1, <4>2, <4>3, ChangedType
    <3>2. ASSUME NEW k \in LoadCall, NEW y \in Restaurant, NEW p \in Phone,
                 FindOneHit(r, k, y, p)
          PROVE  object'[r][c] = table'[x][c]
      <4>1. /\ pc[r] = "idle" /\ y = x /\ call'[r] = k /\ cache[x] # Null
            /\ r \in Open' /\ k # "findOne"
        BY <2>5, <3>2
           DEF FindOneHit, Start, AfterFindOne, TypeOK, Open, Suspended
      <4>2. \A q \in Request : ~(pc[q] = "del" /\ target[q] = x)
        BY <1>d, <2>5, <4>1, Others DEF Open, Suspended
      <4>3. cache[x] = table[x] /\ cache[x] \in Row
        BY <1>b, <4>1, <4>2, DetailIsRow DEF DetailCache
      <4>4. object'[r] = Changed(k, cache[x], p)
        BY <3>2, <4>1 DEF FindOneHit, Return, TypeOK
      <4> QED BY <1>3, <2>5, <4>1, <4>3, <4>4, ChangedType
    <3> QED BY <2>5, <3>1, <3>2, Stages
  <2>6. DetailCopies(x, r)'
    BY <2>3, <2>4, <2>5 DEF DetailCopies
  <2> QED BY <1>3, <2>1, <2>2, <2>6 DEF DetailCache
<1>4. ASSUME NEW y \in Restaurant, CreateInsert(r, y), y # x
      PROVE  table'[x] = table[x]
  BY <1>4 DEF CreateInsert, TypeOK
<1>5. ASSUME SaveWrite(r), target[r] # x
      PROVE  table'[x] = table[x]
  BY <1>5 DEF SaveWrite, TypeOK
<1> QED BY <1>1, <1>2, <1>3, <1>4, <1>5, TableSteps

-----------------------------------------------------------------------------
LEMMA InitInv == Init => Inv
<1> SUFFICES ASSUME Init
             PROVE  Inv
  OBVIOUS
<1> USE DEF Init
<1>1. TypeOK
  BY DEF TypeOK
<1>2. ControlInv
  BY DEF ControlInv
<1>3. StoredInv
  BY DEF StoredInv, Exists, CachedWasStored, Key
<1>4. Open = {}
  BY DEF Open, Suspended
<1>5. AloneInv
  BY <1>4, FS_EmptySet DEF AloneInv
<1>6. CheckInv
  BY DEF CheckInv
<1>7. DetailInv
  BY DEF DetailInv, Key
<1> QED BY <1>1, <1>2, <1>3, <1>5, <1>6, <1>7 DEF Inv

(* An entry that expires leaves everything but itself alone. *)
LEMMA ExpireInv ==
  ASSUME Inv, NEW k \in Key, Expire(k), contended' = contended \cup Contention'
  PROVE  Inv'
<1> USE DEF Inv
<1>1. /\ UNCHANGED <<table, stored, pc, call, target, dto, object, dirty,
                     failures>>
      /\ Forgets /\ contended \subseteq contended'
  BY ExpireForgets DEF Expire, memory
<1>2. TypeOK'
  BY <1>1, ContentionType DEF TypeOK, Forgets
<1>3. ControlInv'
  BY <1>1 DEF ControlInv, Exists
<1>4. StoredInv'
  BY <1>1 DEF StoredInv, Exists, CachedWasStored, Forgets, Key
<1>5. AloneInv'
  BY <1>1 DEF AloneInv, Open
<1>6. CheckInv'
  BY <1>1 DEF CheckInv, Exists
<1>7. \A y \in Key : Calm(y)' => Calm(y)
  BY <1>1 DEF Calm
<1>8. DetailInv'
  BY <1>1, <1>7 DEF DetailInv, Forgets, Key
<1> QED BY <1>2, <1>3, <1>4, <1>5, <1>6, <1>8 DEF Inv

LEMMA StutterInv ==
  ASSUME Inv, UNCHANGED vars
  PROVE  Inv'
<1> USE DEF Inv
<1>1. UNCHANGED <<table, cache, stored, pc, call, target, dto, object, dirty,
                  failures, contended>>
  BY DEF vars, memory
<1>2. TypeOK' /\ ControlInv'
  BY <1>1 DEF TypeOK, ControlInv, Exists
<1>3. StoredInv'
  BY <1>1 DEF StoredInv, Exists, CachedWasStored
<1>4. AloneInv' /\ CheckInv'
  BY <1>1 DEF AloneInv, Open, CheckInv, Exists
<1>5. DetailInv'
  BY <1>1 DEF DetailInv, Calm
<1> QED BY <1>2, <1>3, <1>4, <1>5

LEMMA Steps ==
  ASSUME Next
  PROVE  /\ contended' = contended \cup Contention'
         /\ \/ \E r \in Request : Act(r)
            \/ \E k \in Key : Expire(k)
  BY DEF Next, Act

LEMMA StepInv == Inv /\ [Next]_vars => Inv'
<1>1. ASSUME Inv, NEW r \in Request, Act(r),
             contended' = contended \cup Contention'
      PROVE  Inv'
  BY <1>1, TypeStep, ControlStep, StoredStep, AloneStep, CheckStep, DetailStep
  DEF Inv
<1> QED BY <1>1, ExpireInv, StutterInv, Steps

(* Whatever overlaps and whatever fails, the invariant holds. *)
THEOREM Invariance == Spec => []Inv
BY InitInv, StepInv, PTL DEF Spec

(***************************************************************************)
(* A cached detail was once the row of that restaurant, all its columns    *)
(* together, under any load and with any failures.                         *)
(***************************************************************************)
THEOREM NeverAMixture == Spec => []CachedWasStored
<1>1. Inv => CachedWasStored
  BY DEF Inv, StoredInv
<1> QED BY <1>1, Invariance, PTL

(***************************************************************************)
(* A restaurant on which no two requests overlapped is cached as it is     *)
(* stored, between requests (database calls may fail).                     *)
(***************************************************************************)
THEOREM DetailsHold == Spec => []DetailsInvalidated
<1>1. Inv => DetailsInvalidated
  <2> SUFFICES ASSUME Inv, NEW x \in Restaurant, Calm(x),
                      \A r \in Open : target[r] # x
               PROVE  cache[x] \in {Null, table[x]}
    BY DEF DetailsInvalidated
  <2>1. \A r \in Request : ~(pc[r] = "del" /\ target[r] = x)
    BY DEF Open, Suspended
  <2> QED BY <2>1 DEF Inv, DetailInv
<1> QED BY <1>1, Invariance, PTL

(***************************************************************************)
(* PATCH and DELETE leave the columns they were not asked to change alone, *)
(* as long as no two requests worked on the restaurant at once.            *)
(***************************************************************************)
THEOREM SavesOwnColumns == Spec => SaveTouchesOwnColumns
<1>1. ASSUME Inv, [Next]_vars
      PROVE  [\A r \in Request, x \in Restaurant : Writes(r, x) /\ Calm(x) =>
                \A c \in Column : table[x][c]' # table[x][c]
                  => c \in OwnColumn(call[r])]_vars
  <2> SUFFICES ASSUME Next, NEW r \in Request, NEW x \in Restaurant,
                      Writes(r, x), Calm(x), NEW c \in Column,
                      table'[x][c] # table[x][c]
               PROVE  c \in OwnColumn(call[r])
    BY <1>1
  <2> USE <1>1 DEF Inv
  <2>1. SaveWrite(r)
    <3>1. pc[r] = "write" /\ pc'[r] = "del"
      BY DEF Writes
    <3>2. PICK q \in Request : Act(q)
      BY <3>1, Steps DEF Expire
    <3>3. q = r
      BY <3>1, <3>2, Others
    <3> QED BY <3>1, <3>2, <3>3, Stages
  <2>2. table' = [table EXCEPT ![x] = Saved(r)]
    BY <2>1, SaveEffect DEF Writes
  <2>3. Saved(r)[c] = IF c \in dirty[r] THEN object[r][c] ELSE table[x][c]
    BY DEF Saved, Writes
  <2>4. object[r][c] # table[x][c]
    BY <2>2, <2>3 DEF TypeOK
  <2> QED BY <2>4 DEF DetailInv, Writes
<1> QED BY <1>1, Invariance, PTL DEF Spec, SaveTouchesOwnColumns

(***************************************************************************)
(* No insert repeats the phone number of a row, if requests do not overlap *)
(* (calls may fail).                                                       *)
(***************************************************************************)
THEOREM PhonesApart == Spec => CreateKeepsPhonesApart
<1>1. ASSUME Inv, [Next]_vars
      PROVE  [\A x \in Restaurant :
                ~Exists(x) /\ Exists(x)' /\ Calm(List) =>
                  \A y \in Restaurant : Exists(y) =>
                    table[y].phone # table'[x].phone]_vars
  <2> SUFFICES ASSUME Next, NEW x \in Restaurant, ~Exists(x), Exists(x)',
                      Calm(List), NEW y \in Restaurant, Exists(y)
               PROVE  table[y].phone # table'[x].phone
    BY <1>1
  <2> USE <1>1 DEF Inv
  <2>1. PICK r \in Request : Act(r)
    BY Steps DEF Expire, Exists
  <2>2. ~UNCHANGED <<table, stored>>
    BY DEF Exists
  <2>3. ~SaveWrite(r)
    <3>1. ASSUME SaveWrite(r)
          PROVE  table'[x] = table[x]
      BY <3>1, SaveEffect DEF TypeOK
    <3> QED BY <3>1 DEF Exists
  <2>4. PICK z \in Restaurant : CreateInsert(r, z)
    BY <2>1, <2>2, <2>3, TableSteps
  <2>5. z = x /\ table'[x].phone = dto[r] /\ pc[r] = "insert"
    <3>1. /\ table' = [table EXCEPT ![z] = [phone |-> dto[r], isActive |-> TRUE]]
          /\ pc[r] = "insert"
      BY <2>4, InsertEffect
    <3>2. z = x
      BY <3>1 DEF TypeOK, Exists
    <3> QED BY <3>1, <3>2 DEF TypeOK
  <2> QED BY <2>5 DEF CheckInv, Calm
<1> QED BY <1>1, Invariance, PTL DEF Spec, CreateKeepsPhonesApart
=============================================================================
