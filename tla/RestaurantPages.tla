--------------------------- MODULE RestaurantPages ---------------------------
(***************************************************************************)
(* Walking the restaurant list page by page.  A search is not cached, so   *)
(* every page is two queries of its own, the rows and then the count, and  *)
(* the list changes between them and between the pages.  The sort key is   *)
(* taken to be unique: among equal keys PostgreSQL may return rows in      *)
(* another order for every page.                                           *)
(***************************************************************************)
EXTENDS Integers, Sequences, FiniteSets, FiniteSetsExt, SequencesExt

CONSTANTS
  Restaurant,
  Limits,       \* page sizes a client may ask for
  MaxChanges,   \* bound: changes of the list during the walk
  MaxPage       \* bound: pages a client asks for

ASSUME PagesAssumption ==
  /\ IsFiniteSet(Restaurant)
  /\ Limits \subseteq Nat \ {0}
  /\ MaxChanges \in Nat
  /\ MaxPage \in Nat \ {0}

VARIABLES
  listed,   \* the active restaurants that match, in the order of the query
  limit,    \* page size of the walk
  page,     \* the page the client is at
  at,       \* "ask", "count" between the two queries, or "done"
  data,     \* the rows of the page
  served,   \* history: restaurant -> how often it was on a page
  steady,   \* history: restaurants listed in their place all the time
  shrunk,   \* history: did the pages already queried lose a row
  grown,    \* history: or get one
  changes   \* changes up to now

vars ==
  <<listed, limit, page, at, data, served, steady, shrunk, grown, changes>>
listVars == <<listed, steady, shrunk, grown, changes>>

-----------------------------------------------------------------------------
\* Mutant of skip: pages counted from 0.
SkipFromZero == page * limit

\* PaginationDto.skip
skip == (page - 1) * limit

\* Math.ceil(total / limit)
totalPages(total) == (total + limit - 1) \div limit

\* Mutant of hasNextPage: an empty list has no last page.
UntilEqual(total) == page # totalPages(total)

hasNextPage(total) == page < totalPages(total)

-----------------------------------------------------------------------------
\* Mutant of Query: one row more, to see whether there is a next page.
TakeOneMore ==
  /\ at = "ask"
  /\ at' = "count"
  /\ data' = SubSeq(listed, skip + 1, Min({skip + limit + 1, Len(listed)}))
  /\ UNCHANGED <<limit, page, served, listVars>>

\* getMany: .skip(skip).take(limit)
Query ==
  /\ at = "ask"
  /\ at' = "count"
  /\ data' = SubSeq(listed, skip + 1, Min({skip + limit, Len(listed)}))
  /\ UNCHANGED <<limit, page, served, listVars>>

(***************************************************************************)
(* AndCount: TypeORM counts with a second query, or takes the count from a *)
(* page that is not full (of the empty pages, only from the first).  The   *)
(* client reads the page and follows hasNextPage.                          *)
(***************************************************************************)
Answer ==
  /\ at = "count"
  /\ \E total \in {Len(listed)} \cup
        (IF Len(data) < limit /\ (data # <<>> \/ page = 1)
         THEN {skip + Len(data)} ELSE {}) :
       IF hasNextPage(total)
       THEN page < MaxPage /\ page' = page + 1 /\ at' = "ask"
       ELSE page' = page /\ at' = "done"
  /\ served' = [x \in Restaurant |->
                  served[x] + Cardinality({i \in DOMAIN data : data[i] = x})]
  /\ UNCHANGED <<limit, data, listVars>>

-----------------------------------------------------------------------------
\* How many positions of the list the pages queried up to now cover.
cursor == IF at = "count" THEN page * limit ELSE (page - 1) * limit

PositionOf(x) == CHOOSE i \in DOMAIN listed : listed[i] = x

Change(newList, isSteady, loses, gains) ==
  /\ at # "done" /\ changes < MaxChanges
  /\ listed' = newList
  /\ steady' = isSteady
  /\ shrunk' = (shrunk \/ loses)
  /\ grown' = (grown \/ gains)
  /\ changes' = changes + 1
  /\ UNCHANGED <<limit, page, at, data, served>>

\* A restaurant is created, or renamed to match the search.
Show(x, i) ==
  /\ x \notin Range(listed)
  /\ Change(InsertAt(listed, i, x), steady, FALSE, i <= cursor)

\* It is soft-deleted, or renamed not to match.
Hide(x) ==
  /\ x \in Range(listed)
  /\ Change(RemoveAt(listed, PositionOf(x)), steady \ {x},
            PositionOf(x) <= cursor, FALSE)

\* The name it is sorted by changes.
Move(x, i) ==
  /\ x \in Range(listed) /\ i # PositionOf(x)
  /\ Change(InsertAt(RemoveAt(listed, PositionOf(x)), i, x), steady \ {x},
            PositionOf(x) <= cursor /\ i > cursor,
            PositionOf(x) > cursor /\ i <= cursor)

Init ==
  /\ listed \in {s \in UNION {[1..n -> Restaurant] :
                                n \in 0..Cardinality(Restaurant)} :
                   IsInjective(s)}
  /\ limit \in Limits
  /\ page = 1 /\ at = "ask" /\ data = <<>>
  /\ served = [x \in Restaurant |-> 0]
  /\ steady = Range(listed)
  /\ shrunk = FALSE /\ grown = FALSE
  /\ changes = 0

Next ==
  \/ Query
  \/ Answer
  \/ \E x \in Restaurant :
       \/ Hide(x)
       \/ \E i \in 1..Len(listed) + 1 : Show(x, i)
       \/ \E i \in DOMAIN listed : Move(x, i)

\* The client goes on until there is no next page, and is answered.
Spec == Init /\ [][Next]_vars /\ WF_vars(Query) /\ WF_vars(Answer)

-----------------------------------------------------------------------------
(***************************************************************************)
(* A walk shows every restaurant that keeps its place in the list: new     *)
(* restaurants anywhere, and restaurants that leave further down, hide     *)
(* none.  Only a row that leaves the pages already read can.               *)
(***************************************************************************)
NothingMissed ==
  at = "done" /\ ~shrunk => \A x \in steady : served[x] > 0

(***************************************************************************)
(* No such restaurant is shown twice, unless a row got in before or on the *)
(* pages already read.                                                     *)
(***************************************************************************)
NothingRepeated == ~grown => \A x \in steady : served[x] <= 1

(***************************************************************************)
(* The walk comes to its end, whatever the finitely many changes of the    *)
(* list are: also on an empty list, and on one that ends before the page.  *)
(***************************************************************************)
WalkEnds == <>(at = "done")
=============================================================================
