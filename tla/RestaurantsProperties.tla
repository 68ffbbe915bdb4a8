------------------------ MODULE RestaurantsProperties ------------------------
(* What RestaurantsService promises, alone and under load. *)
EXTENDS RestaurantsService

(***************************************************************************)
(* A cached detail was once the row of that restaurant, all its columns    *)
(* together: neither fills that race with saves nor changes made in memory *)
(* to the cached copy put a mixture into the cache.                        *)
(***************************************************************************)
CachedWasStored ==
  \A x \in Restaurant : cache[x] # Null => cache[x] \in stored[x]

-----------------------------------------------------------------------------
\* The columns an operation is asked to change.
OwnColumn(k) == IF k = "update" THEN {"phone"} ELSE {"isActive"}

\* Request r writes row x in this step, and changes column c.
Writes(r, x) == pc[r] = "write" /\ pc'[r] = "del" /\ target[r] = x

\* No two requests were open at once: on x, or at all for x = List.
Calm(x) == x \notin contended

(***************************************************************************)
(* PATCH and DELETE change the columns they were asked to change and leave *)
(* the others as they are, so a PATCH never brings a deleted restaurant    *)
(* back: as long as no two requests worked on the restaurant at once.      *)
(* (save writes every column in which the loaded copy is behind.)          *)
(***************************************************************************)
SaveTouchesOwnColumns ==
  [][\A r \in Request, x \in Restaurant : Writes(r, x) /\ Calm(x) =>
       \A c \in Column : table[x][c]' # table[x][c]
         => c \in OwnColumn(call[r])]_vars

(***************************************************************************)
(* README.md:220: POST, PATCH and DELETE invalidate the cache.  When no    *)
(* request is open on a restaurant, its cached detail is its row, unless   *)
(* two requests on it overlapped; what fails, and what happens to other    *)
(* restaurants meanwhile, does not matter.                                 *)
(***************************************************************************)
DetailsInvalidated ==
  \A x \in Restaurant :
    Calm(x) /\ (\A r \in Open : target[r] # x) => cache[x] \in {Null, table[x]}

(***************************************************************************)
(* restaurants.controller.ts:36: creating a restaurant with a phone number *)
(* that exists is a conflict.  No insert repeats the phone of a row, if    *)
(* requests do not overlap.                                                *)
(***************************************************************************)
CreateKeepsPhonesApart ==
  [][\A x \in Restaurant : ~Exists(x) /\ Exists(x)' /\ Calm(List) =>
       \A y \in Restaurant : Exists(y) =>
         table[y].phone # table'[x].phone]_vars

(***************************************************************************)
(* README.md:220 again, for any overlap of requests that all succeed: with *)
(* no request open, the cached detail of a restaurant is its row.          *)
(***************************************************************************)
DetailsFresh ==
  Open = {} => \A x \in Restaurant : cache[x] \in {Null, table[x]}

(***************************************************************************)
(* README.md:220 of the list page, for requests that run one after         *)
(* another: with none open, the cached page lists the active restaurants   *)
(* as they are in the table.                                               *)
(***************************************************************************)
ListInvalidated == Calm(List) /\ Open = {} => cache[List] \in {Null, ActivePage}
=============================================================================
