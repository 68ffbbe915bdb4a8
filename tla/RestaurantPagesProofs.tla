------------------------ MODULE RestaurantPagesProofs ------------------------
(***************************************************************************)
(* Proofs about RestaurantPages, for lists and pages of any size and any   *)
(* number of changes: a walk misses no restaurant that stays in its place  *)
(* unless a row leaves the pages already read, and repeats none unless one *)
(* gets in there.                                                          *)
(***************************************************************************)
EXTENDS RestaurantPages, FiniteSetTheorems, SequenceTheorems, TLAPS

TypeOK ==
  /\ listed \in Seq(Restaurant)
  /\ limit \in Limits
  /\ page \in Nat \ {0}
  /\ at \in {"ask", "count", "done"}
  /\ data \in Seq(Restaurant)
  /\ served \in [Restaurant -> Nat]
  /\ steady \subseteq Restaurant
  /\ shrunk \in BOOLEAN /\ grown \in BOOLEAN

(* No restaurant is twice in the list or on a page, and the steady ones    *)
(* are in the list.                                                        *)
ListInv ==
  /\ IsInjective(listed)
  /\ IsInjective(data)
  /\ steady \subseteq Range(listed)

(* x was on a page, or is on the one just read.                            *)
Shown(x) == served[x] > 0 \/ (at = "count" /\ x \in Range(data))

Place(x) == {j \in 1..Len(listed) : listed[j] = x}

(***************************************************************************)
(* Unless a row got in before the cursor, what was shown is before it and  *)
(* is not on a later page.                                                 *)
(***************************************************************************)
OnceInv ==
  ~grown => \A x \in steady :
    /\ served[x] <= 1
    /\ at = "count" /\ x \in Range(data) => served[x] = 0
    /\ at # "done" /\ Shown(x) => \A j \in Place(x) : j <= cursor

(***************************************************************************)
(* Unless a row left from before the cursor, what was not shown is behind  *)
(* it; a page that is not full, and tells the total, left nothing there.   *)
(***************************************************************************)
MissInv ==
  ~shrunk => \A x \in steady :
    /\ Shown(x) \/ (at # "done" /\ \A j \in Place(x) : j > cursor)
    /\ at = "count" /\ Len(data) < limit /\ (data # <<>> \/ page = 1)
         => Shown(x)

Inv == TypeOK /\ ListInv /\ OnceInv /\ MissInv

-----------------------------------------------------------------------------
(* The operators on lists the model is made of. *)

LEMMA MinOfTwo ==
  ASSUME NEW a \in Nat, NEW b \in Nat
  PROVE  Min({a, b}) = IF a <= b THEN a ELSE b
  BY DEF Min

(* t is s with x at position i, and s without what was at position i.      *)
With(t, s, i, x) ==
  /\ Len(t) = Len(s) + 1
  /\ \A j \in 1..(Len(s) + 1) :
       t[j] = IF j < i THEN s[j] ELSE IF j = i THEN x ELSE s[j - 1]

Without(t, s, i) ==
  /\ Len(t) = Len(s) - 1
  /\ \A j \in 1..(Len(s) - 1) : t[j] = IF j < i THEN s[j] ELSE s[j + 1]

(* InsertAt moves the rest of the list down by one. *)
LEMMA Inserted ==
  ASSUME NEW S, NEW s \in Seq(S), NEW x \in S, NEW i \in 1..(Len(s) + 1)
  PROVE  /\ InsertAt(s, i, x) \in Seq(S)
         /\ With(InsertAt(s, i, x), s, i, x)
<1> DEFINE a == SubSeq(s, 1, i - 1)
           b == SubSeq(s, i, Len(s))
<1>1. /\ a \in Seq(S) /\ Len(a) = i - 1
      /\ \A j \in 1..(i - 1) : a[j] = s[j]
  OBVIOUS
<1>2. /\ b \in Seq(S) /\ Len(b) = Len(s) - i + 1
      /\ \A j \in 1..(Len(s) - i + 1) : b[j] = s[i + j - 1]
  OBVIOUS
<1>3. InsertAt(s, i, x) = (a \o <<x>>) \o b
  BY DEF InsertAt
<1> HIDE DEF a, b
<1>4. /\ a \o <<x>> \in Seq(S) /\ Len(a \o <<x>>) = i
      /\ \A j \in 1..i : (a \o <<x>>)[j] = IF j < i THEN s[j] ELSE x
  BY <1>1
<1> DEFINE c == a \o <<x>>
<1> HIDE DEF c
<1>5. /\ c \o b \in Seq(S) /\ Len(c \o b) = Len(s) + 1
      /\ \A j \in 1..(Len(s) + 1) :
           (c \o b)[j] = IF j <= i THEN c[j] ELSE b[j - i]
  <2>1. /\ Len(c) = i /\ c \in Seq(S)
    BY <1>4 DEF c
  <2>2. /\ c \o b \in Seq(S) /\ Len(c \o b) = Len(c) + Len(b)
        /\ \A j \in 1..(Len(c) + Len(b)) :
             (c \o b)[j] = IF j <= Len(c) THEN c[j] ELSE b[j - Len(c)]
    BY <1>2, <2>1, ConcatProperties
  <2>3. Len(c) + Len(b) = Len(s) + 1
    BY <1>2, <2>1
  <2> QED BY <2>1, <2>2, <2>3
<1> QED BY <1>2, <1>3, <1>4, <1>5 DEF c, With

(* RemoveAt moves it up by one. *)
LEMMA Removed ==
  ASSUME NEW S, NEW s \in Seq(S), NEW i \in 1..Len(s)
  PROVE  /\ RemoveAt(s, i) \in Seq(S)
         /\ Without(RemoveAt(s, i), s, i)
<1> DEFINE a == SubSeq(s, 1, i - 1)
           b == SubSeq(s, i + 1, Len(s))
<1>1. /\ a \in Seq(S) /\ Len(a) = i - 1
      /\ \A j \in 1..(i - 1) : a[j] = s[j]
  OBVIOUS
<1>2. /\ b \in Seq(S) /\ Len(b) = Len(s) - i
      /\ \A j \in 1..(Len(s) - i) : b[j] = s[i + j]
  OBVIOUS
<1>3. RemoveAt(s, i) = a \o b
  BY DEF RemoveAt
<1> HIDE DEF a, b
<1>4. /\ a \o b \in Seq(S) /\ Len(a \o b) = Len(s) - 1
      /\ \A j \in 1..(Len(s) - 1) :
           (a \o b)[j] = IF j < i THEN a[j] ELSE b[j - i + 1]
  <2>1. /\ a \o b \in Seq(S) /\ Len(a \o b) = Len(a) + Len(b)
        /\ \A j \in 1..(Len(a) + Len(b)) :
             (a \o b)[j] = IF j <= Len(a) THEN a[j] ELSE b[j - Len(a)]
    BY <1>1, <1>2, ConcatProperties
  <2>2. Len(a) + Len(b) = Len(s) - 1
    BY <1>1, <1>2
  <2>3. \A j \in 1..(Len(s) - 1) :
          (j <= Len(a) <=> j < i) /\ j - Len(a) = j - i + 1
    BY <1>1
  <2> QED BY <2>1, <2>2, <2>3
<1> QED
  <2>1. \A j \in 1..(Len(s) - 1) : j >= i =>
          j - i + 1 \in 1..(Len(s) - i) /\ i + (j - i + 1) = j + 1
    OBVIOUS
  <2> QED BY <1>1, <1>2, <1>3, <1>4, <2>1 DEF Without

(***************************************************************************)
(* Where the rows of a list without duplicates go when one is inserted at  *)
(* i, or the one at p is removed.                                          *)
(***************************************************************************)
DownFrom(i, j) == IF j < i THEN j ELSE j + 1

UpFrom(p, j) == IF j < p THEN j ELSE j - 1

GapAt(t, s, i, x) ==
  /\ IsInjective(t)
  /\ t[i] = x
  /\ \A j \in 1..Len(s) : t[DownFrom(i, j)] = s[j]
  /\ \A j \in 1..Len(s), k \in 1..(Len(s) + 1) :
       t[k] = s[j] => k = DownFrom(i, j)

ClosedAt(t, s, p) ==
  /\ IsInjective(t)
  /\ \A k \in 1..(Len(s) - 1) : t[k] # s[p]
  /\ \A j \in 1..Len(s) : j # p => t[UpFrom(p, j)] = s[j]
  /\ \A j \in 1..Len(s), k \in 1..(Len(s) - 1) :
       t[k] = s[j] => k = UpFrom(p, j)

LEMMA InsertedPlaces ==
  ASSUME NEW S, NEW s \in Seq(S), NEW x \in S, NEW i \in 1..(Len(s) + 1),
         IsInjective(s), \A j \in 1..Len(s) : s[j] # x
  PROVE  GapAt(InsertAt(s, i, x), s, i, x)
<1> DEFINE t == InsertAt(s, i, x)
           n == Len(s)
           new(j) == DownFrom(i, j)
<1>1. /\ t \in Seq(S) /\ Len(t) = n + 1
      /\ \A j \in 1..(n + 1) :
           t[j] = IF j < i THEN s[j] ELSE IF j = i THEN x ELSE s[j - 1]
  <2>1. t \in Seq(S) /\ With(t, s, i, x)
    BY Inserted
  <2> HIDE DEF t
  <2> QED BY <2>1 DEF With
<1>2. \A j, k \in 1..n : s[j] = s[k] => j = k
  BY DEF IsInjective
<1>3. n \in Nat /\ i \in 1..(n + 1)
  OBVIOUS
<1>4. \A j \in 1..n : s[j] # x
  OBVIOUS
<1> HIDE DEF t, n, new
<1>0. /\ \A j \in 1..(n + 1) : j < i => j \in 1..n /\ t[j] = s[j]
      /\ t[i] = x
      /\ \A j \in 1..(n + 1) : j > i => j - 1 \in 1..n /\ t[j] = s[j - 1]
  BY <1>1, <1>3
<1>5. \A j, k \in 1..(n + 1) : t[j] = t[k] => j = k
  <2> SUFFICES ASSUME NEW j \in 1..(n + 1), NEW k \in 1..(n + 1),
                      t[j] = t[k]
               PROVE  j = k
    OBVIOUS
  <2>1. ASSUME NEW a \in 1..(n + 1), NEW b \in 1..(n + 1), a < i,
               t[a] = t[b]
        PROVE  a = b
    <3>1. a \in 1..n /\ t[a] = s[a]
      BY <1>0, <2>1
    <3>2. CASE b < i
      <4>1. b \in 1..n /\ t[b] = s[b]
        BY <1>0, <3>2
      <4> QED BY <1>2, <2>1, <3>1, <4>1
    <3>3. CASE b = i
      <4>1. s[a] = x
        BY <1>0, <2>1, <3>1, <3>3
      <4> QED BY <1>4, <3>1, <4>1
    <3>4. CASE b > i
      <4>1. b - 1 \in 1..n /\ t[b] = s[b - 1]
        BY <1>0, <3>4
      <4>2. a = b - 1
        BY <1>2, <2>1, <3>1, <4>1
      <4> QED BY <1>3, <2>1, <3>4, <4>2
    <3> QED BY <1>3, <3>2, <3>3, <3>4
  <2>2. ASSUME j > i, k > i
        PROVE  j = k
    <3>1. /\ j - 1 \in 1..n /\ t[j] = s[j - 1]
          /\ k - 1 \in 1..n /\ t[k] = s[k - 1]
      BY <1>0, <2>2
    <3>2. j - 1 = k - 1
      BY <1>2, <3>1
    <3> QED BY <1>3, <3>2
  <2>3. ASSUME NEW l \in 1..(n + 1), l > i
        PROVE  t[l] # t[i]
    <3>1. l - 1 \in 1..n /\ t[l] = s[l - 1]
      BY <1>0, <2>3
    <3> QED BY <1>4, <1>0, <3>1
  <2> QED BY <1>3, <2>1, <2>2, <2>3
<1>6. \A j \in 1..n : new(j) \in 1..(n + 1) /\ t[new(j)] = s[j]
  <2> USE DEF new
  <2> SUFFICES ASSUME NEW j \in 1..n
               PROVE  new(j) \in 1..(n + 1) /\ t[new(j)] = s[j]
    OBVIOUS
  <2>1. CASE j < i
    BY <1>1, <1>3, <2>1 DEF DownFrom
  <2>2. CASE ~(j < i)
    <3>1. j + 1 \in 1..(n + 1) /\ ~(j + 1 < i) /\ j + 1 # i
          /\ (j + 1) - 1 = j
      BY <1>3, <2>2
    <3> QED BY <1>1, <2>2, <3>1 DEF DownFrom
  <2> QED BY <2>1, <2>2
<1>7. IsInjective(t)
  BY <1>1, <1>3, <1>5 DEF IsInjective
<1>8. t[i] = x
  BY <1>1, <1>3
<1>9. \A j \in 1..n, k \in 1..(n + 1) : t[k] = s[j] => k = DownFrom(i, j)
  BY <1>5, <1>6 DEF new
<1> QED BY <1>6, <1>7, <1>8, <1>9 DEF t, n, new, GapAt

LEMMA RemovedPlaces ==
  ASSUME NEW S, NEW s \in Seq(S), NEW p \in 1..Len(s), IsInjective(s)
  PROVE  ClosedAt(RemoveAt(s, p), s, p)
<1> DEFINE t == RemoveAt(s, p)
           n == Len(s)
           new(j) == UpFrom(p, j)
           old(k) == IF k < p THEN k ELSE k + 1
<1>1. /\ t \in Seq(S) /\ Len(t) = n - 1
      /\ \A k \in 1..(n - 1) : t[k] = IF k < p THEN s[k] ELSE s[k + 1]
  <2>1. t \in Seq(S) /\ Without(t, s, p)
    BY Removed
  <2> HIDE DEF t
  <2> QED BY <2>1 DEF Without
<1>2. \A j, k \in 1..n : s[j] = s[k] => j = k
  BY DEF IsInjective
<1>3. n \in Nat /\ p \in 1..n
  OBVIOUS
<1> HIDE DEF t, n
<1>4. \A k \in 1..(n - 1) : /\ old(k) \in 1..n /\ t[k] = s[old(k)]
                            /\ old(k) # p /\ new(old(k)) = k
  BY <1>1, <1>3 DEF UpFrom
<1>5. \A j \in 1..n : j # p => new(j) \in 1..(n - 1) /\ old(new(j)) = j
  BY <1>3 DEF UpFrom
<1> HIDE DEF new, old
<1>6. \A j, k \in 1..(n - 1) : t[j] = t[k] => j = k
  BY <1>2, <1>4
<1>7. IsInjective(t)
  BY <1>1, <1>3, <1>6 DEF IsInjective
<1>8. \A k \in 1..(n - 1) : t[k] # s[p]
  BY <1>2, <1>3, <1>4
<1>9. \A j \in 1..n : j # p => t[new(j)] = s[j]
  BY <1>4, <1>5
<1>10. \A j \in 1..n, k \in 1..(n - 1) : t[k] = s[j] => k = new(j)
  BY <1>2, <1>4
<1> QED BY <1>7, <1>8, <1>9, <1>10 DEF t, n, new, ClosedAt

(* A page holds the next rows of the list, fewer only where it ends. *)
PageAt(d, s, k, l) ==
  /\ Len(d) = IF k + l <= Len(s) THEN l
              ELSE IF k <= Len(s) THEN Len(s) - k ELSE 0
  /\ \A i \in 1..Len(d) : k + i \in 1..Len(s) /\ d[i] = s[k + i]

LEMMA PageOf ==
  ASSUME NEW S, NEW s \in Seq(S), NEW k \in Nat, NEW l \in Nat
  PROVE  /\ SubSeq(s, k + 1, Min({k + l, Len(s)})) \in Seq(S)
         /\ PageAt(SubSeq(s, k + 1, Min({k + l, Len(s)})), s, k, l)
<1> DEFINE m == IF k + l <= Len(s) THEN k + l ELSE Len(s)
<1>1. m \in Nat /\ m <= Len(s) /\ Min({k + l, Len(s)}) = m
  BY MinOfTwo
<1> HIDE DEF m
<1>2. SubSeq(s, k + 1, m) \in Seq(S)
  BY <1>1
<1>3. /\ Len(SubSeq(s, k + 1, m)) = IF k <= m THEN m - k ELSE 0
      /\ \A i \in 1..(m - k) : SubSeq(s, k + 1, m)[i] = s[k + i]
  BY <1>1
<1> DEFINE d == SubSeq(s, k + 1, m)
<1>4. Len(d) = IF k + l <= Len(s) THEN l
               ELSE IF k <= Len(s) THEN Len(s) - k ELSE 0
  BY <1>3 DEF m
<1>5. \A i \in 1..Len(d) : k + i \in 1..Len(s) /\ d[i] = s[k + i]
  BY <1>1, <1>3
<1> HIDE DEF d
<1>6. PageAt(d, s, k, l)
  BY <1>4, <1>5 DEF PageAt
<1> QED BY <1>1, <1>2, <1>6 DEF d

(* How often a restaurant is on a page without duplicates. *)
LEMMA TimesOnPage ==
  ASSUME NEW d, NEW x, IsInjective(d)
  PROVE  Cardinality({i \in DOMAIN d : d[i] = x})
           = IF x \in Range(d) THEN 1 ELSE 0
<1> DEFINE I == {i \in DOMAIN d : d[i] = x}
<1>1. CASE x \in Range(d)
  <2>1. PICK i \in DOMAIN d : d[i] = x
    BY <1>1 DEF Range
  <2>2. I = {i}
    BY <2>1 DEF IsInjective
  <2> QED BY <1>1, <2>2, FS_Singleton
<1>2. CASE x \notin Range(d)
  <2>1. I = {}
    BY <1>2 DEF Range
  <2> QED BY <1>2, <2>1, FS_EmptySet
<1> QED BY <1>1, <1>2

(* The last page, as hasNextPage sees it, ends no earlier than the list.   *)
LEMMA LastPageCovers ==
  ASSUME NEW p \in Nat, NEW l \in Nat \ {0}, NEW t \in Nat,
         ~(p < (t + l - 1) \div l)
  PROVE  t <= p * l
<1> DEFINE q == (t + l - 1) \div l
           m == (t + l - 1) % l
<1>1. q \in Int /\ m \in 0..(l - 1) /\ t + l - 1 = l * q + m
  OBVIOUS
<1>2. q <= p
  BY <1>1
<1> HIDE DEF q, m
<1>3. l * q <= l * p
  BY <1>1, <1>2
<1>4. l * q \in Int /\ l * p \in Int /\ l * p = p * l
  BY <1>1
<1> QED BY <1>1, <1>3, <1>4

LEMMA Cursors ==
  ASSUME TypeOK
  PROVE  /\ limit \in Nat \ {0}
         /\ skip \in Nat /\ cursor \in Nat
         /\ page * limit = skip + limit
         /\ at = "count" => cursor = skip + limit /\ cursor = page * limit
         /\ at # "count" => cursor = skip
<1>1. limit \in Nat \ {0} /\ page - 1 \in Nat
  BY PagesAssumption DEF TypeOK
<1>2. skip \in Nat
  BY <1>1 DEF skip
<1>3. page * limit = (page - 1) * limit + limit
  BY <1>1 DEF TypeOK
<1> QED BY <1>1, <1>2, <1>3 DEF cursor, skip

-----------------------------------------------------------------------------
(* What a change of the list does to those who keep their place.           *)

Steadies ==
  /\ listed' \in Seq(Restaurant) /\ IsInjective(listed')
  /\ steady' \subseteq steady /\ steady' \subseteq Range(listed')
  /\ shrunk' \in BOOLEAN /\ (shrunk => shrunk')
  /\ grown' \in BOOLEAN /\ (grown => grown')
  /\ \A x \in steady' : \A j \in Place(x) : \A k \in Place(x)' :
       /\ ~grown' /\ j <= cursor => k <= cursor
       /\ ~shrunk' /\ j > cursor => k > cursor
  /\ \A x \in steady' : Place(x) # {}
  /\ at # "done"
  /\ UNCHANGED <<limit, page, at, data, served>>

(* PositionOf finds the restaurant. *)
LEMMA PositionIs ==
  ASSUME TypeOK, ListInv, NEW x \in Range(listed)
  PROVE  PositionOf(x) \in 1..Len(listed) /\ listed[PositionOf(x)] = x
<1>1. \E i \in DOMAIN listed : listed[i] = x
  BY DEF Range
<1> QED BY <1>1 DEF PositionOf, TypeOK

(* Range, by positions. *)
LEMMA InRange ==
  ASSUME NEW S, NEW s \in Seq(S), NEW x
  PROVE  x \in Range(s) <=> \E j \in 1..Len(s) : s[j] = x
  BY DEF Range

LEMMA SteadyPlace ==
  ASSUME TypeOK, ListInv
  PROVE  \A x \in steady : Place(x) # {}
  BY InRange DEF TypeOK, ListInv, Place

LEMMA ShowSteadies ==
  ASSUME Inv, NEW x \in Restaurant, NEW i \in 1..(Len(listed) + 1),
         Show(x, i)
  PROVE  Steadies
<1> DEFINE n == Len(listed)
<1>1. /\ listed \in Seq(Restaurant) /\ n \in Nat
      /\ IsInjective(listed) /\ steady \subseteq Range(listed)
      /\ grown \in BOOLEAN /\ shrunk \in BOOLEAN
      /\ cursor \in Nat
  BY Cursors DEF Inv, TypeOK, ListInv
<1>2. /\ x \notin Range(listed) /\ listed' = InsertAt(listed, i, x)
      /\ steady' = steady
      /\ at # "done" /\ UNCHANGED <<limit, page, at, data, served>>
  BY DEF Show, Change
<1>0. /\ shrunk' \in BOOLEAN /\ (shrunk => shrunk')
      /\ grown' \in BOOLEAN /\ (grown => grown')
      /\ ~grown' => ~(i <= cursor)
  BY <1>1, Zenon DEF Show, Change
<1>3. \A j \in 1..n : listed[j] # x
  BY <1>1, <1>2, InRange
<1>4. /\ listed' \in Seq(Restaurant) /\ Len(listed') = n + 1
      /\ IsInjective(listed')
      /\ \A j \in 1..n : listed'[DownFrom(i, j)] = listed[j]
      /\ \A j \in 1..n, k \in 1..(n + 1) :
           listed'[k] = listed[j] => k = DownFrom(i, j)
  <2>1. listed' \in Seq(Restaurant) /\ With(listed', listed, i, x)
    BY <1>1, <1>2, Inserted
  <2>2. GapAt(listed', listed, i, x)
    BY <1>1, <1>2, <1>3, InsertedPlaces
  <2> QED BY <2>1, <2>2 DEF With, GapAt
<1>5. steady' \subseteq Range(listed')
  <2> SUFFICES ASSUME NEW y \in Range(listed) PROVE y \in Range(listed')
    BY <1>1, <1>2
  <2>1. PICK j \in 1..n : listed[j] = y
    BY <1>1, InRange
  <2>2. DownFrom(i, j) \in 1..(n + 1)
    BY <1>1 DEF DownFrom
  <2> QED BY <1>1, <1>4, <2>1, <2>2, InRange
<1>6. ASSUME NEW y, NEW j \in Place(y), NEW k \in Place(y)'
      PROVE  /\ ~grown' /\ j <= cursor => k <= cursor
             /\ ~shrunk' /\ j > cursor => k > cursor
  <2>1. j \in 1..n /\ k = DownFrom(i, j)
    BY <1>4, <1>6 DEF Place
  <2> QED BY <1>1, <1>0, <2>1 DEF DownFrom
<1> QED
  BY <1>1, <1>2, <1>0, <1>4, <1>5, <1>6, SteadyPlace DEF Steadies, Inv

LEMMA HideSteadies ==
  ASSUME Inv, NEW x \in Restaurant, Hide(x)
  PROVE  Steadies
<1> DEFINE n == Len(listed)
<1>1. /\ listed \in Seq(Restaurant) /\ n \in Nat
      /\ IsInjective(listed) /\ steady \subseteq Range(listed)
      /\ grown \in BOOLEAN /\ shrunk \in BOOLEAN
      /\ cursor \in Nat
  BY Cursors DEF Inv, TypeOK, ListInv
<1>2. PICK p \in 1..n : p = PositionOf(x) /\ listed[p] = x
  BY PositionIs DEF Hide, Inv
<1>3. /\ listed' = RemoveAt(listed, p)
      /\ steady' = steady \ {x}
      /\ at # "done" /\ UNCHANGED <<limit, page, at, data, served>>
  BY <1>1, <1>2 DEF Hide, Change
<1>0. /\ grown' \in BOOLEAN /\ (grown => grown')
      /\ shrunk' \in BOOLEAN /\ (shrunk => shrunk')
      /\ ~shrunk' => ~(p <= cursor)
  BY <1>1, <1>2, Zenon DEF Hide, Change
<1>4. /\ listed' \in Seq(Restaurant) /\ Len(listed') = n - 1
      /\ IsInjective(listed')
      /\ \A k \in 1..(n - 1) : listed'[k] # listed[p]
      /\ \A j \in 1..n : j # p =>
           listed'[UpFrom(p, j)] = listed[j]
      /\ \A j \in 1..n, k \in 1..(n - 1) :
           listed'[k] = listed[j] => k = UpFrom(p, j)
  <2>1. listed' \in Seq(Restaurant) /\ Without(listed', listed, p)
    BY <1>1, <1>3, Removed
  <2>2. ClosedAt(listed', listed, p)
    BY <1>1, <1>3, RemovedPlaces
  <2> QED BY <2>1, <2>2 DEF Without, ClosedAt
<1>5. steady' \subseteq Range(listed')
  <2> SUFFICES ASSUME NEW y \in Range(listed), y # x
               PROVE  y \in Range(listed')
    BY <1>1, <1>3
  <2>1. PICK j \in 1..n : listed[j] = y
    BY <1>1, InRange
  <2>2. j # p
    BY <1>2, <2>1
  <2>3. UpFrom(p, j) \in 1..(n - 1)
    BY <1>1, <2>2 DEF UpFrom
  <2> QED BY <1>1, <1>4, <2>1, <2>2, <2>3, InRange
<1>6. ASSUME NEW y, NEW j \in Place(y), NEW k \in Place(y)'
      PROVE  /\ ~grown' /\ j <= cursor => k <= cursor
             /\ ~shrunk' /\ j > cursor => k > cursor
  <2>1. /\ j \in 1..n /\ k = UpFrom(p, j)
        /\ j # p
    BY <1>4, <1>6 DEF Place
  <2> QED BY <1>1, <1>0, <2>1 DEF UpFrom
<1> QED
  BY <1>1, <1>3, <1>0, <1>4, <1>5, <1>6, SteadyPlace DEF Steadies, Inv

LEMMA MoveSteadies ==
  ASSUME Inv, NEW x \in Restaurant, NEW i \in DOMAIN listed, Move(x, i)
  PROVE  Steadies
<1> DEFINE n == Len(listed)
           rest == RemoveAt(listed, PositionOf(x))
<1>1. /\ listed \in Seq(Restaurant) /\ n \in Nat /\ i \in 1..n
      /\ IsInjective(listed) /\ steady \subseteq Range(listed)
      /\ grown \in BOOLEAN /\ shrunk \in BOOLEAN
      /\ cursor \in Nat
  BY Cursors DEF Inv, TypeOK, ListInv
<1>2. PICK p \in 1..n : p = PositionOf(x) /\ listed[p] = x
  BY PositionIs DEF Move, Inv
<1>3. /\ listed' = InsertAt(rest, i, x)
      /\ steady' = steady \ {x}
      /\ at # "done" /\ UNCHANGED <<limit, page, at, data, served>>
  BY <1>1, <1>2 DEF Move, Change
<1>0. /\ grown' \in BOOLEAN /\ (grown => grown')
      /\ ~grown' => ~(p > cursor /\ i <= cursor)
      /\ shrunk' \in BOOLEAN /\ (shrunk => shrunk')
      /\ ~shrunk' => ~(p <= cursor /\ i > cursor)
  BY <1>1, <1>2, Zenon DEF Move, Change
<1>4. /\ rest \in Seq(Restaurant) /\ Len(rest) = n - 1
      /\ IsInjective(rest)
      /\ \A k \in 1..(n - 1) : rest[k] # x
      /\ \A j \in 1..n : j # p =>
           rest[UpFrom(p, j)] = listed[j]
      /\ \A j \in 1..n, k \in 1..(n - 1) :
           rest[k] = listed[j] => k = UpFrom(p, j)
  <2>1. rest \in Seq(Restaurant) /\ Without(rest, listed, p)
    BY <1>1, <1>2, Removed
  <2>2. ClosedAt(rest, listed, p)
    BY <1>1, <1>2, RemovedPlaces
  <2> HIDE DEF rest
  <2> QED BY <1>2, <2>1, <2>2 DEF Without, ClosedAt
<1> HIDE DEF rest
<1>5. /\ listed' \in Seq(Restaurant) /\ Len(listed') = n
      /\ IsInjective(listed')
      /\ listed'[i] = x
      /\ \A l \in 1..(n - 1) : listed'[DownFrom(i, l)] = rest[l]
      /\ \A l \in 1..(n - 1), k \in 1..n :
           listed'[k] = rest[l] => k = DownFrom(i, l)
  <2>1. i \in 1..(Len(rest) + 1) /\ Len(rest) + 1 = n
        /\ 1..Len(rest) = 1..(n - 1)
    BY <1>1, <1>4
  <2>2. \A k \in 1..Len(rest) : rest[k] # x
    BY <1>4, <2>1
  <2>3. listed' \in Seq(Restaurant) /\ With(listed', rest, i, x)
    BY <1>3, <1>4, <2>1, Inserted
  <2>4. GapAt(listed', rest, i, x)
    BY <1>3, <1>4, <2>1, <2>2, InsertedPlaces
  <2> QED BY <1>4, <2>1, <2>3, <2>4 DEF With, GapAt
\* Where the row of another restaurant is now.
<1>6. ASSUME NEW j \in 1..n, j # p
      PROVE  LET l == UpFrom(p, j)
                 k == DownFrom(i, l)
             IN  /\ l \in 1..(n - 1) /\ k \in 1..n
                 /\ listed'[k] = listed[j]
                 /\ \A m \in 1..n : listed'[m] = listed[j] => m = k
  <2> DEFINE l == UpFrom(p, j)
             k == DownFrom(i, l)
  <2>1. l \in 1..(n - 1)
    BY <1>1, <1>6 DEF UpFrom
  <2>2. rest[l] = listed[j]
    BY <1>4, <1>6
  <2> HIDE DEF l
  <2>3. k \in 1..n /\ listed'[k] = rest[l]
    BY <1>1, <1>5, <2>1 DEF DownFrom
  <2>4. \A m \in 1..n : listed'[m] = rest[l] => m = k
    BY <1>5, <2>1
  <2> QED BY <2>1, <2>2, <2>3, <2>4 DEF l
<1>7. steady' \subseteq Range(listed')
  <2> SUFFICES ASSUME NEW y \in Range(listed), y # x
               PROVE  y \in Range(listed')
    BY <1>1, <1>3
  <2>1. PICK j \in 1..n : listed[j] = y
    BY <1>1, InRange
  <2>2. j # p
    BY <1>2, <2>1
  <2>3. \E k \in 1..n : listed'[k] = y
    BY <1>6, <2>1, <2>2
  <2> QED BY <1>5, <2>3, InRange
<1>8. ASSUME NEW y \in steady', NEW j \in Place(y), NEW k \in Place(y)'
      PROVE  /\ ~grown' /\ j <= cursor => k <= cursor
             /\ ~shrunk' /\ j > cursor => k > cursor
  <2> DEFINE l == UpFrom(p, j)
  <2>1. /\ j \in 1..n /\ k \in 1..n
        /\ listed[j] = y /\ listed'[k] = y /\ j # p
    BY <1>2, <1>3, <1>5, <1>8 DEF Place
  <2>2. k = DownFrom(i, l)
    BY <1>6, <2>1
  <2> QED BY <1>1, <1>0, <2>1, <2>2 DEF UpFrom, DownFrom
<1> QED
  BY <1>1, <1>3, <1>0, <1>5, <1>7, <1>8, SteadyPlace DEF Steadies, Inv

-----------------------------------------------------------------------------
LEMMA ChangeStep ==
  ASSUME Inv, Steadies
  PROVE  Inv'
<1> USE DEF Steadies
<1>1. TypeOK'
  BY DEF Inv, TypeOK
<1>2. ListInv'
  BY DEF Inv, ListInv
<1>3. cursor' = cursor /\ cursor \in Nat
  BY Cursors DEF Inv, cursor
<1>4. \A x : Shown(x)' <=> Shown(x)
  BY DEF Shown
<1>5. OnceInv'
  <2> SUFFICES ASSUME ~grown', NEW x \in steady'
               PROVE  /\ served'[x] <= 1
                      /\ at' = "count" /\ x \in Range(data') => served'[x] = 0
                      /\ at' # "done" /\ Shown(x)' =>
                           \A k \in Place(x)' : k <= cursor'
    BY DEF OnceInv
  <2>1. /\ served[x] <= 1
        /\ at = "count" /\ x \in Range(data) => served[x] = 0
        /\ Shown(x) => \A j \in Place(x) : j <= cursor
    BY DEF Inv, OnceInv
  <2>2. PICK j \in Place(x) : TRUE
    OBVIOUS
  <2>3. ASSUME Shown(x)', NEW k \in Place(x)'
        PROVE  k <= cursor
    BY <1>4, <2>1, <2>2, <2>3
  <2> QED BY <1>3, <2>1, <2>3
<1>6. MissInv'
  <2> SUFFICES ASSUME ~shrunk', NEW x \in steady'
               PROVE  /\ \/ Shown(x)'
                         \/ at' # "done" /\ \A k \in Place(x)' : k > cursor'
                      /\ at' = "count" /\ Len(data') < limit'
                           /\ (data' # <<>> \/ page' = 1) => Shown(x)'
    BY DEF MissInv
  <2>1. /\ Shown(x) \/ \A j \in Place(x) : j > cursor
        /\ at = "count" /\ Len(data) < limit /\ (data # <<>> \/ page = 1)
             => Shown(x)
    BY DEF Inv, MissInv
  <2>2. PICK j \in Place(x) : TRUE
    OBVIOUS
  <2>3. ASSUME ~Shown(x), NEW k \in Place(x)'
        PROVE  k > cursor
    BY <2>1, <2>2, <2>3
  <2> QED BY <1>3, <1>4, <2>1, <2>3
<1> QED BY <1>1, <1>2, <1>5, <1>6 DEF Inv

LEMMA QueryStep ==
  ASSUME Inv, Query
  PROVE  Inv'
<1> USE DEF Inv, TypeOK
<1>1. /\ at = "ask" /\ at' = "count"
      /\ UNCHANGED <<limit, page, served, listed, steady, shrunk, grown>>
  BY DEF Query, listVars
<1>2. limit \in Nat \ {0} /\ skip \in Nat /\ cursor = skip
  BY <1>1, Cursors
<1>3. /\ data' \in Seq(Restaurant)
      /\ Len(data') = IF skip + limit <= Len(listed) THEN limit
                      ELSE IF skip <= Len(listed) THEN Len(listed) - skip
                      ELSE 0
      /\ \A i \in 1..Len(data') :
           skip + i \in 1..Len(listed) /\ data'[i] = listed[skip + i]
  <2>1. data' \in Seq(Restaurant) /\ PageAt(data', listed, skip, limit)
    BY <1>2, PageOf DEF Query
  <2> QED BY <2>1 DEF PageAt
<1>4. TypeOK'
  BY <1>1, <1>3
<1>5. cursor' = skip + limit
  <2>1. page * limit = skip + limit
    BY Cursors
  <2> QED BY <1>1, <2>1 DEF cursor
<1>6. \A j, k \in 1..Len(listed) : listed[j] = listed[k] => j = k
  BY DEF ListInv, IsInjective
<1>7. IsInjective(data')
  <2>1. ASSUME NEW i \in 1..Len(data'), NEW k \in 1..Len(data'),
               data'[i] = data'[k]
        PROVE  i = k
    <3>1. /\ skip + i \in 1..Len(listed) /\ data'[i] = listed[skip + i]
          /\ skip + k \in 1..Len(listed) /\ data'[k] = listed[skip + k]
      BY <1>3, <2>1
    <3>2. skip + i = skip + k
      BY <1>6, <2>1, <3>1
    <3> QED BY <1>2, <2>1, <3>2
  <2>2. DOMAIN data' = 1..Len(data')
    BY <1>3
  <2> QED BY <2>1, <2>2, Zenon DEF IsInjective
<1>8. ListInv'
  BY <1>1, <1>7 DEF ListInv
<1>9. ASSUME NEW x \in Range(data')
      PROVE  \A j \in Place(x) : j > skip /\ j <= skip + limit
  <2>1. PICK i \in 1..Len(data') : data'[i] = x
    BY <1>3, InRange
  <2>2. skip + i \in 1..Len(listed) /\ listed[skip + i] = x
    BY <1>3, <2>1
  <2>3. Len(data') <= limit
    BY <1>2, <1>3
  <2>4. i <= limit
    BY <1>2, <1>3, <2>1, <2>3
  <2> QED BY <1>2, <1>6, <2>2, <2>4 DEF Place
<1>10. \A x \in steady : Place(x) # {}
  BY SteadyPlace
<1>11. \A x : Place(x)' = Place(x)
  BY <1>1 DEF Place
<1>12. OnceInv'
  <2> SUFFICES ASSUME ~grown, NEW x \in steady
               PROVE  /\ served[x] <= 1
                      /\ x \in Range(data') => served[x] = 0
                      /\ Shown(x)' => \A j \in Place(x) : j <= skip + limit
    BY <1>1, <1>5, <1>11 DEF OnceInv
  <2>1. served[x] <= 1 /\ (served[x] > 0 => \A j \in Place(x) : j <= skip)
    BY <1>1, <1>2 DEF OnceInv, Shown
  <2>2. x \in Range(data') => ~(served[x] > 0)
    BY <1>2, <1>9, <1>10, <2>1 DEF Place
  <2>3. served[x] \in Nat
    OBVIOUS
  <2>4. Shown(x)' => served[x] > 0 \/ x \in Range(data')
    BY <1>1 DEF Shown
  <2>5. ASSUME served[x] > 0, NEW j \in Place(x)
        PROVE  j <= skip + limit
    BY <1>2, <2>1, <2>5 DEF Place
  <2> QED BY <1>9, <2>1, <2>2, <2>3, <2>4, <2>5
<1>13. MissInv'
  <2> SUFFICES ASSUME ~shrunk, NEW x \in steady
               PROVE  /\ Shown(x)' \/ \A j \in Place(x) : j > skip + limit
                      /\ Len(data') < limit /\ (data' # <<>> \/ page = 1)
                           => Shown(x)'
    BY <1>1, <1>5, <1>11 DEF MissInv
  <2>1. served[x] > 0 \/ \A j \in Place(x) : j > skip
    BY <1>1, <1>2 DEF MissInv, Shown
  <2>2. served[x] > 0 \/ x \in Range(data') => Shown(x)'
    BY <1>1 DEF Shown
  <2>3. ASSUME NEW j \in Place(x), j > skip, j <= skip + limit
        PROVE  x \in Range(data')
    <3>1. j \in 1..Len(listed) /\ listed[j] = x
      BY <2>3 DEF Place
    <3>2. Len(listed) \in Nat /\ Len(data') \in Nat
      BY <1>3
    <3> HIDE DEF Inv, TypeOK
    <3>3. j - skip \in 1..Len(data')
      BY <1>2, <1>3, <2>3, <3>1, <3>2
    <3>4. skip + (j - skip) = j
      BY <1>2, <3>1
    <3>5. data'[j - skip] = x
      BY <1>3, <3>1, <3>3, <3>4
    <3> QED BY <1>3, <3>3, <3>5, InRange
  <2>4. Shown(x)' \/ \A j \in Place(x) : j > skip + limit
    BY <1>2, <2>1, <2>2, <2>3 DEF Place
  <2>5. ASSUME Len(data') < limit, data' # <<>> \/ page = 1
        PROVE  Shown(x)'
    <3>1. Len(listed) < skip + limit
      BY <1>2, <1>3, <2>5
    <3>2. PICK j \in Place(x) : TRUE
      BY <1>10
    <3>3. j <= skip + limit
      BY <1>2, <3>1 DEF Place
    <3> QED BY <1>2, <2>4, <3>3 DEF Place
  <2> QED BY <2>4, <2>5
<1> QED BY <1>4, <1>8, <1>12, <1>13

LEMMA AnswerStep ==
  ASSUME Inv, Answer
  PROVE  Inv'
<1> USE DEF Inv, TypeOK
<1>1. /\ at = "count"
      /\ UNCHANGED <<limit, data, listed, steady, shrunk, grown>>
  BY DEF Answer, listVars
<1>2. /\ limit \in Nat \ {0} /\ skip \in Nat
      /\ cursor = skip + limit /\ cursor = page * limit /\ cursor \in Nat
  BY <1>1, Cursors
<1>3. \A x \in Restaurant :
        served'[x] = served[x] + (IF x \in Range(data) THEN 1 ELSE 0)
  <2>1. served' = [x \in Restaurant |->
                     served[x]
                       + Cardinality({i \in DOMAIN data : data[i] = x})]
    BY DEF Answer
  <2>2. \A x \in Restaurant :
          Cardinality({i \in DOMAIN data : data[i] = x})
            = IF x \in Range(data) THEN 1 ELSE 0
    BY TimesOnPage DEF ListInv
  <2> QED BY <2>1, <2>2
<1>4. served' \in [Restaurant -> Nat]
  <2>1. served' = [x \in Restaurant |-> served'[x]]
    BY DEF Answer
  <2> QED BY <1>3, <2>1
<1>5. \/ page' = page + 1 /\ at' = "ask"
      \/ page' = page /\ at' = "done"
  BY DEF Answer
<1>6. TypeOK'
  BY <1>1, <1>4, <1>5
<1>7. ListInv'
  BY <1>1 DEF ListInv
<1>8. at' = "ask" => cursor' = cursor
  <2>1. at' = "ask" => cursor' = (page' - 1) * limit'
    BY DEF cursor
  <2>2. at' = "ask" => page' = page + 1
    BY <1>5
  <2> QED BY <1>1, <1>2, <2>1, <2>2
<1>9. \A x \in Restaurant : Shown(x)' <=> Shown(x)
  <2>1. \A x \in Restaurant : Shown(x)' <=> served'[x] > 0
    BY <1>5 DEF Shown
  <2>2. \A x \in Restaurant : Shown(x) <=> served[x] > 0 \/ x \in Range(data)
    BY <1>1 DEF Shown
  <2> QED BY <1>3, <2>1, <2>2
<1>10. \A x : Place(x)' = Place(x)
  BY <1>1 DEF Place
<1>11. OnceInv'
  <2> SUFFICES ASSUME ~grown, NEW x \in steady
               PROVE  /\ served'[x] <= 1
                      /\ at' = "ask" /\ Shown(x)' =>
                           \A j \in Place(x) : j <= cursor'
    BY <1>1, <1>5, <1>10 DEF OnceInv
  <2>1. /\ served[x] <= 1
        /\ x \in Range(data) => served[x] = 0
        /\ Shown(x) => \A j \in Place(x) : j <= cursor
    BY <1>1 DEF OnceInv
  <2>2. served'[x] <= 1
    BY <1>3, <2>1
  <2> QED BY <1>8, <1>9, <2>1, <2>2
<1>12. ASSUME at' = "done", ~shrunk, NEW x \in steady
       PROVE  Shown(x)
  <2>1. PICK total \in {Len(listed)} \cup
               (IF Len(data) < limit /\ (data # <<>> \/ page = 1)
                THEN {skip + Len(data)} ELSE {}) :
          ~hasNextPage(total)
    BY <1>12 DEF Answer
  <2>2. /\ Shown(x) \/ \A j \in Place(x) : j > cursor
        /\ Len(data) < limit /\ (data # <<>> \/ page = 1) => Shown(x)
    BY <1>1, <1>12 DEF MissInv
  <2>3. CASE Len(data) < limit /\ (data # <<>> \/ page = 1)
    BY <2>2, <2>3
  <2>4. CASE total = Len(listed)
    <3>1. Len(listed) <= page * limit
      <4>1. ~(page < (Len(listed) + limit - 1) \div limit)
        BY <2>1, <2>4 DEF hasNextPage, totalPages
      <4>2. page \in Nat /\ Len(listed) \in Nat
        OBVIOUS
      <4> HIDE DEF Inv, TypeOK
      <4> QED BY <1>2, <4>1, <4>2, LastPageCovers
    <3>2. \A j \in Place(x) : ~(j > cursor)
      BY <1>2, <3>1 DEF Place
    <3>3. Place(x) # {}
      BY SteadyPlace
    <3> QED BY <2>2, <3>2, <3>3
  <2> QED BY <2>1, <2>3, <2>4
<1>13. MissInv'
  <2> SUFFICES ASSUME ~shrunk, NEW x \in steady
               PROVE  Shown(x)' \/ (at' # "done" /\
                                     \A j \in Place(x) : j > cursor')
    BY <1>1, <1>5, <1>10 DEF MissInv
  <2>1. Shown(x) \/ \A j \in Place(x) : j > cursor
    BY <1>1 DEF MissInv
  <2> QED BY <1>5, <1>8, <1>9, <1>12, <2>1
<1> QED BY <1>6, <1>7, <1>11, <1>13

-----------------------------------------------------------------------------
LEMMA InitInv == Init => Inv
<1> SUFFICES ASSUME Init PROVE Inv
  OBVIOUS
<1>1. PICK n \in 0..Cardinality(Restaurant) :
        listed \in [1..n -> Restaurant] /\ IsInjective(listed)
  BY DEF Init
<1>2. n \in Nat
  BY PagesAssumption, FS_CardinalityType
<1>3. listed \in Seq(Restaurant)
  BY <1>1, <1>2
<1>4. steady \subseteq Restaurant
  BY <1>1 DEF Init, Range
<1>5. TypeOK
  <2>1. page \in Nat \ {0} /\ data \in Seq(Restaurant)
    BY DEF Init
  <2>2. served \in [Restaurant -> Nat]
    BY DEF Init
  <2> QED BY <1>3, <1>4, <2>1, <2>2 DEF Init, TypeOK
<1>6. ListInv
  BY <1>1 DEF Init, ListInv, IsInjective
<1>7. cursor = 0
  BY <1>5, Cursors DEF Init, skip
<1>8. OnceInv
  BY <1>4 DEF Init, OnceInv, Shown
<1>9. MissInv
  BY <1>3, <1>7 DEF Init, MissInv, Place
<1> QED BY <1>5, <1>6, <1>8, <1>9 DEF Inv

LEMMA NextInv == Inv /\ [Next]_vars => Inv'
<1> SUFFICES ASSUME Inv, [Next]_vars PROVE Inv'
  OBVIOUS
<1>1. CASE Query
  BY <1>1, QueryStep
<1>2. CASE Answer
  BY <1>2, AnswerStep
<1>3. ASSUME NEW x \in Restaurant, Hide(x)
      PROVE  Inv'
  BY <1>3, HideSteadies, ChangeStep
<1>4. ASSUME NEW x \in Restaurant, NEW i \in 1..(Len(listed) + 1),
             Show(x, i)
      PROVE  Inv'
  BY <1>4, ShowSteadies, ChangeStep
<1>5. ASSUME NEW x \in Restaurant, NEW i \in DOMAIN listed, Move(x, i)
      PROVE  Inv'
  BY <1>5, MoveSteadies, ChangeStep
<1>6. CASE UNCHANGED vars
  BY <1>6
  DEF vars, Inv, TypeOK, ListInv, OnceInv, MissInv, Shown, Place, cursor
<1> QED BY <1>1, <1>2, <1>3, <1>4, <1>5, <1>6 DEF Next

(***************************************************************************)
(* The invariant holds in every reachable state, for lists, pages and      *)
(* numbers of changes of any size.                                         *)
(***************************************************************************)
THEOREM Invariance == Spec => []Inv
  BY InitInv, NextInv, PTL DEF Spec

(***************************************************************************)
(* A finished walk has shown every restaurant that stayed in its place,    *)
(* unless a row left the pages already read.                               *)
(***************************************************************************)
THEOREM WalkMissesNothing == Spec => []NothingMissed
<1>1. Inv => NothingMissed
  BY DEF Inv, TypeOK, MissInv, Shown, NothingMissed
<1> QED BY <1>1, Invariance, PTL

(***************************************************************************)
(* No such restaurant is shown twice, unless a row got in before the       *)
(* cursor.                                                                 *)
(***************************************************************************)
THEOREM WalkRepeatsNothing == Spec => []NothingRepeated
<1>1. Inv => NothingRepeated
  BY DEF Inv, OnceInv, NothingRepeated
<1> QED BY <1>1, Invariance, PTL
=============================================================================
