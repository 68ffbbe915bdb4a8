-------------------------- MODULE OrderPricingProofs --------------------------
(***************************************************************************)
(* Proofs about OrderPricing, for any menus, prices, quantities and number *)
(* of items: an order is stored as it was asked for, at the sum of its     *)
(* lines, and every line has a price that was on offer meanwhile.          *)
(***************************************************************************)
EXTENDS OrderPricing, TLAPS

Line ==
  [menuId : Menu, quantity : Quantity, unitPrice : Price, subtotal : Nat]

TypeOK ==
  /\ menus \in [Menu -> MenuRow \cup {Null}]
  /\ items \in Seq(Item)
  /\ at \in {"menu", "save", "stored", "rejected", "failed"}
  /\ orderItems \in Seq(Line)
  /\ totalAmount \in Nat

(* The lines so far are those of the first items, and the loop runs until  *)
(* there is one for every item.                                            *)
LoopInv ==
  /\ Len(orderItems) <= Len(items)
  /\ at = "menu" => Len(orderItems) < Len(items)
  /\ at = "save" => Len(orderItems) = Len(items)
  /\ \A i \in 1..Len(orderItems) :
       /\ orderItems[i].menuId = items[i].menuId
       /\ orderItems[i].quantity = items[i].quantity

Cost(line) == line.unitPrice * line.quantity

(* The defining equation of SumUpTo. *)
IsSum(f, lines) ==
  f = [n \in 0..Len(lines) |->
         IF n = 0 THEN 0 ELSE f[n - 1] + Cost(lines[n])]

(***************************************************************************)
(* The running total is the sum of the lines: there is a function that     *)
(* adds the lines up, and every such function ends in totalAmount.  Stated *)
(* of all of them, since nothing else says that there is only one.         *)
(***************************************************************************)
TotalInv ==
  /\ \E f : IsSum(f, orderItems)
  /\ \A f : IsSum(f, orderItems) => f[Len(orderItems)] = totalAmount

(* Whatever is on offer now was on offer, and so was every price used. *)
OfferInv ==
  /\ Offers(menus) \subseteq offered
  /\ \A i \in 1..Len(orderItems) :
       <<orderItems[i].menuId, orderItems[i].unitPrice>> \in offered

(* The stored order is the one the loop made. *)
StoredInv ==
  order # Null =>
    /\ at = "stored"
    /\ Len(orderItems) = Len(items)
    /\ order = [totalAmount |-> totalAmount, items |-> orderItems]

Inv == TypeOK /\ LoopInv /\ TotalInv /\ OfferInv /\ StoredInv

-----------------------------------------------------------------------------
(* SumUpTo(lines) satisfies its equation, if anything does. *)
LEMMA SumEquation ==
  ASSUME NEW lines, \E f : IsSum(f, lines)
  PROVE  IsSum(SumUpTo(lines), lines)
  BY DEF IsSum, SumUpTo, Cost

(* A line more extends the sums by one, and leaves the others.             *)
LEMMA SumExtends ==
  ASSUME NEW lines \in Seq(Line), NEW line \in Line, NEW total \in Nat,
         \E f : IsSum(f, lines),
         \A f : IsSum(f, lines) => f[Len(lines)] = total
  PROVE  LET longer == Append(lines, line)
         IN  /\ \E f : IsSum(f, longer)
             /\ \A f : IsSum(f, longer) =>
                  f[Len(longer)] = total + Cost(line)
<1> DEFINE longer == Append(lines, line)
           k == Len(lines)
<1>1. /\ k \in Nat /\ Len(longer) = k + 1
      /\ longer[k + 1] = line
      /\ \A n \in 1..k : longer[n] = lines[n]
  OBVIOUS
<1> HIDE DEF longer, k
<1>2. PICK f : IsSum(f, lines)
  OBVIOUS
<1>3. f[k] = total
  BY <1>2 DEF k
<1> DEFINE g == [n \in 0..(k + 1) |->
                   IF n = k + 1 THEN total + Cost(line) ELSE f[n]]
<1>4. IsSum(g, longer)
  <2>1. ASSUME NEW n \in 0..(k + 1)
        PROVE  g[n] = IF n = 0 THEN 0 ELSE g[n - 1] + Cost(longer[n])
    <3>1. CASE n = k + 1
      BY <1>1, <1>3, <3>1
    <3>2. CASE n \in 0..k
      <4>1. f[n] = IF n = 0 THEN 0 ELSE f[n - 1] + Cost(lines[n])
        BY <1>2, <3>2 DEF IsSum, k
      <4> QED BY <1>1, <3>2, <4>1
    <3> QED BY <1>1, <3>1, <3>2
  <2> HIDE DEF g
  <2>2. g = [n \in 0..(k + 1) |-> g[n]]
    BY DEF g
  <2> QED BY <1>1, <2>1, <2>2 DEF IsSum
<1>5. ASSUME NEW h, IsSum(h, longer)
      PROVE  h[k + 1] = total + Cost(line)
  <2> DEFINE p == [n \in 0..k |-> h[n]]
  <2>1. \A n \in 0..(k + 1) :
          h[n] = IF n = 0 THEN 0 ELSE h[n - 1] + Cost(longer[n])
    BY <1>1, <1>5 DEF IsSum
  <2>2. IsSum(p, lines)
    <3>1. ASSUME NEW n \in 0..k
          PROVE  p[n] = IF n = 0 THEN 0 ELSE p[n - 1] + Cost(lines[n])
      BY <1>1, <2>1
    <3>2. p = [n \in 0..k |-> p[n]]
      OBVIOUS
    <3> HIDE DEF p
    <3> QED BY <3>1, <3>2 DEF IsSum, k
  <2>3. p[k] = total
    BY <2>2 DEF k
  <2>4. h[k] = total
    BY <1>1, <2>3
  <2> QED BY <1>1, <2>1, <2>4
<1> QED BY <1>1, <1>4, <1>5 DEF longer

(* No lines cost nothing. *)
LEMMA SumOfNone ==
  /\ \E f : IsSum(f, <<>>)
  /\ \A f : IsSum(f, <<>>) => f[Len(<<>>)] = 0
<1>1. Len(<<>>) = 0
  OBVIOUS
<1>2. IsSum([n \in 0..0 |-> 0], <<>>)
  BY <1>1 DEF IsSum
<1>3. ASSUME NEW f, IsSum(f, <<>>)
      PROVE  f[0] = 0
  BY <1>1, <1>3 DEF IsSum
<1> QED BY <1>1, <1>2, <1>3

-----------------------------------------------------------------------------
LEMMA InitInv == Init => Inv
<1> SUFFICES ASSUME Init PROVE Inv
  OBVIOUS
<1>1. items \in Seq(Item) /\ (items = <<>> <=> Len(items) = 0)
  <2>1. PICK n \in 0..MaxItems : items \in [1..n -> Item]
    BY DEF Init
  <2> QED BY <2>1, PricingAssumption
<1>2. TypeOK
  BY <1>1 DEF Init, TypeOK
<1>3. LoopInv
  BY <1>1 DEF Init, LoopInv
<1>4. TotalInv
  BY SumOfNone DEF Init, TotalInv
<1>5. OfferInv /\ StoredInv
  BY DEF Init, OfferInv, StoredInv
<1> QED BY <1>2, <1>3, <1>4, <1>5 DEF Inv

(***************************************************************************)
(* What pricing an item does, and leaves: one line more, for the next item *)
(* and at the price on offer, or the end of the request.                   *)
(***************************************************************************)
LEMMA PriceEffect ==
  ASSUME Inv, PriceItem
  PROVE  /\ UNCHANGED <<menus, items, order, offered, changes>>
         /\ \/ /\ at' = "rejected"
               /\ UNCHANGED <<orderItems, totalAmount>>
            \/ \E line \in Line :
                 /\ orderItems' = Append(orderItems, line)
                 /\ totalAmount' = totalAmount + Cost(line)
                 /\ line.menuId = NextItem.menuId
                 /\ line.quantity = NextItem.quantity
                 /\ <<line.menuId, line.unitPrice>> \in offered
                 /\ at' = IF Len(orderItems) + 1 = Len(items)
                          THEN "save" ELSE "menu"
<1> USE DEF Inv, TypeOK
<1>1. UNCHANGED <<menus, items, order, offered, changes>>
  BY DEF PriceItem
<1>2. CASE ~Found
  BY <1>1, <1>2 DEF PriceItem, Refuse
<1>3. CASE Found
  <2> DEFINE line == [menuId |-> NextItem.menuId,
                      quantity |-> NextItem.quantity,
                      unitPrice |-> Row.price,
                      subtotal |-> Row.price * NextItem.quantity]
  <2>1. NextItem \in Item
    BY DEF PriceItem, LoopInv, NextItem
  <2>2. Row \in MenuRow /\ Row.isAvailable
    BY <1>3, <2>1 DEF Row, Found, Item
  <2>3. Row.price \in Nat /\ NextItem.quantity \in Nat
    BY <2>1, <2>2, PricingAssumption DEF Item, MenuRow
  <2>4. Row.price * NextItem.quantity \in Nat
    BY <2>3
  <2>5. line \in Line
    BY <2>1, <2>2, <2>4 DEF Line, Item, MenuRow
  <2>6. <<NextItem.menuId, Row.price>> \in Offers(menus)
    BY <1>3, <2>1 DEF Offers, Row, Found, Item
  <2>7. <<line.menuId, line.unitPrice>> \in offered
    BY <2>6 DEF OfferInv
  <2>8. /\ orderItems' = Append(orderItems, line)
        /\ totalAmount' = totalAmount + Cost(line)
    BY <1>3 DEF PriceItem, AddLine, Cost
  <2>9. at' = IF Len(orderItems') = Len(items) THEN "save" ELSE "menu"
    BY <1>3 DEF PriceItem, AddLine
  <2>10. line.menuId = NextItem.menuId /\ line.quantity = NextItem.quantity
    OBVIOUS
  <2> HIDE DEF line
  <2>11. Len(orderItems') = Len(orderItems) + 1
    BY <2>5, <2>8
  <2> QED BY <1>1, <2>5, <2>7, <2>8, <2>9, <2>10, <2>11
<1> QED BY <1>2, <1>3

LEMMA NextInv == Inv /\ [Next]_vars => Inv'
<1> SUFFICES ASSUME Inv, [Next]_vars PROVE Inv'
  OBVIOUS
<1> USE DEF Inv
<1>1. CASE PriceItem
  <2>1. UNCHANGED <<menus, items, order, offered, changes>>
    BY <1>1, PriceEffect
  <2>2. at = "menu" /\ order = order' /\ (order # Null => FALSE)
    BY <1>1, <2>1 DEF PriceItem, StoredInv
  <2>3. CASE at' = "rejected" /\ UNCHANGED <<orderItems, totalAmount>>
    BY <2>1, <2>2, <2>3
    DEF TypeOK, LoopInv, TotalInv, OfferInv, StoredInv
  <2>4. ASSUME NEW line \in Line,
               orderItems' = Append(orderItems, line),
               totalAmount' = totalAmount + Cost(line),
               line.menuId = NextItem.menuId,
               line.quantity = NextItem.quantity,
               <<line.menuId, line.unitPrice>> \in offered,
               at' = IF Len(orderItems) + 1 = Len(items)
                     THEN "save" ELSE "menu"
        PROVE  Inv'
    <3> DEFINE k == Len(orderItems)
    <3>1. /\ orderItems \in Seq(Line) /\ k \in Nat /\ k < Len(items)
          /\ Len(orderItems') = k + 1 /\ orderItems'[k + 1] = line
          /\ \A i \in 1..k : orderItems'[i] = orderItems[i]
      BY <2>2, <2>4 DEF TypeOK, LoopInv
    <3>2. Cost(line) \in Nat
      <4>1. line.unitPrice \in Nat /\ line.quantity \in Nat
        BY PricingAssumption DEF Line
      <4> QED BY <4>1 DEF Cost
    <3>3. TypeOK'
      BY <2>1, <2>4, <3>1, <3>2 DEF TypeOK
    <3>4. LoopInv'
      BY <2>1, <2>4, <3>1 DEF LoopInv, NextItem, TypeOK
    <3>5. TotalInv'
      BY <2>4, <3>1, SumExtends DEF TotalInv, TypeOK
    <3>6. OfferInv'
      BY <2>1, <2>4, <3>1 DEF OfferInv
    <3>7. StoredInv'
      BY <2>2 DEF StoredInv
    <3> QED BY <3>3, <3>4, <3>5, <3>6, <3>7
  <2> QED BY <1>1, <2>3, <2>4, PriceEffect
<1>2. CASE SaveOrder
  BY <1>2
  DEF SaveOrder, TypeOK, LoopInv, TotalInv, OfferInv, StoredInv
<1>3. CASE Fail
  BY <1>3 DEF Fail, TypeOK, LoopInv, TotalInv, OfferInv, StoredInv
<1>4. ASSUME NEW m \in Menu, NEW row \in MenuRow \cup {Null},
             ChangeMenu(m, row)
      PROVE  Inv'
  BY <1>4 DEF ChangeMenu, TypeOK, LoopInv, TotalInv, OfferInv, StoredInv
<1>5. CASE UNCHANGED vars
  BY <1>5 DEF vars, TypeOK, LoopInv, TotalInv, OfferInv, StoredInv
<1> QED BY <1>1, <1>2, <1>3, <1>4, <1>5 DEF Next

-----------------------------------------------------------------------------
(* The invariant holds in every reachable state. *)
THEOREM Invariance == Spec => []Inv
  BY InitInv, NextInv, PTL DEF Spec

(***************************************************************************)
(* A stored order has the lines that were asked for, in order, and costs   *)
(* what they cost together, however many there are and whatever happens to *)
(* the menus between the awaits.                                           *)
(***************************************************************************)
THEOREM OrderAsAsked == Spec => []StoredAsAsked
<1>1. Inv => StoredAsAsked
  <2> SUFFICES ASSUME Inv, order # Null PROVE StoredAsAsked
    BY DEF StoredAsAsked
  <2>1. /\ order.items = orderItems /\ order.totalAmount = totalAmount
        /\ Len(orderItems) = Len(items)
    BY DEF Inv, StoredInv
  <2>2. items = [i \in DOMAIN orderItems |->
                   [menuId |-> orderItems[i].menuId,
                    quantity |-> orderItems[i].quantity]]
    <3>1. /\ DOMAIN orderItems = 1..Len(items)
          /\ items = [i \in 1..Len(items) |-> items[i]]
          /\ \A i \in 1..Len(items) : items[i] \in Item
      BY <2>1 DEF Inv, TypeOK
    <3>2. \A i \in 1..Len(items) :
            items[i] = [menuId |-> orderItems[i].menuId,
                        quantity |-> orderItems[i].quantity]
      BY <2>1, <3>1 DEF Inv, LoopInv, Item
    <3> QED BY <3>1, <3>2
  <2>3. totalAmount = SumUpTo(orderItems)[Len(orderItems)]
    BY SumEquation DEF Inv, TotalInv
  <2> QED BY <2>1, <2>2, <2>3 DEF StoredAsAsked
<1> QED BY <1>1, Invariance, PTL

(* Every price of a stored order was on offer while it was placed. *)
THEOREM PricesOffered == Spec => []PricesWereOffered
<1>1. Inv => PricesWereOffered
  <2> SUFFICES ASSUME Inv, order # Null PROVE PricesWereOffered
    BY DEF PricesWereOffered
  <2>1. order.items = orderItems /\ DOMAIN orderItems = 1..Len(orderItems)
    BY DEF Inv, StoredInv, TypeOK
  <2> QED BY <2>1 DEF PricesWereOffered, Inv, OfferInv
<1> QED BY <1>1, Invariance, PTL
=============================================================================
