---------------------------- MODULE OrderPricing ----------------------------
(***************************************************************************)
(* The first half of OrdersService.create: every item of the order is      *)
(* priced with an await of its own, then the order is saved with its       *)
(* lines.  Nothing in src changes the menus; whatever does may do so while *)
(* the loop runs.                                                          *)
(***************************************************************************)
EXTENDS Naturals, Sequences

CONSTANTS
  Menu,         \* menu ids of the restaurant
  Price,        \* prices
  Quantity,     \* quantities as the client sends them, counted in halves
  MaxAmount,    \* largest amount a decimal column holds, counted in halves
  MaxItems,     \* bound: items of the order
  MaxChanges,   \* bound: changes of menus while the request runs
  Null          \* a menu that does not exist, an order that is not stored

ASSUME PricingAssumption ==
  /\ Price \subseteq Nat /\ Quantity \subseteq Nat \ {0, 1}
  /\ MaxAmount \in Nat /\ MaxItems \in Nat /\ MaxChanges \in Nat

\* IsNumber and Min(1) let a fraction pass; the column is an integer.
Whole(quantity) == quantity % 2 = 0

Item == [menuId : Menu, quantity : Quantity]

MenuRow == [price : Price, isAvailable : BOOLEAN]

VARIABLES
  menus,         \* menus table: id -> row
  items,         \* dto.items
  at,            \* "menu" or "save", the awaits, or how the request ended
  orderItems, totalAmount,   \* the local variables of the loop
  order,         \* the stored order
  offered,       \* history: <<menu, price>> available since the request began
  changes        \* changes of menus, up to now

vars == <<menus, items, at, orderItems, totalAmount, order, offered, changes>>

Offers(table) ==
  {<<m, table[m].price>> :
     m \in {n \in Menu : table[n] # Null /\ table[n].isAvailable}}

-----------------------------------------------------------------------------
\* The menu row of the next item, and whether findOne returns it.
NextItem == items[Len(orderItems) + 1]
Row == menus[NextItem.menuId]
Found == Row # Null /\ Row.isAvailable

\* The item is priced and the loop goes on, or ends.
AddLine ==
  LET subtotal == Row.price * NextItem.quantity
  IN /\ orderItems' = Append(orderItems,
          [menuId |-> NextItem.menuId, quantity |-> NextItem.quantity,
           unitPrice |-> Row.price, subtotal |-> subtotal])
     /\ totalAmount' = totalAmount + subtotal
     /\ at' = IF Len(orderItems') = Len(items) THEN "save" ELSE "menu"

Refuse == at' = "rejected" /\ UNCHANGED <<orderItems, totalAmount>>

(* Mutants of PriceItem: isAvailable is not asked for; a menu that is not  *)
(* found ends the loop instead of the request.                             *)
PriceAnyItem ==
  /\ at = "menu"
  /\ IF Row # Null THEN AddLine ELSE Refuse
  /\ UNCHANGED <<menus, items, order, offered, changes>>

BreakAtMissing ==
  /\ at = "menu"
  /\ IF Found THEN AddLine
     ELSE at' = "save" /\ UNCHANGED <<orderItems, totalAmount>>
  /\ UNCHANGED <<menus, items, order, offered, changes>>

PriceItem ==
  /\ at = "menu"
  /\ IF Found THEN AddLine ELSE Refuse
  /\ UNCHANGED <<menus, items, order, offered, changes>>

(***************************************************************************)
(* save(order), one transaction.  The database refuses fractions, amounts  *)
(* beyond its columns and lines of a menu that is gone.                    *)
(***************************************************************************)
Storable ==
  /\ totalAmount <= MaxAmount
  /\ \A i \in DOMAIN orderItems :
       /\ Whole(orderItems[i].quantity)
       /\ orderItems[i].subtotal <= MaxAmount
       /\ menus[orderItems[i].menuId] # Null

SaveOrder ==
  /\ at = "save"
  /\ IF Storable
     THEN /\ at' = "stored"
          /\ order' = [totalAmount |-> totalAmount, items |-> orderItems]
     ELSE at' = "failed" /\ UNCHANGED order
  /\ UNCHANGED <<menus, items, orderItems, totalAmount, offered, changes>>

\* The awaited query throws.
Fail ==
  /\ at \in {"menu", "save"}
  /\ at' = "failed"
  /\ UNCHANGED <<menus, items, orderItems, totalAmount, order, offered,
                 changes>>

ChangeMenu(m, row) ==
  /\ at \in {"menu", "save"} /\ changes < MaxChanges
  /\ menus[m] \notin {Null, row}
  /\ menus' = [menus EXCEPT ![m] = row]
  /\ offered' = offered \cup Offers(menus')
  /\ changes' = changes + 1
  /\ UNCHANGED <<items, at, orderItems, totalAmount, order>>

Init ==
  /\ menus \in [Menu -> MenuRow \cup {Null}]
  /\ items \in UNION {[1..n -> Item] : n \in 0..MaxItems}
  /\ at = IF items = <<>> THEN "save" ELSE "menu"
  /\ orderItems = <<>> /\ totalAmount = 0
  /\ order = Null
  /\ offered = Offers(menus)
  /\ changes = 0

Next ==
  \/ PriceItem \/ SaveOrder \/ Fail
  \/ \E m \in Menu, row \in MenuRow \cup {Null} : ChangeMenu(m, row)

Spec == Init /\ [][Next]_vars

-----------------------------------------------------------------------------
(***************************************************************************)
(* What the first n lines of an order cost together.                       *)
(***************************************************************************)
SumUpTo(lines) ==
  LET sum[n \in 0..Len(lines)] ==
        IF n = 0 THEN 0
        ELSE sum[n - 1] + lines[n].unitPrice * lines[n].quantity
  IN  sum

(***************************************************************************)
(* A stored order has one line for every item that was asked for, in       *)
(* order, and costs what its lines cost together, whatever happened to the *)
(* menus between the awaits of the loop.                                   *)
(***************************************************************************)
StoredAsAsked ==
  order # Null =>
    /\ items = [i \in DOMAIN order.items |->
                  [menuId |-> order.items[i].menuId,
                   quantity |-> order.items[i].quantity]]
    /\ order.totalAmount = SumUpTo(order.items)[Len(order.items)]

(***************************************************************************)
(* order-item.entity.ts:16: a line has the price of the time of the order. *)
(* Every price was on offer while the request ran; two lines of one menu   *)
(* have the same price unless it changed in between.                       *)
(***************************************************************************)
PricesWereOffered ==
  order # Null =>
    \A i \in DOMAIN order.items :
      <<order.items[i].menuId, order.items[i].unitPrice>> \in offered
=============================================================================
