----------------------------- MODULE OrderLines -----------------------------
(***************************************************************************)
(* The items of a POST /orders body: what the schema accepts, and the      *)
(* lines createOrder makes of them, one for each product.                  *)
(***************************************************************************)
EXTENDS Integers, Sequences, FiniteSets

CONSTANTS
  Products,
  MaxLines,    \* items in an order
  MaxQuantity  \* of one item

ASSUME SchemaAssumption == MaxLines \in Nat \ {0} /\ MaxQuantity \in Nat \ {0}

Line == [prodId : Products, quantity : Nat \ {0}]

\* CreateOrderSchema
Acceptable(items) ==
  /\ Len(items) \in 1..MaxLines
  /\ \A i \in DOMAIN items : items[i].quantity <= MaxQuantity

\* Map.set: an entry keeps its place, a new one goes to the end.
SetEntry(map, item, quantity) ==
  IF \E i \in DOMAIN map : map[i].prodId = item.prodId
  THEN [i \in DOMAIN map |-> IF map[i].prodId = item.prodId
                             THEN [map[i] EXCEPT !.quantity = quantity]
                             ELSE map[i]]
  ELSE Append(map, [item EXCEPT !.quantity = quantity])

\* Map.get(...) ?? 0
Entry(map, p) ==
  IF \E i \in DOMAIN map : map[i].prodId = p
  THEN map[CHOOSE i \in DOMAIN map : map[i].prodId = p].quantity
  ELSE 0

\* Mutant: the quantity of a repeated product replaces the earlier one.
Count_LastWins(map, item) == SetEntry(map, item, item.quantity)

Count(map, item) ==
  SetEntry(map, item, Entry(map, item.prodId) + item.quantity)

\* requestedQuantities, after each of the items.
Requested(items) ==
  LET map[n \in 0..Len(items)] ==
        IF n = 0 THEN <<>> ELSE Count(map[n - 1], items[n])
  IN  map

\* The lines are the entries, in their order.
Merge(items) == Requested(items)[Len(items)]

-----------------------------------------------------------------------------
\* The bodies the schema accepts, and a little more.
Bodies ==
  UNION {[1..n -> [prodId : Products, quantity : 1..(MaxQuantity + 1)]] :
           n \in 1..(MaxLines + 1)}

\* The units a list asks for of p: item i of it for the k-th time.
Units(items, p) ==
  UNION {{<<i, k>> : k \in 1..items[i].quantity} :
           i \in {j \in DOMAIN items : items[j].prodId = p}}

\* The place of the first item for p.
First(items, p) ==
  CHOOSE i \in DOMAIN items :
    items[i].prodId = p /\ \A j \in 1..(i - 1) : items[j].prodId # p

\* Every product of the body gets one line, in the order in which the
\* products first appear, with as many units as the body names of it.
AddsUp(items, lines) ==
  /\ {lines[i].prodId : i \in DOMAIN lines} = {items[i].prodId : i \in DOMAIN items}
  /\ \A i, j \in DOMAIN lines : i < j =>
       First(items, lines[i].prodId) < First(items, lines[j].prodId)
  /\ \A i \in DOMAIN lines :
       lines[i].quantity = Cardinality(Units(items, lines[i].prodId))

BodiesAddUp == \A items \in Bodies : AddsUp(items, Merge(items))
=============================================================================
