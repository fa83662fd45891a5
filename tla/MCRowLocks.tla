----------------------------- MODULE MCRowLocks -----------------------------
(* An instance of RowLocks for TLC. *)
EXTENDS RowLockProperties

CONSTANTS o1, o2, p1, p2

\* Two orders for the same two products, in opposite orders.
Items == [o \in {o1, o2} |-> IF o = o1 THEN <<p1, p2>> ELSE <<p2, p1>>]

NeedItems == [o \in {o1, o2} |-> [p \in {p1, p2} |-> 1]]

\* Enough of the first product for both orders, of the second for one.
StockUneven == [p \in {p1, p2} |-> IF p = p1 THEN 2 ELSE 1]
=============================================================================
