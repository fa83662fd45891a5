-------------------------- MODULE RowLockProperties --------------------------
(* What the transactions on the product table promise. *)
EXTENDS RowLocks

\* A transaction works for a message nobody else works for, and what it is
\* about to write is what its rows hold now, minus or plus the order's items.
TransactionOK(t) ==
  /\ Waiting(t.msg, "inventory.queue")
  /\ t.msg.key \in Handled
  /\ t.done <= Len(Rows(t))
  /\ \A p \in Locked(t) : t.saved[p] = Quantity(t, p) /\ t.saved[p] >= 0

Apart(t, u) == t.msg # u.msg /\ Locked(t) \cap Locked(u) = {}

\* Types, and no row that a transaction has read is changed or locked by
\* another before it ends, whatever deadlocks, crashes or lost connections
\* there are.
RowsCurrent ==
  /\ BusTypeOK /\ InventoryTypeOK
  /\ running \subseteq Transaction
  /\ crashes \in Nat /\ errors \in Nat
  /\ \A p \in Products : stock[p] >= 0
  /\ \A t \in running : TransactionOK(t)
  /\ \A t, u \in running : t # u => Apart(t, u)

-----------------------------------------------------------------------------
AtomicNext ==
  InventoryStep \/ InventoryFault \/ InventoryCrash \/ \E o \in Orders : Request(o)

\* The transactions, row by row, do what InventoryService does in one step:
\* all of an order's items or none of them, and a deadlock is no more than a
\* database failure.
AtomicSpec == (BusInit /\ InventoryInit) /\ [][AtomicNext]_serviceVars

\* The rank of each product in some common order of them.
Rankings == [Products -> 1..Cardinality(Products)]

Ascending(rank, seq) ==
  \A i, j \in DOMAIN seq : i < j => rank[seq[i]] < rank[seq[j]]

\* Transactions deadlock only over orders that list their products in
\* conflicting orders, which a common sort of the items would rule out.
DeadlockNeedsDisorder ==
  \A S \in SUBSET running : Deadlock(S) =>
    ~ \E rank \in Rankings : \A t \in S : Ascending(rank, Lines[t.msg.order])

\* A reservation or a release is repeated only after a crash.
RepeatedByCrashOnly == \A o \in Orders : held[o] \in (-1 - crashes)..(1 + crashes)

-----------------------------------------------------------------------------
\* Every order announced is answered: no transaction waits for ever, and the
\* victim of a deadlock reports a failed reservation.
Answered == \A o \in Orders :
  Sent("order.created", o) ~>
    Sent("inventory.reserved", o) \/ Sent("inventory.failed", o)
=============================================================================
