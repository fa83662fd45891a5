-------------------------- MODULE InventoryService --------------------------
(***************************************************************************)
(* The product service's part in an order: the consumer of inventory.queue *)
(* and the stock column it changes.  A reservation or a release is one     *)
(* PostgreSQL transaction over all items of the order, here one step.      *)
(***************************************************************************)
EXTENDS OrderItems

CONSTANT InitialStock

VARIABLES
  stock,  \* the quantity column of each product
  held    \* history: reservations minus releases committed for each order

inventoryVars == <<stock, held>>

ASSUME InventoryAssumption == InitialStock \in [Products -> Nat]

InventoryTypeOK ==
  /\ stock \in [Products -> Int]
  /\ held \in [Orders -> Int]

InventoryInit ==
  /\ stock = InitialStock
  /\ held = [o \in Orders |-> 0]

-----------------------------------------------------------------------------
\* Mutant: one too few in stock is accepted.
Available_OffByOne(o) == \A p \in Products : stock[p] + 1 >= Need[o][p]

Available(o) == \A p \in Products : stock[p] >= Need[o][p]

Take(o) ==
  /\ stock' = [p \in Products |-> stock[p] - Need[o][p]]
  /\ held' = [held EXCEPT ![o] = @ + 1]

Return(o) ==
  /\ stock' = [p \in Products |-> stock[p] + Need[o][p]]
  /\ held' = [held EXCEPT ![o] = @ - 1]

ReserveStock(m) ==
  /\ Waiting(m, "inventory.queue")
  /\ m.key = "order.created"
  /\ Available(m.order)
  /\ Take(m.order)
  /\ Begin(m, "reserved", 0)

\* One item short rolls the whole transaction back.
RejectReservation(m) ==
  /\ Waiting(m, "inventory.queue")
  /\ m.key = "order.created"
  /\ ~ Available(m.order)
  /\ Begin(m, "rejected", 0)
  /\ UNCHANGED inventoryVars

\* A release adds the items back whether or not they were reserved.
ReleaseStock(m) ==
  /\ Waiting(m, "inventory.queue")
  /\ m.key = "inventory.release"
  /\ Return(m.order)
  /\ Begin(m, "released", 0)

\* Mutant: an error after the commit is reported as a failed reservation.
Outcome_Failed == [stage \in {"reserved", "rejected", "released"} |->
                     IF stage = "released" THEN "inventory.released"
                                           ELSE "inventory.failed"]

Outcome == [stage \in {"reserved", "rejected", "released"} |->
              CASE stage = "reserved" -> "inventory.reserved"
                [] stage = "rejected" -> "inventory.failed"
                [] stage = "released" -> "inventory.released"]

PublishOutcome(t) ==
  /\ t.at \in DOMAIN Outcome
  /\ Publish(Outcome[t.at], t.msg.order)
  /\ Advance(t, "done")
  /\ UNCHANGED inventoryVars

\* Mutant: the message is requeued instead.
AckInventoryEvent_Requeue(t) ==
  /\ t.at = "done"
  /\ work' = work \ {t}
  /\ UNCHANGED <<queued, published, inventoryVars>>

AckInventoryEvent(t) == Ack(t) /\ UNCHANGED inventoryVars

-----------------------------------------------------------------------------
(* Database failures; `applied' says whether the commit went through       *)
(* although its answer was lost.                                           *)

\* handleOrderCreate catches every error and reports a failed reservation.
ReservationFails(m, applied) ==
  /\ Waiting(m, "inventory.queue")
  /\ m.key = "order.created"
  /\ Begin(m, "rejected", 0)
  /\ IF applied THEN Available(m.order) /\ Take(m.order)
                ELSE UNCHANGED inventoryVars

\* handleInventoryRelease does not: the consumer rejects the message.
ReleaseFails(m, applied) ==
  /\ Waiting(m, "inventory.queue")
  /\ m.key = "inventory.release"
  /\ Drop(m)
  /\ IF applied THEN Return(m.order) ELSE UNCHANGED inventoryVars

InventoryCrash == LoseTasks("inventory.queue") /\ UNCHANGED inventoryVars

-----------------------------------------------------------------------------
InventoryStep ==
  \/ \E m \in queued :
       ReserveStock(m) \/ RejectReservation(m) \/ ReleaseStock(m)
  \/ \E t \in TasksOf("inventory.queue") : PublishOutcome(t) \/ AckInventoryEvent(t)

InventoryFault ==
  \E m \in queued, applied \in BOOLEAN :
    ReservationFails(m, applied) \/ ReleaseFails(m, applied)
=============================================================================
