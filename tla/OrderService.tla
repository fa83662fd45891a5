---------------------------- MODULE OrderService ----------------------------
(***************************************************************************)
(* The order service: the HTTP handler that creates an order, the admin    *)
(* handler that edits one, and the consumer of order.queue.                *)
(***************************************************************************)
EXTENDS OrderItems

CONSTANT AdminStatuses  \* the statuses the administrator sets in this instance

VARIABLES
  request,  \* how far POST /orders has got for each order
  checked,  \* the products GetProduct has reported in sufficient number
  status    \* the row's status column, or "none" before the row exists

orderVars == <<request, checked, status>>

Status == {"PENDING", "CANCELLED", "CONFIRMED", "SHIPPED"}

RequestStates == {"open", "stored", "announced", "refused", "stranded"}

ASSUME OrderAssumption == AdminStatuses \subseteq Status

OrderTypeOK ==
  /\ request \in [Orders -> RequestStates]
  /\ checked \in [Orders -> SUBSET Products]
  /\ status \in [Orders -> Status \cup {"none"}]

OrderInit ==
  /\ request = [o \in Orders |-> "open"]
  /\ checked = [o \in Orders |-> {}]
  /\ status = [o \in Orders |-> "none"]

Stored(o) == status[o] # "none"

-----------------------------------------------------------------------------
(* POST /orders.  The GetProduct calls run concurrently (Promise.all); the  *)
(* stock they report is read here and not reserved.  `available' is the     *)
(* product service's stock of p at that moment.                             *)

CheckProduct(o, p, available) ==
  /\ request[o] = "open"
  /\ p \in Wanted(o) \ checked[o]
  /\ available >= Need[o][p]
  /\ checked' = [checked EXCEPT ![o] = @ \cup {p}]
  /\ UNCHANGED <<request, status, busVars>>

RefuseOrder(o, p, available) ==
  /\ request[o] = "open"
  /\ p \in Wanted(o) \ checked[o]
  /\ available < Need[o][p]
  /\ request' = [request EXCEPT ![o] = "refused"]
  /\ UNCHANGED <<checked, status, busVars>>

\* Mutant: the order is announced before its row is committed.
StoreOrder_Announced(o) ==
  /\ request[o] = "open"
  /\ checked[o] = Wanted(o)
  /\ request' = [request EXCEPT ![o] = "stored"]
  /\ Publish("order.created", o)
  /\ UNCHANGED <<checked, status, work>>

\* The row is committed ...
StoreOrder(o) ==
  /\ request[o] = "open"
  /\ checked[o] = Wanted(o)
  /\ request' = [request EXCEPT ![o] = "stored"]
  /\ status' = [status EXCEPT ![o] = "PENDING"]
  /\ UNCHANGED <<checked, busVars>>

\* ... and announced afterwards, with no outbox in between.
AnnounceOrder(o) ==
  /\ request[o] = "stored"
  /\ request' = [request EXCEPT ![o] = "announced"]
  /\ Publish("order.created", o)
  /\ UNCHANGED <<checked, status, work>>

\* The product service or the database does not answer; `applied' says
\* whether the insert was committed all the same.
OrderRequestFails(o, applied) ==
  /\ request[o] = "open"
  /\ applied => checked[o] = Wanted(o)
  /\ request' = [request EXCEPT ![o] = IF applied THEN "stranded" ELSE "refused"]
  /\ status' = [status EXCEPT ![o] = IF applied THEN "PENDING" ELSE @]
  /\ UNCHANGED <<checked, busVars>>

\* PATCH /orders/:id sets whatever status it is given; nothing is published.
AdminUpdate(o, s) ==
  /\ Stored(o) /\ s \in AdminStatuses
  /\ status' = [status EXCEPT ![o] = s]
  /\ UNCHANGED <<request, checked, busVars>>

-----------------------------------------------------------------------------
(* The consumer of order.queue.                                            *)

FailureEvents == {"inventory.failed", "payment.failed"}

\* Mutant: the two handlers publish each other's compensation.
Compensation_Swapped == [k \in FailureEvents |-> IF k = "inventory.failed"
                                                 THEN "inventory.release"
                                                 ELSE "payment.refund"]

Compensation == [k \in FailureEvents |-> IF k = "inventory.failed"
                                         THEN "payment.refund"
                                         ELSE "inventory.release"]

\* The status each event leads to.
Decision == [k \in FailureEvents \cup {"payment.success"} |->
               IF k = "payment.success" THEN "CONFIRMED" ELSE "CANCELLED"]

\* Mutant: cancelOrder without `status: { not: "CANCELLED" }'.
Cancellable_Any(o) == Stored(o)

\* Mutant: only a pending order is cancelled.
Cancellable_Pending(o) == status[o] = "PENDING"

Cancellable(o) == status[o] \notin {"none", "CANCELLED"}

\* Mutant: the message is acknowledged before its compensation is published.
CancelOrder_AckFirst(m) ==
  /\ Waiting(m, "order.queue")
  /\ m.key \in FailureEvents
  /\ Cancellable(m.order)
  /\ status' = [status EXCEPT ![m.order] = Decision[m.key]]
  /\ work' = work \cup {[msg |-> m, at |-> "cancelled", seen |-> 0]}
  /\ Discard(m)
  /\ UNCHANGED <<request, checked, published>>

\* cancelOrder changes one row; the handler is suspended at that await.
CancelOrder(m) ==
  /\ Waiting(m, "order.queue")
  /\ m.key \in FailureEvents
  /\ Cancellable(m.order)
  /\ status' = [status EXCEPT ![m.order] = Decision[m.key]]
  /\ Begin(m, "cancelled", 0)
  /\ UNCHANGED <<request, checked>>

\* cancelOrder changes no row: the handler throws and the message is lost.
RejectCancel(m) ==
  /\ Waiting(m, "order.queue")
  /\ m.key \in FailureEvents
  /\ ~ Cancellable(m.order)
  /\ Drop(m)
  /\ UNCHANGED orderVars

PublishCompensation(t) ==
  /\ t.at = "cancelled"
  /\ Publish(Compensation[t.msg.key], t.msg.order)
  /\ Advance(t, "done")
  /\ UNCHANGED orderVars

ConfirmOrder(m) ==
  /\ Waiting(m, "order.queue")
  /\ m.key = "payment.success"
  /\ Stored(m.order)
  /\ status' = [status EXCEPT ![m.order] = Decision[m.key]]
  /\ Begin(m, "done", 0)
  /\ UNCHANGED <<request, checked>>

AckOrderEvent(t) == Ack(t) /\ UNCHANGED orderVars

\* The database fails in a handler, which throws: the message is lost,
\* whether or not its update was committed.
OrderHandlerFails(m, applied) ==
  /\ Waiting(m, "order.queue")
  /\ m.key \in DOMAIN Decision
  /\ Drop(m)
  /\ IF applied
       THEN /\ IF m.key \in FailureEvents THEN Cancellable(m.order)
                                         ELSE Stored(m.order)
            /\ status' = [status EXCEPT ![m.order] = Decision[m.key]]
       ELSE UNCHANGED status
  /\ UNCHANGED <<request, checked>>

\* The process dies: requests in flight are answered by nobody, and an order
\* stored but not announced stays so.
OrderCrash ==
  /\ request' = [o \in Orders |-> CASE request[o] = "open" -> "refused"
                                    [] request[o] = "stored" -> "stranded"
                                    [] OTHER -> request[o]]
  /\ LoseTasks("order.queue")
  /\ UNCHANGED <<checked, status>>

-----------------------------------------------------------------------------
\* What the service does by itself once an order is stored.
OrderStep ==
  \/ \E o \in Orders : AnnounceOrder(o)
  \/ \E m \in queued : CancelOrder(m) \/ RejectCancel(m) \/ ConfirmOrder(m)
  \/ \E t \in TasksOf("order.queue") : PublishCompensation(t) \/ AckOrderEvent(t)

OrderFault ==
  \/ \E o \in Orders, applied \in BOOLEAN : OrderRequestFails(o, applied)
  \/ \E m \in queued, applied \in BOOLEAN : OrderHandlerFails(m, applied)
=============================================================================
