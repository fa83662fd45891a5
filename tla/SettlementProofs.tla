-------------------------- MODULE SettlementProofs --------------------------
(***************************************************************************)
(* How orders are settled: one compensation for each while no process dies *)
(* and administrators only cancel; and while nothing fails and nobody      *)
(* interferes, every failure is compensated, and when all is quiet goods   *)
(* are held for money and money for goods.                                 *)
(***************************************************************************)
EXTENDS PaymentProofs

\* No process dies, and administrators do no more than cancel.
Orderly == MaxCrashes = 0 /\ AdminStatuses \subseteq {"CANCELLED"}

\* No process dies, the order service's database does not fail, and no
\* administrator interferes.
Attentive == MaxCrashes = 0 /\ OrderServed /\ AdminStatuses = {}

\* Nothing fails, and no administrator interferes.
Smooth == MaxCrashes = 0 /\ MaxErrors = 0 /\ AdminStatuses = {}

\* What the other modules prove.
Ground == SafetyInv /\ AnnouncedFirst /\ Deliveries /\ AnsweredOnce /\ PaymentsOK

-----------------------------------------------------------------------------
(* What each step does for an order.                                       *)

\* The steps in which neither a database fails nor an administrator acts.
Routine ==
  PlaceOrder \/ Order \/ Inventory \/ Wallet \/ Broker \/ Customer \/ UNCHANGED vars

\* Without crashes, a step is routine, a failure of a database, or an administrator.
LEMMA OrderlySteps ==
  ASSUME Ground, Orderly, [Next]_vars
  PROVE  BusStep /\ (Routine \/ Administrator \/ DatabaseError)
<1>1. BusStep
  BY BusSteps DEF Ground, Orderly
<1>2. ~ Crash
  BY DEF Orderly, Ground, SafetyInv, TypeOK, Crash
<1> QED
  BY <1>1, <1>2 DEF Next, Routine

\* With the order service's database up, failures do not touch the orders.
LEMMA AttentiveSteps ==
  ASSUME Attentive
  PROVE  /\ Orderly
         /\ Ground /\ [Next]_vars =>
              Routine \/ (DatabaseError /\ UNCHANGED orderVars)
<1>1. Orderly
  BY DEF Attentive, Orderly
<1>2. ~ Administrator
  BY DEF Attentive, Administrator, AdminUpdate
<1>3. Ground /\ DatabaseError => UNCHANGED orderVars
  BY DEF Attentive, OrderServed, Ground, SafetyInv, TypeOK, DatabaseError
<1> QED
  BY <1>1, <1>2, <1>3, OrderlySteps

\* Without failures and administrators, every step is routine.
LEMMA SmoothSteps ==
  ASSUME Smooth
  PROVE  Orderly /\ Attentive /\ (Ground /\ [Next]_vars => Routine)
<1>1. Orderly /\ Attentive
  BY DEF Smooth, Orderly, Attentive, OrderServed
<1>2. Ground => ~ Administrator /\ ~ DatabaseError
  BY DEF Smooth, Ground, SafetyInv, TypeOK, Administrator, AdminUpdate, DatabaseError
<1> QED
  BY <1>1, <1>2, OrderlySteps

\* The order's row and its request change by these steps only.
LEMMA RowMoves ==
  ASSUME Ground, Routine, NEW o \in Orders
  PROVE  \/ /\ status'[o] = status[o]
            /\ request'[o] \in {request[o], "refused"}
            /\ \A t \in work' : t.at = "cancelled" /\ t.msg.order = o => t \in work
         \/ StoreOrder(o) \/ AnnounceOrder(o)
         \/ \E m \in queued : m.order = o /\ (CancelOrder(m) \/ ConfirmOrder(m))
<1> DEFINE Still == /\ status'[o] = status[o]
                    /\ request'[o] \in {request[o], "refused"}
                    /\ \A t \in work' : t.at = "cancelled" /\ t.msg.order = o => t \in work
<1>1. OrderTypeOK /\ \A m \in queued : m.order \in Orders
  BY DEF Ground, SafetyInv, ServicesOK, BusTypeOK, Message
<1>2. ASSUME UNCHANGED orderVars, work' \subseteq work
      PROVE  Still
  BY <1>2 DEF orderVars
<1>3. ASSUME UNCHANGED orderVars, NEW m, NEW s, NEW n, Begin(m, s, n), s # "cancelled"
      PROVE  Still
  BY <1>3 DEF orderVars, Begin
<1>4. ASSUME UNCHANGED orderVars, NEW t, NEW s, Advance(t, s), s # "cancelled"
      PROVE  Still
  BY <1>4 DEF orderVars, Advance
<1>5. CASE PlaceOrder
  BY <1>1, <1>5 DEF PlaceOrder, CheckProduct, RefuseOrder, StoreOrder, OrderTypeOK, busVars
<1>6. CASE Order
  <2>1. ASSUME NEW r \in Orders, AnnounceOrder(r)
        PROVE  Still \/ AnnounceOrder(o)
    BY <1>1, <2>1 DEF AnnounceOrder, OrderTypeOK
  <2>2. ASSUME NEW m \in queued, CancelOrder(m) \/ ConfirmOrder(m), m.order # o
        PROVE  Still
    BY <1>1, <2>2 DEF CancelOrder, ConfirmOrder, OrderTypeOK, Begin
  <2>3. ASSUME NEW m \in queued, RejectCancel(m)
        PROVE  Still
    BY <1>2, <2>3 DEF RejectCancel, Drop
  <2>4. ASSUME NEW t \in work, PublishCompensation(t) \/ AckOrderEvent(t)
        PROVE  Still
    BY <1>2, <1>4, <2>4 DEF PublishCompensation, AckOrderEvent, Ack
  <2> QED
    BY <1>6, <2>1, <2>2, <2>3, <2>4 DEF Order, OrderStep, TasksOf
<1>7. CASE Inventory
  <2>1. UNCHANGED orderVars
    BY <1>7 DEF Inventory
  <2> QED
    BY <1>2, <1>3, <1>4, <1>7, <2>1
    DEF Inventory, InventoryStep, ReserveStock, RejectReservation, ReleaseStock,
        PublishOutcome, AckInventoryEvent, Ack
<1>8. CASE Wallet \/ Broker \/ Customer
  <2>1. UNCHANGED orderVars
    BY <1>8 DEF Wallet, Broker, Customer
  <2>2. ASSUME NEW m \in queued, FindPayment(m)
        PROVE  Still
    <3>1. PICK s : s = IF charged[m.order] > 0 THEN "refunding" ELSE "failing"
      OBVIOUS
    <3>2. Begin(m, s, 0) /\ s # "cancelled"
      BY <2>2, <3>1 DEF FindPayment
    <3> QED
      BY <1>3, <2>1, <3>2
  <2> QED
    BY <1>2, <1>3, <1>4, <1>8, <2>1, <2>2
    DEF Wallet, Broker, Customer, WalletStep, ReadWallet, DeclinePayment, SaveWallet,
        PublishVerdict, RefundWallet, Reschedule, AckUserEvent, RetryExpires, TopUp,
        Ack, busVars
<1>9. CASE UNCHANGED vars
  BY <1>2, <1>9 DEF vars, busVars
<1> QED
  BY <1>5, <1>6, <1>7, <1>8, <1>9 DEF Routine

\* What failures and administrators do to the row is no more than what the
\* order's events do, unless the order was not announced yet.
LEMMA RowFaults ==
  ASSUME Ground, Orderly, Administrator \/ DatabaseError, NEW o \in Orders
  PROVE  /\ \A t \in work' : t.at = "cancelled" => t \in work
         /\ \/ status'[o] \in {status[o], "CANCELLED"}
            \/ Sent("payment.success", o)
            \/ request[o] = "open"
<1>1. OrderTypeOK /\ \A m \in queued : m.order \in Orders /\ Sent(m.key, m.order)
  BY DEF Ground, SafetyInv, ServicesOK, HandlersOK, BusTypeOK, Message
<1>2. CASE Administrator
  BY <1>1, <1>2 DEF Administrator, AdminUpdate, Orderly, OrderTypeOK, busVars
<1>3. ASSUME NEW r \in Orders, NEW applied \in BOOLEAN, OrderRequestFails(r, applied)
      PROVE  UNCHANGED work /\ (status'[o] = status[o] \/ request[o] = "open")
  BY <1>1, <1>3 DEF OrderRequestFails, OrderTypeOK, busVars
<1>4. ASSUME NEW m \in queued, NEW applied \in BOOLEAN, OrderHandlerFails(m, applied)
      PROVE  /\ UNCHANGED work
             /\ \/ status'[o] \in {status[o], "CANCELLED"}
                \/ Sent("payment.success", o)
  BY <1>1, <1>4 DEF OrderHandlerFails, Drop, Decision, FailureEvents, OrderTypeOK
<1>5. CASE InventoryFault /\ UNCHANGED status
  BY <1>5 DEF InventoryFault, ReservationFails, ReleaseFails, Begin, Drop
<1>6. CASE WalletFault /\ UNCHANGED status
  BY <1>6 DEF WalletFault, WalletReadFails, WalletWriteFails, Begin, Advance
<1> QED
  BY <1>2, <1>3, <1>4, <1>5, <1>6 DEF DatabaseError, OrderFault, orderVars

\* So does what is held for it.
LEMMA StockMoves ==
  ASSUME Ground, Routine, NEW o \in Orders
  PROVE  \/ /\ held'[o] = held[o]
            /\ \A t \in work' : t.at \in {"reserved", "released"} /\ t.msg.order = o => t \in work
         \/ \E m \in queued : m.order = o /\ (ReserveStock(m) \/ ReleaseStock(m))
<1> DEFINE Still == /\ held'[o] = held[o]
                    /\ \A t \in work' : t.at \in {"reserved", "released"} /\ t.msg.order = o => t \in work
<1>1. InventoryTypeOK /\ \A m \in queued : m.order \in Orders
  BY DEF Ground, SafetyInv, ServicesOK, BusTypeOK, Message
<1>2. ASSUME UNCHANGED inventoryVars, work' \subseteq work
      PROVE  Still
  BY <1>2 DEF inventoryVars
<1>3. ASSUME UNCHANGED inventoryVars, NEW m, NEW s, NEW n, Begin(m, s, n),
             s \notin {"reserved", "released"}
      PROVE  Still
  BY <1>3 DEF inventoryVars, Begin
<1>4. ASSUME UNCHANGED inventoryVars, NEW t, NEW s, Advance(t, s),
             s \notin {"reserved", "released"}
      PROVE  Still
  BY <1>4 DEF inventoryVars, Advance
<1>5. CASE PlaceOrder \/ Order
  <2>1. UNCHANGED inventoryVars
    BY <1>5 DEF PlaceOrder, Order
  <2> QED
    BY <1>2, <1>3, <1>4, <1>5, <2>1
    DEF PlaceOrder, Order, OrderStep, CheckProduct, RefuseOrder, StoreOrder,
        AnnounceOrder, CancelOrder, RejectCancel, ConfirmOrder, AckOrderEvent,
        PublishCompensation, Drop, Ack, busVars
<1>6. CASE Inventory
  <2>1. ASSUME NEW m \in queued, ReserveStock(m) \/ ReleaseStock(m), m.order # o
        PROVE  Still
    BY <1>1, <2>1 DEF ReserveStock, ReleaseStock, Take, Return, InventoryTypeOK, Begin
  <2>2. ASSUME NEW m \in queued, RejectReservation(m)
        PROVE  Still
    BY <1>3, <2>2 DEF RejectReservation
  <2>3. ASSUME NEW t \in work, PublishOutcome(t) \/ AckInventoryEvent(t)
        PROVE  Still
    BY <1>2, <1>4, <2>3 DEF PublishOutcome, AckInventoryEvent, Ack
  <2> QED
    BY <1>6, <2>1, <2>2, <2>3 DEF Inventory, InventoryStep, TasksOf
<1>7. CASE Wallet \/ Broker \/ Customer
  <2>1. UNCHANGED inventoryVars
    BY <1>7 DEF Wallet, Broker, Customer
  <2>2. ASSUME NEW m \in queued, FindPayment(m)
        PROVE  Still
    <3>1. PICK s : s = IF charged[m.order] > 0 THEN "refunding" ELSE "failing"
      OBVIOUS
    <3>2. Begin(m, s, 0) /\ s \notin {"reserved", "released"}
      BY <2>2, <3>1 DEF FindPayment
    <3> QED
      BY <1>3, <2>1, <3>2
  <2>3. ASSUME NEW m \in queued, ReadWallet(m) \/ DeclinePayment(m) \/ RetryExpires(m)
        PROVE  Still
    BY <1>2, <1>3, <2>1, <2>3 DEF ReadWallet, DeclinePayment, RetryExpires
  <2>4. ASSUME NEW t \in work,
               \/ SaveWallet(t) \/ PublishVerdict(t) \/ RefundWallet(t)
               \/ Reschedule(t) \/ AckUserEvent(t)
        PROVE  Still
    BY <1>2, <1>4, <2>1, <2>4
    DEF SaveWallet, PublishVerdict, RefundWallet, Reschedule, AckUserEvent, Ack
  <2>5. ASSUME Customer
        PROVE  Still
    BY <1>2, <2>1, <2>5 DEF Customer, TopUp, busVars
  <2> QED
    BY <1>7, <2>2, <2>3, <2>4, <2>5 DEF Wallet, Broker, WalletStep, TasksOf
<1>8. CASE UNCHANGED vars
  BY <1>2, <1>8 DEF vars, busVars
<1> QED
  BY <1>5, <1>6, <1>7, <1>8 DEF Routine

\* Events are not unsent, and those of an order are sent by its request and
\* by the handlers of its messages.
LEMMA SentMoves ==
  ASSUME Ground, Orderly, [Next]_vars, NEW o \in Orders, NEW k \in Keys
  PROVE  /\ Sent(k, o) => Sent(k, o)'
         /\ Sent(k, o)' =>
              \/ Sent(k, o)
              \/ k = "order.created" /\ Announce(o)
              \/ \E t \in work : Reply(t, k) /\ t.msg.order = o
<1>1. BusTypeOK /\ Deliveries /\ "order.created" \in Keys
  BY DEF Ground, SafetyInv, ServicesOK, Keys
<1>2. ASSUME UNCHANGED published
      PROVE  Sent(k, o)' <=> Sent(k, o)
  BY <1>2 DEF Sent
<1>3. ASSUME NEW r \in Orders, Announce(r)
      PROVE  Sent(k, o)' <=> Sent(k, o) \/ (k = "order.created" /\ o = r)
  BY <1>1, <1>3, PublishEffect DEF Announce
<1>4. ASSUME NEW t \in work, NEW l \in Keys, Reply(t, l)
      PROVE  Sent(k, o)' <=> Sent(k, o) \/ (k = l /\ o = t.msg.order)
  BY <1>1, <1>4, Filing, PublishEffect DEF Reply
<1>5. ASSUME NEW t \in work, PutOff(t)
      PROVE  Sent(k, o)' <=> Sent(k, o)
  <2>1. t.msg.key \in Keys /\ t.msg.order \in Orders /\ Sent(t.msg.key, t.msg.order)
    BY <1>1, Filing DEF Ground, SafetyInv, ServicesOK, HandlersOK
  <2>2. published' = [published EXCEPT ![t.msg.key][t.msg.order] = @ + 1]
    BY <1>1, <1>5, PutOffEffect
  <2> QED
    BY <1>1, <2>1, <2>2 DEF Sent, BusTypeOK
<1> QED
  BY <1>2, <1>3, <1>4, <1>5, OrderlySteps
  DEF BusStep, ComeBack, GiveUp, Drop, TakeUp, Begin, Ack, GoOn, busVars

\* What is sent arrives in each queue bound to it, and waits for its handler.
LEMMA NewArrives ==
  ASSUME Ground, Orderly, [Next]_vars, NEW o \in Orders, NEW b \in Bindings,
         ~ Sent(b[2], o), Sent(b[2], o)'
  PROVE  \E m \in About(b, o)' : Untaken(m)' /\ Pending(m)'
<1> DEFINE k == b[2]
<1>1. BusTypeOK /\ Deliveries /\ k \in Keys /\ b = <<b[1], b[2]>>
  BY DEF Ground, SafetyInv, ServicesOK, Keys, Bindings
<1>2. \/ k = "order.created" /\ Announce(o)
      \/ \E t \in work : Reply(t, k) /\ t.msg.order = o
  BY <1>1, SentMoves
<1>3. /\ queued' = queued \cup Routed(k, o)
      /\ \A x \in Routed(k, o) : Untaken(x)'
  BY <1>1, <1>2, AnnounceEffect, ReplyEffect
<1>4. PICK x \in Routed(k, o) : Home(x) = b[1]
  BY <1>1, RoutedMessages
<1>5. x.key = k /\ x.order = o
  BY <1>1, RoutedMessages
<1>6. x \in About(b, o)' /\ Untaken(x)'
  BY <1>1, <1>3, <1>4, <1>5 DEF About
<1> QED
  BY <1>6 DEF Untaken, Pending

\* What is waiting in a consumer's queue waits until it is taken.
LEMMA WaitsOn ==
  ASSUME Ground, Orderly, [Next]_vars, NEW m \in queued, m.queue = Home(m), Untaken(m)
  PROVE  (m \in queued' /\ Untaken(m)') \/ GiveUp(m) \/ \E s \in Stages : TakeUp(m, s)
<1>1. BusTypeOK /\ Deliveries
  BY DEF Ground, SafetyInv, ServicesOK
<1>2. m.queue # "user.retry"
  BY DEF Home, UserQueues
<1>3. \A t \in work : t.msg # m
  BY DEF Untaken
<1>4. CASE UNCHANGED busVars
  BY <1>4 DEF busVars, Untaken
<1>5. ASSUME NEW r \in Orders, Announce(r)
      PROVE  m \in queued' /\ Untaken(m)'
  BY <1>1, <1>5, AnnounceEffect
<1>6. ASSUME NEW x \in queued, ComeBack(x)
      PROVE  m \in queued' /\ Untaken(m)'
  BY <1>1, <1>2, <1>6, ComeBackEffect DEF ComeBack
<1>7. ASSUME NEW x \in queued, x # m, GiveUp(x) \/ \E t \in work : t.msg = x /\ Ack(t)
      PROVE  m \in queued' /\ Untaken(m)'
  <2>1. queued' = queued \ {x} /\ \A y \in queued' : Untaken(y)' <=> Untaken(y)
    BY <1>1, <1>7, DiscardEffect
  <2> QED
    BY <1>7, <2>1
<1>8. ASSUME NEW x \in queued, NEW s \in Stages, TakeUp(x, s), x # m
      PROVE  m \in queued' /\ Untaken(m)'
  BY <1>1, <1>8, TakeUpEffect
<1>9. ASSUME NEW t \in work, NEW s \in Stages, GoOn(t, s)
      PROVE  m \in queued' /\ Untaken(m)'
  BY <1>1, <1>9, GoOnEffect
<1>10. ASSUME NEW t \in work, NEW k \in Keys, Reply(t, k)
       PROVE  m \in queued' /\ Untaken(m)'
  BY <1>1, <1>10, ReplyEffect
<1>11. ASSUME NEW t \in work, PutOff(t)
       PROVE  m \in queued' /\ Untaken(m)'
  BY <1>1, <1>11, PutOffEffect
<1> QED
  BY <1>1, <1>3, <1>4, <1>5, <1>6, <1>7, <1>8, <1>9, <1>10, <1>11, OrderlySteps, Filing
  DEF BusStep

\* A handler that has changed a row or the stock publishes it next.
LEMMA StaysAtWork ==
  ASSUME Ground, Orderly, [Next]_vars, NEW t \in work,
         t.at \in {"cancelled", "reserved", "released"}
  PROVE  t \in work' \/ \E k \in Keys : Reply(t, k)
<1>1. t.msg.queue # "user.queue" /\ t.at \in Awaits(t.msg)
  <2>1. <<t.msg.queue, t.msg.key>> \in Bindings /\ t.at \in Awaits(t.msg)
    BY OnBinding DEF Ground
  <2> QED
    BY <2>1 DEF Awaits
<1>2. "paid" \notin Awaits(t.msg) /\ "failing" \notin Awaits(t.msg)
  <2>1. <<t.msg.queue, t.msg.key>> \in Bindings
    BY OnBinding DEF Ground
  <2> QED
    BY <1>1, <2>1 DEF Awaits, Bindings
<1>3. ASSUME NEW s \in Stages, GoOn(t, s)
      PROVE  FALSE
  BY <1>2, <1>3 DEF GoOn
<1> QED
  BY <1>3, OrderlySteps
  DEF BusStep, Announce, ComeBack, GiveUp, Drop, TakeUp, Begin, Ack, GoOn, Reply, PutOff,
      Advance, busVars

-----------------------------------------------------------------------------
(* The invariant, part by part.                                            *)

\* The event of an order's creation is not retried.
LEMMA CreatedAtHomeKept ==
  ASSUME Ground, Smooth, [Next]_vars, NEW m \in queued', m.key = "order.created",
         m \in queued => m.queue = Home(m)
  PROVE  m.queue = Home(m)
<1> Orderly /\ Routine
  BY SmoothSteps
<1>1. BusTypeOK /\ Deliveries /\ CreatedOnce /\ "order.created" \in Keys
  BY DEF Ground, SafetyInv, ServicesOK, PaymentsOK, PaymentsServed, Smooth, Keys
<1>2. ASSUME NEW k \in Keys, NEW r \in Orders, Publish(k, r)
      PROVE  m.queue = Home(m)
  <2>1. m \in queued \/ m \in Routed(k, r)
    BY <1>2 DEF Publish
  <2>2. \A x \in Routed(k, r) : x.queue = Home(x)
    BY RoutedMessages
  <2> QED
    BY <2>1, <2>2
<1>3. ASSUME NEW r \in Orders, Announce(r)
      PROVE  m.queue = Home(m)
  BY <1>1, <1>2, <1>3 DEF Announce
<1>4. ASSUME NEW t \in work, NEW k \in Keys, Reply(t, k)
      PROVE  m.queue = Home(m)
  BY <1>1, <1>2, <1>4, Filing DEF Reply
<1>5. ASSUME NEW t \in work, PutOff(t)
      PROVE  m.queue = Home(m)
  <2>1. t.msg.key = "payment.refund"
    BY <1>1, <1>5 DEF PutOff, CreatedOnce
  <2>2. \E c : queued' = queued \cup {c} /\ c.key = t.msg.key
    BY <1>1, <1>5, PutOffEffect
  <2> QED
    BY <2>1, <2>2
<1>6. ASSUME NEW x \in queued, ComeBack(x)
      PROVE  m.queue = Home(m)
  <2>1. \E c : queued' = (queued \ {x}) \cup {c} /\ c.queue = Home(c)
    BY <1>1, <1>6, ComeBackEffect
  <2> QED
    BY <2>1
<1> QED
  BY <1>3, <1>4, <1>5, <1>6, OrderlySteps
  DEF BusStep, GiveUp, Drop, Discard, TakeUp, Begin, Ack, GoOn, busVars

\* An order has its row before it is announced, and keeps it.
LEMMA RowStoredKept ==
  ASSUME Ground, Attentive, [Next]_vars, NEW o \in Orders, RowStored(o)
  PROVE  RowStored(o)'
<1>1. OrderTypeOK /\ \A m \in queued : m.order \in Orders
  BY DEF Ground, SafetyInv, ServicesOK, BusTypeOK, Message
<1>2. CASE status'[o] = status[o] /\ request'[o] \in {request[o], "refused"}
  BY <1>2 DEF RowStored
<1>3. CASE StoreOrder(o)
  BY <1>1, <1>3 DEF StoreOrder, OrderTypeOK, RowStored
<1>4. CASE AnnounceOrder(o)
  BY <1>1, <1>4 DEF AnnounceOrder, OrderTypeOK, RowStored
<1>5. ASSUME NEW m \in queued, m.order = o, CancelOrder(m) \/ ConfirmOrder(m)
      PROVE  RowStored(o)'
  BY <1>1, <1>5 DEF CancelOrder, ConfirmOrder, Decision, FailureEvents, OrderTypeOK, RowStored
<1> QED
  BY <1>2, <1>3, <1>4, <1>5, AttentiveSteps, RowMoves DEF orderVars

\* An announced order has its order.created sent.
LEMMA AnnouncedKept ==
  ASSUME Ground, Smooth, [Next]_vars, NEW o \in Orders,
         request[o] = "announced" => Sent("order.created", o),
         request'[o] = "announced"
  PROVE  Sent("order.created", o)'
<1> Orderly /\ Routine
  BY SmoothSteps
<1>1. OrderTypeOK /\ BusTypeOK /\ "order.created" \in Keys
  BY DEF Ground, SafetyInv, ServicesOK, Keys
<1>2. Sent("order.created", o) => Sent("order.created", o)'
  BY <1>1, SentMoves
<1>3. ~ StoreOrder(o)
  BY <1>1 DEF StoreOrder, OrderTypeOK
<1>4. CASE AnnounceOrder(o)
  BY <1>1, <1>4, PublishEffect DEF AnnounceOrder
<1>5. ASSUME NEW m \in queued, CancelOrder(m) \/ ConfirmOrder(m)
      PROVE  UNCHANGED request
  BY <1>5 DEF CancelOrder, ConfirmOrder
<1> QED
  BY <1>2, <1>3, <1>4, <1>5, RowMoves

\* Only what asks to cancel is given up, and only the confirmation and the
\* refund are not answered.
LEMMA NotLostKept ==
  ASSUME Ground, Smooth, [Next]_vars, NEW o \in Orders,
         NEW b \in {ForPayment, ForReservation, ForRelease}, NotLost(b, o)
  PROVE  NotLost(b, o)'
<1> Orderly /\ Routine
  BY SmoothSteps
<1>1. /\ b \in Bindings /\ b = <<b[1], b[2]>> /\ b[2] \in Keys
      /\ b[1] # "order.queue" /\ b[2] \notin {"payment.success", "payment.refund"}
  BY DEF ForPayment, ForReservation, ForRelease, Bindings, Keys
<1>2. \A k \in Answers(b) : k \in Keys
  BY <1>1, AnswersDiffer
<1>3. Answered(b, o) => Answered(b, o)'
  BY <1>2, SentMoves DEF Answered
<1> SUFFICES ASSUME Sent(b[2], o)'
             PROVE  Answered(b, o)' \/ \E m \in About(b, o)' : Pending(m)'
  BY DEF NotLost
<1>4. CASE ~ Sent(b[2], o)
  BY <1>1, <1>4, NewArrives
<1>5. ASSUME NEW m \in About(b, o), Pending(m)
      PROVE  Answered(b, o)' \/ \E n \in About(b, o)' : Pending(n)'
  <2>1. m \in queued /\ Home(m) = b[1] /\ m.key = b[2] /\ m.order = o
    BY <1>1 DEF About
  <2>2. ~ GiveUp(m)
    BY <1>1, <2>1 DEF GiveUp, Smooth, Home, UserQueues
  <2>3. ~ TakeUp(m, "done")
    BY <1>1, <2>1 DEF TakeUp
  <2>4. ASSUME NEW t \in work, t.msg = m
        PROVE  ~ GoOn(t, "done")
    <3>1. TaskOK(t)
      BY DEF Ground, SafetyInv, ServicesOK, HandlersOK
    <3> QED
      BY <1>1, <2>1, <2>4, <3>1 DEF TaskOK, GoOn
  <2>5. ASSUME NEW t \in work, t.msg = m, NEW k \in Keys, Reply(t, k)
        PROVE  Answered(b, o)'
    <3>1. k \in Answers(b)
      BY <1>1, <2>1, <2>5 DEF Reply
    <3>2. Sent(k, o)'
      BY <2>1, <2>5, PublishEffect DEF Reply, Ground, SafetyInv, ServicesOK
    <3> QED
      BY <3>1, <3>2 DEF Answered
  <2>6. SafetyInv /\ Deliveries
    BY DEF Ground
  <2> QED
    BY <1>5, <2>2, <2>3, <2>4, <2>5, <2>6, Survives
<1>6. CASE Sent(b[2], o)
  BY <1>3, <1>5, <1>6 DEF NotLost
<1> QED
  BY <1>4, <1>6

\* A handler that is compensating answers a failure.
LEMMA CompensatorIs ==
  ASSUME Ground, NEW t \in work, t.at = "cancelled"
  PROVE  /\ t.msg.key \in FailureEvents
         /\ t.msg \in About(<<"order.queue", t.msg.key>>, t.msg.order) /\ Pending(t.msg)
         /\ Sent(t.msg.key, t.msg.order) /\ t.msg.order \in Orders
<1>1. TaskOK(t) /\ BusTypeOK /\ Deliveries
  BY DEF Ground, SafetyInv, ServicesOK, HandlersOK
<1>2. /\ t.msg \in queued /\ t.msg.queue = Home(t.msg)
      /\ <<t.msg.queue, t.msg.key>> \in Bindings /\ t.at \in Awaits(t.msg)
  BY <1>1, OnBinding
<1>3. t.msg.queue = "order.queue"
  BY <1>2 DEF Awaits
<1> QED
  BY <1>1, <1>2, <1>3, AtWork, Filing DEF TaskOK, About

\* Refunds and releases are asked for by such handlers alone.
LEMMA CompensationIs ==
  ASSUME Ground, NEW t \in work, NEW k \in {"payment.refund", "inventory.release"}
  PROVE  Reply(t, k) => t.at = "cancelled"
<1> SUFFICES ASSUME Reply(t, k)
             PROVE  t.at = "cancelled"
  OBVIOUS
<1>1. /\ t.msg.queue = Home(t.msg) /\ <<t.msg.queue, t.msg.key>> \in Bindings
      /\ t.at \in Awaits(t.msg)
  BY OnBinding DEF Ground
<1>2. k \in Answers(<<t.msg.queue, t.msg.key>>)
  BY <1>1 DEF Reply
<1>3. t.msg.queue = "order.queue"
  BY <1>1, <1>2, AnswersAre DEF Bindings, ForPayment, ForReservation, ForRelease, ForRefund
<1>4. t.at # "done"
  BY DEF Reply, Outcome, Verdict
<1> QED
  BY <1>1, <1>3, <1>4 DEF Awaits

\* A compensation is not taken back; one that is not new was there before.
LEMMA CompensationMoves ==
  ASSUME Ground, Orderly, [Next]_vars, NEW o \in Orders
  PROVE  /\ Compensated(o) => Compensated(o)'
         /\ Compensated(o)' =>
              \/ Compensated(o)
              \/ \E t \in work' : t.at = "cancelled" /\ t.msg.order = o /\ t \notin work
<1>1. BusTypeOK /\ {"payment.refund", "inventory.release"} \subseteq Keys
  BY DEF Ground, SafetyInv, ServicesOK, Keys
<1>2. ASSUME NEW t \in work, t.at = "cancelled", t.msg.order = o
      PROVE  Compensated(o)'
  <2>1. CASE t \in work'
    BY <1>2, <2>1 DEF Compensated
  <2>2. ASSUME NEW k \in Keys, Reply(t, k)
        PROVE  Compensated(o)'
    <3>1. k \in {"payment.refund", "inventory.release"}
      BY <1>2, <2>2, CompensatorIs, AnswersAre DEF Reply, FailureEvents, About
    <3>2. Sent(k, o)'
      BY <1>1, <1>2, <2>2, CompensatorIs, PublishEffect DEF Reply
    <3> QED
      BY <3>1, <3>2 DEF Compensated
  <2> QED
    BY <1>2, <2>1, <2>2, StaysAtWork
<1>3. \A k \in {"payment.refund", "inventory.release"} : Sent(k, o) => Sent(k, o)'
  BY <1>1, SentMoves
<1>4. ASSUME NEW k \in {"payment.refund", "inventory.release"}, Sent(k, o)'
      PROVE  Compensated(o)
  <2>1. Sent(k, o) \/ \E t \in work : Reply(t, k) /\ t.msg.order = o
    BY <1>1, <1>4, SentMoves
  <2> QED
    BY <2>1, CompensationIs DEF Compensated
<1> QED
  BY <1>2, <1>3, <1>4 DEF Compensated

\* An order that is being compensated, or was, is not cancelled again.
LEMMA CancelledAnew ==
  ASSUME Ground, NEW m \in queued, CancelOrder(m), StaysCancelled(m.order)
  PROVE  ~ Compensated(m.order)
<1> DEFINE o == m.order
           b == <<"order.queue", m.key>>
<1>1. /\ BusTypeOK /\ Deliveries /\ o \in Orders
      /\ m.key \in FailureEvents /\ Sent(m.key, o) /\ m \in queued
      /\ Untaken(m) /\ m.queue = "order.queue" /\ status[o] # "CANCELLED"
  BY Filing DEF Ground, SafetyInv, ServicesOK, HandlersOK, CancelOrder, Waiting, Holding,
     Untaken, Cancellable
<1>2. m \in About(b, o) /\ Pending(m) /\ b \in Bindings
  BY <1>1 DEF About, Home, UserQueues, Untaken, Pending, FailureEvents, Bindings
<1> SUFFICES ASSUME Compensated(o)
             PROVE  FALSE
  OBVIOUS
<1>3. Sent("payment.success", o)
  BY <1>1 DEF StaysCancelled
<1>4. ~ Sent("payment.failed", o)
  <2>1. ForPayment \in Bindings
    BY DEF ForPayment, Bindings
  <2> QED
    BY <1>1, <1>3, <2>1, AnswersAre DEF Ground, AnsweredOnce
<1>5. m.key = "inventory.failed" /\ Answers(b) = {"payment.refund"}
  BY <1>1, <1>4, AnswersAre DEF FailureEvents
<1>6. ~ Sent("payment.refund", o)
  BY <1>1, <1>2, <1>5 DEF Ground, AnsweredOnce, Answered
<1>7. ~ Sent("inventory.release", o)
  BY <1>1, <1>4 DEF Ground, SafetyInv, ServicesOK, Causality
<1>8. ASSUME NEW t \in work, t.at = "cancelled", t.msg.order = o
      PROVE  FALSE
  <2>1. /\ t.msg.key \in FailureEvents /\ Sent(t.msg.key, o)
        /\ t.msg \in About(<<"order.queue", t.msg.key>>, o) /\ Pending(t.msg)
    BY <1>8, CompensatorIs
  <2>2. t.msg.key = m.key
    BY <1>4, <1>5, <2>1 DEF FailureEvents
  <2>3. t.msg = m
    BY <1>1, <1>2, <2>1, <2>2 DEF Ground, AnsweredOnce, OneAtATime
  <2> QED
    BY <1>1, <2>3 DEF Untaken
<1> QED
  BY <1>6, <1>7, <1>8 DEF Compensated

\* A failure that waits for the order service is not given up before the order
\* is cancelled.
LEMMA FailureHeard ==
  ASSUME Ground, Attentive, [Next]_vars, NEW o \in Orders, NEW k \in FailureEvents,
         RowStored(o), FailureHeeded(o), Sent(k, o)'
  PROVE  Compensated(o)' \/ \E m \in About(<<"order.queue", k>>, o)' : Untaken(m)'
<1> Orderly
  BY AttentiveSteps
<1> DEFINE b == <<"order.queue", k>>
<1>1. /\ BusTypeOK /\ Deliveries /\ k \in Keys /\ b \in Bindings /\ b[2] = k
  BY DEF Ground, SafetyInv, ServicesOK, Keys, FailureEvents, Bindings
<1>2. CASE ~ Sent(k, o)
  BY <1>1, <1>2, NewArrives
<1>3. ASSUME NEW m \in About(b, o), Untaken(m), Sent(k, o)
      PROVE  Compensated(o)' \/ \E n \in About(b, o)' : Untaken(n)'
  <2>1. /\ m \in queued /\ m.key = k /\ m.order = o /\ Home(m) = "order.queue"
        /\ m.queue = "order.queue"
    BY <1>1 DEF About, Home, UserQueues
  <2>2. CASE m \in queued' /\ Untaken(m)'
    BY <2>1, <2>2 DEF About
  <2>3. CASE GiveUp(m)
    <3>1. status[o] \in {"none", "CANCELLED"}
      BY <2>1, <2>3 DEF GiveUp, Attentive, Cancellable
    <3>2. request[o] = "announced"
      BY <1>1, <1>3 DEF Ground, AnnouncedFirst
    <3>3. Compensated(o)
      BY <3>1, <3>2 DEF FailureHeeded, RowStored
    <3> QED
      BY <3>3, CompensationMoves
  <2>4. ASSUME NEW s \in Stages, TakeUp(m, s)
        PROVE  Compensated(o)'
    <3>1. s = "cancelled"
      BY <2>1, <2>4 DEF TakeUp, Awaits, FailureEvents
    <3>2. PICK n \in Int : Begin(m, "cancelled", n)
      BY <2>4, <3>1 DEF TakeUp
    <3>3. PICK t : t = [msg |-> m, at |-> "cancelled", seen |-> n]
      OBVIOUS
    <3>4. t \in work' /\ t.at = "cancelled" /\ t.msg.order = o
      BY <2>1, <3>2, <3>3 DEF Begin
    <3> QED
      BY <3>4 DEF Compensated
  <2> QED
    BY <1>3, <2>1, <2>2, <2>3, <2>4, WaitsOn
<1>4. Compensated(o) => Compensated(o)'
  BY CompensationMoves
<1> QED
  BY <1>2, <1>3, <1>4 DEF FailureHeeded

\* What is being given back to a customer, or was, is an order whose row says
\* that it was cancelled, unless a payment's success came after the failure.
LEMMA StaysCancelledKept ==
  ASSUME Ground, Orderly, [Next]_vars, NEW o \in Orders, StaysCancelled(o)
  PROVE  StaysCancelled(o)'
<1>1. /\ BusTypeOK /\ OrderTypeOK /\ "payment.success" \in Keys
      /\ \A m \in queued : m.order \in Orders /\ Sent(m.key, m.order)
  BY DEF Ground, SafetyInv, ServicesOK, HandlersOK, BusTypeOK, Message, Keys
<1>2. Sent("payment.success", o) => Sent("payment.success", o)'
  BY <1>1, SentMoves
<1>3. CASE /\ status'[o] \in {status[o], "CANCELLED"}
           /\ \A t \in work' : t.at = "cancelled" /\ t.msg.order = o => t \in work
  <2>1. Compensated(o)' => Compensated(o)
    BY <1>3, CompensationMoves
  <2> QED
    BY <1>2, <1>3, <2>1 DEF StaysCancelled
<1>4. CASE Sent("payment.success", o)
  BY <1>2, <1>4 DEF StaysCancelled
\* Nothing was sent about an order that is not stored yet.
<1>5. CASE /\ request[o] = "open"
           /\ \A t \in work' : t.at = "cancelled" /\ t.msg.order = o => t \in work
  <2>1. Untouched(o)
    BY <1>5 DEF Ground, AnnouncedFirst, Untouched
  <2>2. (\A k \in Keys : ~ Sent(k, o)) /\ \A t \in work : t.msg.order # o
    BY <2>1, WorkElsewhere DEF Ground, SafetyInv, Untouched
  <2>3. ~ Compensated(o)
    BY <2>2 DEF Compensated, Keys
  <2>4. ~ Compensated(o)'
    BY <1>5, <2>3, CompensationMoves
  <2> QED
    BY <2>4 DEF StaysCancelled
<1>6. CASE StoreOrder(o)
  BY <1>5, <1>6 DEF StoreOrder, busVars
<1>7. CASE AnnounceOrder(o)
  BY <1>3, <1>7 DEF AnnounceOrder
<1>8. ASSUME NEW m \in queued, m.order = o, CancelOrder(m)
      PROVE  status'[o] = "CANCELLED"
  BY <1>1, <1>8 DEF CancelOrder, Decision, FailureEvents, OrderTypeOK
<1>9. ASSUME NEW m \in queued, m.order = o, ConfirmOrder(m)
      PROVE  Sent("payment.success", o)
  BY <1>1, <1>9 DEF ConfirmOrder
<1>10. CASE Routine
  BY <1>3, <1>4, <1>6, <1>7, <1>8, <1>9, <1>10, RowMoves DEF StaysCancelled
<1>11. CASE Administrator \/ DatabaseError
  BY <1>3, <1>4, <1>5, <1>11, RowFaults
<1> QED
  BY <1>10, <1>11, OrderlySteps

\* Every failure is heard by the order service, and what it cancels it
\* compensates, whichever failure comes first.
LEMMA FailureHeededKept ==
  ASSUME Ground, Attentive, [Next]_vars, NEW o \in Orders, RowStored(o), FailureHeeded(o)
  PROVE  FailureHeeded(o)'
<1> Orderly
  BY AttentiveSteps
<1>1. OrderTypeOK /\ \A m \in queued : m.order \in Orders
  BY DEF Ground, SafetyInv, ServicesOK, BusTypeOK, Message
<1>2. \A k \in FailureEvents : Sent(k, o)' =>
        Compensated(o)' \/ \E m \in About(<<"order.queue", k>>, o)' : Untaken(m)'
  BY FailureHeard
<1> SUFFICES status'[o] = "CANCELLED" => Compensated(o)'
  BY <1>2 DEF FailureHeeded
<1>3. CASE status'[o] = status[o]
  BY <1>3, CompensationMoves DEF FailureHeeded
<1>4. CASE StoreOrder(o) \/ AnnounceOrder(o)
  BY <1>1, <1>3, <1>4 DEF StoreOrder, AnnounceOrder, OrderTypeOK
<1>5. ASSUME NEW m \in queued, m.order = o, CancelOrder(m)
      PROVE  Compensated(o)'
  <2>1. PICK t : t = [msg |-> m, at |-> "cancelled", seen |-> 0]
    OBVIOUS
  <2>2. t \in work' /\ t.at = "cancelled" /\ t.msg.order = o
    BY <1>5, <2>1 DEF CancelOrder, Begin
  <2> QED
    BY <2>2 DEF Compensated
<1>6. ASSUME NEW m \in queued, m.order = o, ConfirmOrder(m)
      PROVE  status'[o] = "CONFIRMED"
  BY <1>1, <1>6 DEF ConfirmOrder, Decision, FailureEvents, OrderTypeOK
<1> QED
  BY <1>3, <1>4, <1>5, <1>6, AttentiveSteps, RowMoves DEF orderVars

\* Every step leaves failures compensated or on their way.
LEMMA FailuresKept ==
  ASSUME Ground, Attentive, [Next]_vars, FailuresHeeded
  PROVE  FailuresHeeded'
BY RowStoredKept, FailureHeededKept DEF FailuresHeeded

\* A reply sends one event.
LEMMA RepliesOnce ==
  ASSUME Ground, NEW t \in work, NEW u \in work, NEW k \in Keys, NEW l \in Keys,
         Reply(t, k), Reply(u, l)
  PROVE  k = l /\ t.msg.order = u.msg.order
<1>1. ~ Sent(k, t.msg.order) /\ BusTypeOK /\ Deliveries
  BY ReplyAnswersOnce DEF Ground, SafetyInv, ServicesOK
<1>2. t.msg.order \in Orders /\ u.msg.order \in Orders
  BY <1>1, Filing
<1>3. Sent(k, t.msg.order)'
  BY <1>1, <1>2, PublishEffect DEF Reply
<1> QED
  BY <1>1, <1>2, <1>3, PublishEffect DEF Reply

\* An order whose payment and reservation both fail is compensated by one of
\* the two handlers, whichever comes first.
LEMMA CompensatedOnceKept ==
  ASSUME Ground, Orderly, [Next]_vars, NEW o \in Orders, StaysCancelled(o), CompensatedOnce(o)
  PROVE  CompensatedOnce(o)'
<1> DEFINE C == {"payment.refund", "inventory.release"}
<1>1. BusTypeOK /\ Deliveries /\ C \subseteq Keys
  BY DEF Ground, SafetyInv, ServicesOK, Keys
<1>2. /\ ~ (Sent("payment.refund", o) /\ Sent("inventory.release", o))
      /\ \A t, u \in work :
           t.at = "cancelled" /\ u.at = "cancelled" /\ t.msg.order = o /\ u.msg.order = o
             => t = u
      /\ \A t \in work : t.at = "cancelled" /\ t.msg.order = o =>
           ~ Sent("payment.refund", o) /\ ~ Sent("inventory.release", o)
  BY DEF CompensatedOnce
\* Where a compensation is sent, its handler is done.
<1>3. ASSUME NEW k \in C, Sent(k, o)', ~ Sent(k, o)
      PROVE  \E u \in work : /\ Reply(u, k) /\ u \notin work'
                             /\ u.at = "cancelled" /\ u.msg.order = o
  <2>1. PICK u \in work : Reply(u, k) /\ u.msg.order = o
    BY <1>1, <1>3, SentMoves
  <2>2. u.at = "cancelled"
    BY <2>1, CompensationIs
  <2>3. PICK v : v = [msg |-> u.msg, at |-> "done", seen |-> u.seen]
    OBVIOUS
  <2>4. work' = (work \ {u}) \cup {v} /\ v.at = "done"
    BY <2>1, <2>3 DEF Reply, Advance
  <2> QED
    BY <2>1, <2>2, <2>4
<1>4. ~ (Sent("payment.refund", o)' /\ Sent("inventory.release", o)')
  <2> SUFFICES ASSUME Sent("payment.refund", o)', Sent("inventory.release", o)'
               PROVE  FALSE
    OBVIOUS
  <2>1. ~ Sent("payment.refund", o) \/ ~ Sent("inventory.release", o)
    BY <1>2
  <2>2. ~ Sent("payment.refund", o) /\ ~ Sent("inventory.release", o)
    BY <1>2, <1>3, <2>1
  <2>3. PICK t \in work : Reply(t, "payment.refund")
    BY <1>3, <2>2
  <2>4. PICK u \in work : Reply(u, "inventory.release")
    BY <1>3, <2>2
  <2> QED
    BY <1>1, <2>3, <2>4, RepliesOnce
<1>5. CASE \A t \in work' : t.at = "cancelled" /\ t.msg.order = o => t \in work
  <2>1. ASSUME NEW t \in work', t.at = "cancelled", t.msg.order = o, NEW k \in C
        PROVE  ~ Sent(k, o)'
    <3>1. t \in work /\ ~ Sent(k, o)
      BY <1>2, <1>5, <2>1
    <3> QED
      BY <1>2, <1>3, <2>1, <3>1
  <2> QED
    BY <1>2, <1>4, <1>5, <2>1 DEF CompensatedOnce
<1>6. ASSUME NEW m \in queued, m.order = o, CancelOrder(m)
      PROVE  CompensatedOnce(o)'
  <2>1. PICK n : n = [msg |-> m, at |-> "cancelled", seen |-> 0]
    OBVIOUS
  <2>2. work' = work \cup {n} /\ UNCHANGED published
    BY <1>6, <2>1 DEF CancelOrder, Begin
  <2>3. ~ Compensated(o)
    BY <1>6, CancelledAnew
  <2>4. \A t \in work' : t.at = "cancelled" /\ t.msg.order = o => t = n
    BY <2>2, <2>3 DEF Compensated
  <2>5. \A k \in C : ~ Sent(k, o)'
    BY <2>2, <2>3 DEF Compensated, Sent
  <2> QED
    BY <2>4, <2>5 DEF CompensatedOnce
<1>7. CASE StoreOrder(o) \/ AnnounceOrder(o)
  <2>1. UNCHANGED work
    BY <1>7 DEF StoreOrder, AnnounceOrder, busVars
  <2> QED
    BY <1>5, <2>1
<1>8. ASSUME NEW m \in queued, m.order = o, ConfirmOrder(m)
      PROVE  CompensatedOnce(o)'
  <2>1. \A t \in work' : t.at = "cancelled" => t \in work
    BY <1>8 DEF ConfirmOrder, Begin
  <2> QED
    BY <1>5, <2>1
<1> QED
  BY <1>5, <1>6, <1>7, <1>8, OrderlySteps, RowMoves, RowFaults

\* Every step leaves compensations given once.
LEMMA CompensationsKept ==
  ASSUME Ground, Orderly, [Next]_vars, CompensationsOK
  PROVE  CompensationsOK'
BY StaysCancelledKept, CompensatedOnceKept DEF CompensationsOK

\* An order is found unpaid by the handler of its creation, before it debits.
LEMMA UnpaidMoves ==
  ASSUME Ground, Smooth, [Next]_vars, NEW o \in Orders, Unpaid(o)',
         \A m \in queued : m.key = "order.created" => m.queue = Home(m)
  PROVE  Unpaid(o) \/ request[o] = "stored"
<1> Orderly /\ Routine
  BY SmoothSteps
<1>1. /\ BusTypeOK /\ Deliveries /\ CreatedOnce
      /\ {"payment.failed", "order.created"} \subseteq Keys
  BY DEF Ground, SafetyInv, ServicesOK, PaymentsOK, PaymentsServed, Smooth, Keys
<1>2. CASE Sent("payment.failed", o)'
  <2>1. ASSUME NEW t \in work, Reply(t, "payment.failed"), t.msg.order = o
        PROVE  t.at = "declined"
    <3>1. /\ t.msg.queue = Home(t.msg) /\ <<t.msg.queue, t.msg.key>> \in Bindings
          /\ t.at \in Awaits(t.msg)
      BY <1>1, OnBinding
    <3>2. "payment.failed" \in Answers(<<t.msg.queue, t.msg.key>>)
      BY <2>1, <3>1 DEF Reply
    <3>3. t.msg.queue = "user.queue"
      BY <3>1, <3>2, AnswersAre DEF Bindings, ForPayment, ForReservation, ForRelease, ForRefund
    <3> QED
      BY <2>1, <3>1, <3>3 DEF Reply, Outcome, Verdict, Awaits, Bindings
  <2> QED
    BY <1>1, <1>2, <2>1, SentMoves DEF Unpaid
<1>3. ASSUME NEW m \in About(ForPayment, o)', Untaken(m)'
      PROVE  Unpaid(o) \/ request[o] = "stored"
  <2>1. /\ m \in queued' /\ Home(m) = "user.queue" /\ m.key = "order.created" /\ m.order = o
    BY DEF About, ForPayment
  <2>2. CASE m \in queued
    <3>1. Untaken(m)
      <4>1. ASSUME UNCHANGED busVars
            PROVE  Untaken(m)
        BY <1>3, <4>1 DEF Untaken, busVars
      <4> QED
        BY <1>1, <1>3, <2>1, <2>2, <4>1, OrderlySteps, AnnounceEffect, ComeBackEffect,
           DiscardEffect, TakeUpEffect, GoOnEffect, ReplyEffect, PutOffEffect, Filing
        DEF BusStep
    <3> QED
      BY <2>1, <2>2, <3>1 DEF Unpaid, About, ForPayment
  <2>3. CASE m \notin queued
    <3>1. ASSUME NEW r \in Orders, Announce(r)
          PROVE  request[o] = "stored"
      <4>1. m \in Routed("order.created", r)
        BY <2>1, <2>3, <3>1 DEF Announce, Publish
      <4>2. m.order = r
        BY <1>1, <4>1, RoutedMessages
      <4> QED
        BY <2>1, <3>1, <4>2 DEF Announce
    <3>2. ASSUME NEW t \in work, NEW k \in Keys, Reply(t, k)
          PROVE  FALSE
      <4>1. m \in Routed(k, t.msg.order) /\ t.msg.order \in Orders
        BY <1>1, <2>1, <2>3, <3>2, Filing DEF Reply, Publish
      <4>2. m.key = k
        BY <4>1, RoutedMessages
      <4> QED
        BY <1>1, <2>1, <3>2, <4>2, AnswersDiffer, OnBinding DEF Reply
    <3>3. ASSUME NEW t \in work, PutOff(t)
          PROVE  FALSE
      <4>1. t.msg.key = "payment.refund"
        BY <1>1, <3>3 DEF PutOff, CreatedOnce
      <4>2. \E c : queued' = queued \cup {c} /\ c.key = t.msg.key
        BY <1>1, <3>3, PutOffEffect
      <4> QED
        BY <2>1, <2>3, <4>1, <4>2
    <3>4. ASSUME NEW x \in queued, ComeBack(x)
          PROVE  FALSE
      <4>1. PICK c : queued' = (queued \ {x}) \cup {c} /\ c.key = x.key
        BY <1>1, <3>4, ComeBackEffect
      <4>2. x.key = "order.created" /\ x.queue = Home(x) /\ x.queue = "user.retry"
        BY <2>1, <2>3, <3>4, <4>1 DEF ComeBack
      <4> QED
        BY <4>2 DEF Home, UserQueues
    <3> QED
      BY <2>1, <2>3, <3>1, <3>2, <3>3, <3>4, OrderlySteps
      DEF BusStep, GiveUp, Drop, Discard, TakeUp, Begin, Ack, GoOn, busVars
  <2> QED
    BY <2>2, <2>3
<1>4. ASSUME NEW t \in work', t.at = "declined", t.msg.order = o
      PROVE  Unpaid(o)
  <2>1. CASE t \in work
    BY <1>4, <2>1 DEF Unpaid
  <2>2. CASE t \notin work
    <3>1. PICK m \in queued : TakeUp(m, "declined") /\ m = t.msg
      <4>1. ASSUME NEW m \in queued, NEW s \in Stages, TakeUp(m, s)
            PROVE  TakeUp(m, "declined") /\ m = t.msg
        <5>1. PICK n \in Int : Begin(m, s, n)
          BY <4>1 DEF TakeUp
        <5>2. PICK u : u = [msg |-> m, at |-> s, seen |-> n]
          OBVIOUS
        <5>3. t = u
          BY <2>2, <5>1, <5>2 DEF Begin
        <5> QED
          BY <1>4, <4>1, <5>2, <5>3
      <4>2. ASSUME NEW u \in work, NEW s, Advance(u, s)
            PROVE  s = "declined"
        <5>1. PICK v : v = [msg |-> u.msg, at |-> s, seen |-> u.seen]
          OBVIOUS
        <5>2. t = v
          BY <2>2, <4>2, <5>1 DEF Advance
        <5> QED
          BY <1>4, <5>1, <5>2
      <4> QED
        BY <2>2, <4>1, <4>2, OrderlySteps
        DEF BusStep, Announce, ComeBack, GiveUp, Drop, Ack, GoOn, Reply, PutOff, busVars
    <3>2. m.queue = Home(m) /\ "declined" \in Awaits(m) /\ Untaken(m)
      BY <3>1 DEF TakeUp, Waiting, Untaken
    <3>3. m.queue = "user.queue" /\ m.key = "order.created"
      BY <1>1, <3>2 DEF Awaits, Deliveries, Filed, Bindings
    <3> QED
      BY <1>4, <3>1, <3>2, <3>3 DEF Unpaid, About, ForPayment
  <2> QED
    BY <2>1, <2>2
<1> QED
  BY <1>2, <1>3, <1>4 DEF Unpaid

\* Where a debit was made, the payment is neither declined nor yet to be
\* looked at.
LEMMA DebitPays ==
  ASSUME Ground, NEW t \in work, NEW s, EnterDebit(t, s), UNCHANGED <<queued, published>>
  PROVE  ~ Unpaid(t.msg.order)'
<1> DEFINE o == t.msg.order
<1>1. /\ BusTypeOK /\ Deliveries /\ o \in Orders /\ ForPayment \in Bindings
      /\ t.msg \in About(ForPayment, o) /\ Pending(t.msg) /\ t.at = "paying"
  BY Filing, PayingIsPending
  DEF Ground, SafetyInv, ServicesOK, EnterDebit, ForPayment, Bindings
<1>2. PICK u : u = [msg |-> t.msg, at |-> s, seen |-> t.seen]
  OBVIOUS
<1>3. /\ work' = (work \ {t}) \cup {u} /\ u.msg = t.msg /\ u.at \in {"paid", "failing"}
      /\ UNCHANGED <<queued, published>>
  BY <1>2 DEF EnterDebit, Advance
<1>4. /\ OneAtATime(ForPayment, o)
      /\ Answered(ForPayment, o) => \A m \in About(ForPayment, o) : ~ Pending(m)
  BY <1>1 DEF Ground, AnsweredOnce
<1>5. ~ Sent("payment.failed", o)'
  BY <1>1, <1>3, <1>4, AnswersAre DEF Answered, Sent
<1>6. ASSUME NEW m \in About(ForPayment, o)', Untaken(m)'
      PROVE  FALSE
  <2>1. m \in About(ForPayment, o) /\ m # t.msg
    BY <1>3, <1>6 DEF About, Untaken
  <2>2. Pending(m)
    BY <1>3, <1>6, <2>1 DEF Untaken, Pending
  <2> QED
    BY <1>1, <1>4, <2>1, <2>2 DEF OneAtATime
<1>7. ASSUME NEW v \in work', v.at = "declined", v.msg.order = o
      PROVE  FALSE
  <2>1. v \in work /\ v # t
    BY <1>3, <1>7
  <2>2. v.msg \in About(ForPayment, o) /\ Pending(v.msg)
    BY <1>1, <1>7, <2>1, PayingIsPending
  <2>3. v.msg = t.msg
    BY <1>1, <1>4, <2>2 DEF OneAtATime
  <2> QED
    BY <1>1, <2>1, <2>3 DEF Deliveries, Attended
<1> QED
  BY <1>5, <1>6, <1>7 DEF Unpaid

\* Every step leaves declined payments unpaid.
LEMMA UnpaidKept ==
  ASSUME Ground, Smooth, [Next]_vars, NEW o \in Orders, Unpaid(o) => Charges(o) = 0,
         \A m \in queued : m.key = "order.created" => m.queue = Home(m)
  PROVE  Unpaid(o)' => Charges(o)' = 0
<1> Orderly /\ Routine
  BY SmoothSteps
<1>1. /\ BookStep /\ charged \in [Orders -> Nat] /\ refunded \in [Orders -> Nat]
      /\ \A t \in work : t.msg.order \in Orders
  BY BookSteps DEF Ground, SafetyInv, ServicesOK, WalletTypeOK, BusTypeOK, Task, Message
<1>2. CASE Charges(o)' = Charges(o)
  <2>1. request[o] = "stored" => Charges(o) = 0
    BY DEF Ground, AnnouncedFirst
  <2> QED
    BY <1>2, <2>1, UnpaidMoves
<1>3. CASE NoEntry
  BY <1>2, <1>3 DEF NoEntry, Charges
<1>4. ASSUME NEW t \in work, NEW s, EnterRefund(t, s)
      PROVE  Charges(o)' = Charges(o)
  BY <1>1, <1>4 DEF EnterRefund, Refund, Charges
<1>5. ASSUME NEW t \in work, NEW s, EnterDebit(t, s), t.msg.order # o
      PROVE  Charges(o)' = Charges(o)
  BY <1>1, <1>5 DEF EnterDebit, Debit, Charges
<1>6. ASSUME NEW t \in work, NEW s, EnterDebit(t, s), t.msg.order = o
      PROVE  ~ Unpaid(o)'
  <2>1. t \notin work' /\ t.at = "paying"
    <3>1. PICK u : u = [msg |-> t.msg, at |-> s, seen |-> t.seen]
      OBVIOUS
    <3> QED
      BY <1>6, <3>1 DEF EnterDebit, Advance
  <2>2. UNCHANGED <<queued, published>>
    BY <2>1, OrderlySteps
    DEF BusStep, Announce, ComeBack, GiveUp, Drop, TakeUp, Begin, Ack, GoOn, Reply,
        Outcome, Verdict, PutOff, Advance, busVars
  <2> QED
    BY <1>6, <2>2, DebitPays
<1> QED
  BY <1>1, <1>2, <1>3, <1>4, <1>5, <1>6 DEF BookStep

\* The handlers of a reservation and of a release answer with their outcome.
LEMMA StageMoves ==
  ASSUME Ground, Smooth, [Next]_vars, NEW o \in Orders,
         NEW s \in {"reserved", "released"},
         \A t \in work' : t.at = s /\ t.msg.order = o => t \in work
  PROVE  (Sent(Outcome[s], o) \/ AtStage(s, o))' <=> Sent(Outcome[s], o) \/ AtStage(s, o)
<1> Orderly /\ Routine
  BY SmoothSteps
<1>1. BusTypeOK /\ Deliveries /\ Outcome[s] \in Keys /\ s \in DOMAIN Outcome
      /\ Outcome[s] # "order.created"
  BY DEF Ground, SafetyInv, ServicesOK, Outcome, Keys
<1>2. ASSUME NEW t \in work, t.at = s, t.msg.order = o
      PROVE  Sent(Outcome[s], o)' \/ AtStage(s, o)'
  <2>1. CASE t \in work'
    BY <1>2, <2>1 DEF AtStage
  <2>2. ASSUME NEW k \in Keys, Reply(t, k)
        PROVE  Sent(Outcome[s], o)'
    BY <1>1, <1>2, <2>2, PublishEffect DEF Reply
  <2> QED
    BY <1>2, <2>1, <2>2, StaysAtWork
<1>3. ASSUME NEW t \in work, Reply(t, Outcome[s])
      PROVE  t.at = s
  <2>1. /\ t.msg.queue = Home(t.msg) /\ <<t.msg.queue, t.msg.key>> \in Bindings
        /\ t.at \in Awaits(t.msg)
    BY <1>1, OnBinding
  <2>2. Outcome[s] \in Answers(<<t.msg.queue, t.msg.key>>)
    BY <1>3, <2>1 DEF Reply
  <2>3. Outcome[s] \in {"inventory.reserved", "inventory.released"}
    BY DEF Outcome
  <2>4. t.msg.queue = "inventory.queue"
    BY <2>1, <2>2, <2>3, AnswersAre DEF Bindings, ForPayment, ForReservation, ForRelease, ForRefund
  <2>5. t.at \in {"reserved", "rejected", "released"} /\ Outcome[s] = Outcome[t.at]
    BY <1>3, <2>1, <2>4 DEF Reply, Outcome, Verdict, Awaits
  <2> QED
    BY <2>5 DEF Outcome
<1>4. Sent(Outcome[s], o) => Sent(Outcome[s], o)'
  BY <1>1, SentMoves
<1>5. Sent(Outcome[s], o)' => Sent(Outcome[s], o) \/ AtStage(s, o)
  BY <1>1, <1>3, SentMoves DEF AtStage
<1>6. AtStage(s, o)' => AtStage(s, o)
  BY DEF AtStage
<1> QED
  BY <1>2, <1>4, <1>5, <1>6 DEF AtStage

\* Nothing was reserved, or released, for the message that is being taken.
LEMMA OutcomeIsNew ==
  ASSUME Ground, NEW m \in queued, Waiting(m, "inventory.queue"),
         NEW s \in {"reserved", "released"},
         m.key = IF s = "reserved" THEN "order.created" ELSE "inventory.release"
  PROVE  ~ Sent(Outcome[s], m.order) /\ ~ AtStage(s, m.order)
<1> DEFINE b == <<"inventory.queue", m.key>>
           o == m.order
<1>1. /\ BusTypeOK /\ Deliveries /\ o \in Orders /\ b \in Bindings
      /\ m \in About(b, o) /\ Pending(m) /\ \A t \in work : t.msg # m
  BY Filing DEF Ground, SafetyInv, ServicesOK, Waiting, Holding, About, Home, UserQueues,
     Pending, Bindings
<1>2. Outcome[s] \in Answers(b)
  BY AnswersAre DEF Outcome, ForReservation, ForRelease
<1>3. ~ Sent(Outcome[s], o)
  BY <1>1, <1>2 DEF Ground, AnsweredOnce, Answered
<1>4. ASSUME NEW t \in work, t.at = s, t.msg.order = o
      PROVE  FALSE
  <2>1. /\ t.msg \in queued /\ t.msg.queue = Home(t.msg)
        /\ <<t.msg.queue, t.msg.key>> \in Bindings /\ t.at \in Awaits(t.msg)
    BY <1>1, OnBinding
  <2>2. t.msg.queue = "inventory.queue" /\ t.msg.key = m.key
    BY <1>4, <2>1 DEF Awaits, Bindings
  <2>3. t.msg \in About(b, o) /\ Pending(t.msg)
    BY <1>1, <1>4, <2>1, <2>2, AtWork DEF About
  <2> QED
    BY <1>1, <2>3 DEF Ground, AnsweredOnce, OneAtATime
<1> QED
  BY <1>3, <1>4 DEF AtStage 

\* Every step leaves held what was reserved and not released.
LEMMA HeldExactlyKept ==
  ASSUME Ground, Smooth, [Next]_vars, NEW o \in Orders, HeldExactly(o)
  PROVE  HeldExactly(o)'
<1> Orderly /\ Routine
  BY SmoothSteps
<1> DEFINE In(s) == Sent(Outcome[s], o) \/ AtStage(s, o)
<1>1. /\ held \in [Orders -> Int] /\ Outcome["reserved"] = "inventory.reserved"
      /\ Outcome["released"] = "inventory.released"
  BY DEF Ground, SafetyInv, ServicesOK, InventoryTypeOK, Outcome
<1>2. HeldExactly(o) <=> held[o] = (IF In("reserved") THEN 1 ELSE 0) - (IF In("released") THEN 1 ELSE 0)
  BY <1>1 DEF HeldExactly
<1>3. HeldExactly(o)' <=> held'[o] = (IF In("reserved")' THEN 1 ELSE 0) - (IF In("released")' THEN 1 ELSE 0)
  BY <1>1 DEF HeldExactly
<1>4. CASE /\ held'[o] = held[o]
           /\ \A t \in work' : t.at \in {"reserved", "released"} /\ t.msg.order = o => t \in work
  <2>1. \A s \in {"reserved", "released"} : In(s)' <=> In(s)
    BY <1>4, StageMoves
  <2> QED
    BY <1>2, <1>3, <1>4, <2>1
<1>5. ASSUME NEW m \in queued, m.order = o, NEW s \in {"reserved", "released"},
             Waiting(m, "inventory.queue"), Begin(m, s, 0),
             m.key = IF s = "reserved" THEN "order.created" ELSE "inventory.release"
      PROVE  /\ ~ In(s) /\ In(s)'
             /\ \A r \in {"reserved", "released"} : r # s => (In(r)' <=> In(r))
  <2>1. PICK t : t = [msg |-> m, at |-> s, seen |-> 0]
    OBVIOUS
  <2>2. work' = work \cup {t} /\ t.at = s /\ t.msg.order = o
    BY <1>5, <2>1 DEF Begin
  <2>3. In(s)'
    BY <2>2 DEF AtStage
  <2>4. ~ In(s)
    BY <1>5, OutcomeIsNew
  <2>5. ASSUME NEW r \in {"reserved", "released"}, r # s
        PROVE  In(r)' <=> In(r)
    <3>1. \A u \in work' : u.at = r /\ u.msg.order = o => u \in work
      BY <2>2, <2>5
    <3> QED
      BY <3>1, StageMoves
  <2> QED
    BY <2>3, <2>4, <2>5
<1>6. ASSUME NEW m \in queued, m.order = o, ReserveStock(m)
      PROVE  HeldExactly(o)'
  <2>1. held'[o] = held[o] + 1
    BY <1>1, <1>6 DEF ReserveStock, Take
  <2>2. ~ In("reserved") /\ In("reserved")' /\ (In("released")' <=> In("released"))
    BY <1>5, <1>6 DEF ReserveStock
  <2> QED
    BY <1>1, <1>2, <1>3, <2>1, <2>2
<1>7. ASSUME NEW m \in queued, m.order = o, ReleaseStock(m)
      PROVE  HeldExactly(o)'
  <2>1. held'[o] = held[o] - 1
    BY <1>1, <1>7 DEF ReleaseStock, Return
  <2>2. ~ In("released") /\ In("released")' /\ (In("reserved")' <=> In("reserved"))
    BY <1>5, <1>7 DEF ReleaseStock
  <2> QED
    BY <1>1, <1>2, <1>3, <2>1, <2>2
<1> QED
  BY <1>4, <1>6, <1>7, StockMoves

-----------------------------------------------------------------------------
(* The theorems.                                                           *)

\* Every step keeps the books of each order.
LEMMA SettlingKept ==
  ASSUME Ground, Smooth, Settling, [Next]_vars
  PROVE  Settling'
<1>1. \A m \in queued' : m.key = "order.created" => m.queue = Home(m)
  BY CreatedAtHomeKept DEF Settling
<1>2. ASSUME NEW o \in Orders
      PROVE  /\ request'[o] = "announced" => Sent("order.created", o)'
             /\ \A b \in {ForPayment, ForReservation, ForRelease} : NotLost(b, o)'
             /\ Unpaid(o)' => Charges(o)' = 0
             /\ HeldExactly(o)'
  <2>1. /\ request[o] = "announced" => Sent("order.created", o)
        /\ \A b \in {ForPayment, ForReservation, ForRelease} : NotLost(b, o)
        /\ Unpaid(o) => Charges(o) = 0
        /\ HeldExactly(o)
    BY DEF Settling
  <2>2. \A m \in queued : m.key = "order.created" => m.queue = Home(m)
    BY DEF Settling
  <2>3. request'[o] = "announced" => Sent("order.created", o)'
    BY <2>1, AnnouncedKept
  <2>4. \A b \in {ForPayment, ForReservation, ForRelease} : NotLost(b, o)'
    BY <2>1, NotLostKept
  <2>5. Unpaid(o)' => Charges(o)' = 0
    BY <2>1, <2>2, UnpaidKept
  <2>6. HeldExactly(o)'
    BY <2>1, HeldExactlyKept
  <2> QED
    BY <2>3, <2>4, <2>5, <2>6
<1>3. CompensationsOK' /\ FailuresHeeded'
  BY SmoothSteps, CompensationsKept, FailuresKept DEF Settling
<1> QED
  BY <1>1, <1>2, <1>3 DEF Settling

\* At the start nothing is compensated ...
LEMMA CompensationsInit == Init => CompensationsOK
<1> SUFFICES ASSUME Init, NEW o \in Orders
             PROVE  StaysCancelled(o) /\ CompensatedOnce(o)
  BY DEF CompensationsOK
<1>1. work = {} /\ ~ Sent("payment.refund", o) /\ ~ Sent("inventory.release", o)
  BY DEF Init, BusInit, Sent, Keys
<1> QED
  BY <1>1 DEF StaysCancelled, CompensatedOnce, Compensated

\* ... nothing has failed ...
LEMMA FailuresInit == Init => FailuresHeeded
<1> SUFFICES ASSUME Init, NEW o \in Orders
             PROVE  RowStored(o) /\ FailureHeeded(o)
  BY DEF FailuresHeeded
<1>1. /\ request[o] \notin {"stored", "announced"} /\ status[o] = "none"
      /\ \A k \in FailureEvents : ~ Sent(k, o)
  BY DEF Init, BusInit, OrderInit, Sent, Keys, FailureEvents
<1> QED
  BY <1>1 DEF RowStored, FailureHeeded

\* ... and the books are balanced.
LEMMA SettlingInit == Init => Settling
<1> SUFFICES ASSUME Init PROVE Settling
  OBVIOUS
<1>1. queued = {} /\ work = {}
  BY DEF Init, BusInit
<1>2. ASSUME NEW o \in Orders
      PROVE  /\ request[o] \notin {"stored", "announced"} /\ status[o] = "none"
             /\ held[o] = 0 /\ Charges(o) = 0
             /\ \A k \in Keys : ~ Sent(k, o)
  BY <1>1 DEF Init, BusInit, OrderInit, InventoryInit, WalletInit, Charges, Sent
<1>3. ASSUME NEW o \in Orders
      PROVE  /\ \A b \in {ForPayment, ForReservation, ForRelease} : NotLost(b, o)
             /\ HeldExactly(o)
  <2>1. /\ ~ Sent("order.created", o) /\ ~ Sent("inventory.release", o)
        /\ ~ Sent("payment.refund", o) /\ ~ Sent("inventory.failed", o)
        /\ ~ Sent("payment.failed", o) /\ ~ Sent("inventory.reserved", o)
        /\ ~ Sent("inventory.released", o)
    BY <1>2 DEF Keys
  <2>2. \A b \in {ForPayment, ForReservation, ForRelease} : NotLost(b, o)
    BY <2>1 DEF NotLost, ForPayment, ForReservation, ForRelease
  <2>3. HeldExactly(o)
    BY <1>1, <1>2, <2>1 DEF HeldExactly, AtStage
  <2> QED
    BY <2>2, <2>3
<1> QED
  BY <1>1, <1>2, <1>3, CompensationsInit, FailuresInit DEF Settling

\* Without crashes, everything the other modules prove holds together.
LEMMA GroundHolds ==
  ASSUME MaxCrashes = 0
  PROVE  Spec => []Ground
<1>1. SafetyInv /\ AnnouncedFirst /\ Deliveries /\ AnsweredOnce /\ PaymentsOK => Ground
  BY DEF Ground
<1>2. (Spec => []AnsweredOnce) /\ (Spec => []PaymentsOK)
  BY AnsweredOnceHolds, PaymentsHold
<1> QED
  BY <1>1, <1>2, SafetyInvariant, AnnouncedFirstHolds, DeliveriesHold, PTL

\* The order service's two failure handlers never both compensate an order, in
\* whatever order the failures arrive, also when its database fails before or
\* after the update, when the other databases do, or an administrator cancels
\* the order meanwhile.  With a crash, a payment may be reported as made and
\* as failed; with other statuses, a cancelled order may be cancelled again.
THEOREM OneCompensationHolds ==
  ASSUME Orderly
  PROVE  Spec => []OneCompensation
<1>1. CompensationsOK => OneCompensation
  BY DEF CompensationsOK, CompensatedOnce, OneCompensation
<1>2. Ground /\ CompensationsOK /\ [Next]_vars => CompensationsOK'
  BY CompensationsKept
<1>3. Spec => []Ground
  BY GroundHolds DEF Orderly
<1> QED
  BY <1>1, <1>2, <1>3, CompensationsInit, PTL DEF Spec

\* While nothing fails, the saga keeps these books of each order: nothing that
\* was asked for is lost, a failure cancels the order and starts one
\* compensation, no payment is declined that was made, and stock is held for
\* the order exactly from its reservation to its release.
THEOREM SettlingHolds ==
  ASSUME Smooth
  PROVE  Spec => []Settling /\ []Ground
<1>1. Spec => []Ground
  BY GroundHolds DEF Smooth
<1>2. Ground /\ Settling /\ [Next]_vars => Settling'
  BY SettlingKept
<1> QED
  BY <1>1, <1>2, SettlingInit, PTL DEF Spec

\* When all is quiet nobody is at work, and only dead letters are left.
LEMMA AtRest ==
  ASSUME Ground, Quiet
  PROVE  /\ work = {}
         /\ \A o \in Orders, b \in Bindings : \A m \in About(b, o) :
              b[1] = "user.queue" /\ m.queue = "user.dlq"
<1>1. \A m \in queued : m.queue = "user.dlq" /\ Home(m) = "user.queue"
  BY DEF Quiet, Home, UserQueues
<1>2. ASSUME NEW t \in work PROVE FALSE
  BY <1>1, OnBinding DEF Ground
<1>3. ASSUME NEW o \in Orders, NEW b \in Bindings, NEW m \in About(b, o)
      PROVE  b[1] = "user.queue" /\ m.queue = "user.dlq"
  <2>1. b = <<b[1], b[2]>>
    BY DEF Bindings
  <2> QED
    BY <1>1, <2>1 DEF About
<1> QED
  BY <1>2, <1>3

\* When all is quiet, what failed was compensated.
LEMMA RestIsCompensated ==
  ASSUME Ground, FailuresHeeded, Quiet, NEW o \in Orders,
         Sent("inventory.failed", o) \/ Sent("payment.failed", o)
  PROVE  Sent("payment.refund", o) \/ Sent("inventory.release", o)
<1>1. PICK k \in FailureEvents : Sent(k, o)
  BY DEF FailureEvents
<1>2. <<"order.queue", k>> \in Bindings
  BY DEF FailureEvents, Bindings
<1>3. About(<<"order.queue", k>>, o) = {}
  BY <1>2, AtRest
<1>4. Compensated(o)
  BY <1>1, <1>3 DEF FailuresHeeded, FailureHeeded
<1> QED
  BY <1>4, AtRest DEF Compensated

\* When all is quiet, what was asked for was answered.
LEMMA RestIsSettled ==
  ASSUME Ground, Settling, Quiet, NEW o \in Orders
  PROVE  /\ Sent("order.created", o) =>
              /\ Sent("payment.success", o) \/ Sent("payment.failed", o)
              /\ Sent("inventory.reserved", o) \/ Sent("inventory.failed", o)
         /\ Sent("inventory.release", o) => Sent("inventory.released", o)
         /\ Sent("inventory.failed", o) \/ Sent("payment.failed", o) =>
              Sent("payment.refund", o) \/ Sent("inventory.release", o)
<1>1. \A b \in {ForPayment, ForReservation, ForRelease} : b \in Bindings
  BY DEF ForPayment, ForReservation, ForRelease, Bindings
<1>2. About(ForReservation, o) = {} /\ About(ForRelease, o) = {}
  <2>1. ForReservation[1] # "user.queue" /\ ForRelease[1] # "user.queue"
    BY DEF ForReservation, ForRelease
  <2> QED
    BY <1>1, <2>1, AtRest
<1>3. About(ForPayment, o) = {}
  <2> SUFFICES ASSUME NEW m \in About(ForPayment, o) PROVE FALSE
    OBVIOUS
  <2>1. m.queue = "user.dlq"
    BY <1>1, AtRest
  <2> QED
    BY <2>1 DEF About, ForPayment, Settling, Home, UserQueues
<1>4. /\ Sent("order.created", o) => Answered(ForPayment, o) /\ Answered(ForReservation, o)
      /\ Sent("inventory.release", o) => Answered(ForRelease, o)
  BY <1>2, <1>3 DEF Settling, NotLost, ForPayment, ForReservation, ForRelease
<1>5. Sent("inventory.failed", o) \/ Sent("payment.failed", o) =>
        Sent("payment.refund", o) \/ Sent("inventory.release", o)
  BY RestIsCompensated DEF Settling
<1> QED
  BY <1>4, <1>5, AnswersAre DEF Answered

\* Once everything has come to rest, a reservation or a payment that failed was
\* answered with a compensation, whatever fails in the other two services: no
\* order is cancelled and left as it is.
THEOREM RefusedIsCompensatedHolds ==
  ASSUME Attentive
  PROVE  Spec => []RefusedIsCompensated
<1>1. Ground /\ FailuresHeeded => RefusedIsCompensated
  BY RestIsCompensated DEF RefusedIsCompensated
<1>2. Ground /\ FailuresHeeded /\ [Next]_vars => FailuresHeeded'
  BY FailuresKept
<1>3. Spec => []Ground
  BY GroundHolds DEF Attentive
<1> QED
  BY <1>1, <1>2, <1>3, FailuresInit, PTL DEF Spec

\* Once everything has come to rest, whoever was charged has the goods reserved
\* or a refund that the dead letters hold: the money is not just gone.
THEOREM ChargedForGoodsHolds ==
  ASSUME Smooth
  PROVE  Spec => []ChargedForGoods
<1>1. ASSUME Ground, Settling, RefundNotForgotten
      PROVE  ChargedForGoods
  <2> SUFFICES ASSUME Quiet, NEW o \in Orders, charged[o] > 0, ~ DeadRefund(o)
               PROVE  held[o] > 0
    BY DEF ChargedForGoods
  <2>1. charged[o] \in Nat /\ refunded[o] \in Nat
    BY <1>1 DEF Ground, SafetyInv, ServicesOK, WalletTypeOK
  <2>2. Charges(o) # 0
    BY <2>1 DEF Charges
  <2>3. ~ Sent("payment.failed", o)
    BY <1>1, <2>2 DEF Settling, Unpaid
  <2>4. ~ Sent("payment.refund", o)
    BY <1>1 DEF RefundNotForgotten
  <2>5. ~ Sent("inventory.release", o)
    BY <1>1, <2>3 DEF Ground, SafetyInv, ServicesOK, Causality
  <2>6. Sent("order.created", o)
    BY <1>1, <2>2 DEF Ground, AnnouncedFirst, Settling
  <2>7. Sent("inventory.reserved", o)
    BY <1>1, <2>4, <2>5, <2>6, RestIsSettled
  <2>8. ~ Sent("inventory.released", o)
    <3>1. ForRelease \in Bindings /\ ForRelease[2] = "inventory.release"
      BY DEF ForRelease, Bindings
    <3> QED
      BY <1>1, <2>5, <3>1, AnswersAre DEF Ground, AnsweredOnce, Answered
  <2>9. work = {} /\ HeldExactly(o)
    BY <1>1, AtRest DEF Settling
  <2>10. held[o] = 1
    BY <2>7, <2>8, <2>9 DEF HeldExactly, AtStage
  <2> QED
    BY <2>10
<1>2. Spec => []RefundNotForgotten
  BY RefundNotForgottenHolds DEF Smooth
<1> QED
  BY <1>1, <1>2, SettlingHolds, PTL

\* Once everything has come to rest, nothing is reserved for an order that was
\* not paid.
THEOREM HeldForMoneyHolds ==
  ASSUME Smooth
  PROVE  Spec => []HeldForMoney
<1>1. ASSUME Ground, Settling
      PROVE  HeldForMoney
  <2> SUFFICES ASSUME Quiet, NEW o \in Orders, held[o] > 0
               PROVE  charged[o] > 0
    BY DEF HeldForMoney
  <2>1. /\ charged[o] \in Nat /\ refunded[o] \in Nat
        /\ \A b \in Bindings : /\ Answered(b, o) => Sent(b[2], o)
                               /\ \A k, l \in Answers(b) : Sent(k, o) /\ Sent(l, o) => k = l
    BY <1>1 DEF Ground, SafetyInv, ServicesOK, WalletTypeOK, AnsweredOnce
  <2>2. ForReservation \in Bindings /\ ForReservation[2] = "order.created"
    BY DEF ForReservation, Bindings
  <2>3. work = {} /\ HeldExactly(o)
    BY <1>1, AtRest DEF Settling
  <2>4. Sent("inventory.reserved", o) /\ ~ Sent("inventory.released", o)
    BY <2>3 DEF HeldExactly, AtStage
  <2>5. Sent("order.created", o)
    BY <2>1, <2>2, <2>4, AnswersAre DEF Answered
  <2>6. ~ Sent("inventory.failed", o)
    BY <2>1, <2>2, <2>4, AnswersAre
  <2>7. ~ Sent("payment.refund", o) /\ ~ (refunded[o] > 0)
    BY <1>1, <2>6 DEF Ground, SafetyInv, ServicesOK, Causality
  <2>8. ~ Sent("inventory.release", o)
    BY <1>1, <2>4, RestIsSettled
  <2>9. Sent("payment.success", o)
    BY <1>1, <2>5, <2>7, <2>8, RestIsSettled
  <2>10. Charges(o) > 0
    BY <1>1, <2>9 DEF Ground, SafetyInv, ServicesOK, Causality
  <2> QED
    BY <2>1, <2>7, <2>10 DEF Charges
<1> QED
  BY <1>1, SettlingHolds, PTL
=============================================================================
