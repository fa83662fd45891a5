----------------------------- MODULE SagaProofs -----------------------------
(***************************************************************************)
(* What holds of the saga for every number of orders, products and users   *)
(* and every sequence of failures.                                         *)
(***************************************************************************)
EXTENDS SagaProperties, BusProofs

-----------------------------------------------------------------------------
(* The invariant, one lemma for each service.                              *)

\* A step that neither unsends an event nor takes back a debit keeps the
\* tasks, messages and statuses it leaves alone in order.
LEMMA HandlersKept ==
  ASSUME ServicesOK, BusTypeOK',
         \A k \in Keys, o \in Orders : Sent(k, o) => Sent(k, o)',
         \A o \in Orders : Charges(o) > 0 => Charges(o)' > 0,
         \A m \in queued' : m \in queued \/ Sent(m.key, m.order)',
         \A t \in work' : t \in work \/ TaskOK(t)'
  PROVE  HandlersOK' /\ (UNCHANGED status => StatusOK')
<1>1. \A m \in queued : m.key \in Keys /\ m.order \in Orders
  BY DEF ServicesOK, BusTypeOK, Message
<1>2. \A t \in work : t.msg.key \in Keys /\ t.msg.order \in Orders
  BY DEF ServicesOK, BusTypeOK, Task, Message
<1>3. \A t \in work : TaskOK(t)'
  BY <1>2 DEF ServicesOK, HandlersOK, TaskOK
<1>4. UNCHANGED status => StatusOK'
  BY DEF ServicesOK, StatusOK, StatusExplained, Keys
<1> QED
  BY <1>1, <1>3, <1>4 DEF ServicesOK, HandlersOK

\* A step that publishes nothing and moves neither stock nor money.
LEMMA BooksKept ==
  ASSUME ServicesOK, BusTypeOK', OrderTypeOK',
         UNCHANGED <<inventoryVars, walletVars, published>>,
         queued' \subseteq queued,
         \A t \in work' : t \in work \/ TaskOK(t)',
         UNCHANGED status \/ StatusOK'
  PROVE  ServicesOK'
<1>1. /\ InventoryTypeOK' /\ WalletTypeOK'
      /\ StockNonNegative' /\ BalanceNonNegative' /\ Causality'
  BY DEF ServicesOK, InventoryTypeOK, WalletTypeOK, StockNonNegative,
         BalanceNonNegative, Causality, Sent, Charges, inventoryVars, walletVars
<1>2. HandlersOK' /\ StatusOK'
  <2>1. \A k \in Keys, o \in Orders : Sent(k, o) => Sent(k, o)'
    BY DEF Sent
  <2>2. \A o \in Orders : Charges(o) > 0 => Charges(o)' > 0
    BY DEF Charges, walletVars
  <2> QED
    BY <2>1, <2>2, HandlersKept
<1> QED
  BY <1>1, <1>2 DEF ServicesOK, StatusOK

\* A handler that publishes an event it may publish, and is done.
LEMMA PublicationKept ==
  ASSUME ServicesOK, UNCHANGED <<orderVars, inventoryVars, walletVars>>,
         NEW t \in work, NEW k \in Keys,
         Publish(k, t.msg.order), Advance(t, "done"),
         k = "payment.refund" => Sent("inventory.failed", t.msg.order),
         k = "inventory.release" => Sent("payment.failed", t.msg.order),
         k = "payment.success" => Charges(t.msg.order) > 0
  PROVE  ServicesOK'
<1> DEFINE o == t.msg.order
<1>1. BusTypeOK /\ o \in Orders /\ t.msg.key \in Keys /\ Sent(t.msg.key, o)
  BY DEF ServicesOK, HandlersOK, TaskOK, BusTypeOK, Task, Message
<1>2. /\ queued' \subseteq Message
      /\ published' \in [Keys -> [Orders -> Nat]]
      /\ \A m \in queued' : m \in queued \/ (m.key = k /\ m.order = o)
      /\ \A l \in Keys, r \in Orders :
           Sent(l, r)' <=> Sent(l, r) \/ (l = k /\ r = o)
  BY <1>1, PublishEffect
<1>3. /\ work' \subseteq Task
      /\ \A x \in work' :
           x \in work \/ x = [msg |-> t.msg, at |-> "done", seen |-> t.seen]
  BY <1>1, AdvanceEffect DEF Stages
<1>4. BusTypeOK'
  BY <1>2, <1>3 DEF BusTypeOK
<1>5. HandlersOK' /\ StatusOK'
  <2>1. TaskOK([msg |-> t.msg, at |-> "done", seen |-> t.seen])'
    BY <1>1, <1>2 DEF TaskOK
  <2>2. \A m \in queued' : m \in queued \/ Sent(m.key, m.order)'
    BY <1>1, <1>2
  <2>3. \A r \in Orders : Charges(r) > 0 => Charges(r)' > 0
    BY DEF Charges, walletVars
  <2> QED
    BY <1>2, <1>3, <1>4, <2>1, <2>2, <2>3, HandlersKept DEF orderVars
<1>6. Causality'
  BY <1>1, <1>2
  DEF ServicesOK, Causality, Charges, Keys, inventoryVars, walletVars
<1> QED
  BY <1>4, <1>5, <1>6
  DEF ServicesOK, OrderTypeOK, InventoryTypeOK, WalletTypeOK, StockNonNegative,
      BalanceNonNegative, StatusOK, orderVars, inventoryVars, walletVars

\* The steps that are the order service's own, faults included.
OrderAction ==
  \/ \E o \in Orders, p \in Products :
       CheckProduct(o, p, stock[p]) \/ RefuseOrder(o, p, stock[p])
  \/ \E o \in Orders : StoreOrder(o)
  \/ \E o \in Orders, s \in AdminStatuses : AdminUpdate(o, s)
  \/ OrderStep \/ OrderFault \/ OrderCrash

\* No step of the order service (createOrder, updateOrder, the consumer of
\* order.queue) breaks the invariant.
LEMMA OrderPreserves ==
  ASSUME ServicesOK, OrderAction, UNCHANGED <<inventoryVars, walletVars>>
  PROVE  ServicesOK'
<1> BusTypeOK /\ OrderTypeOK
  BY DEF ServicesOK
\* One row changes, and what happened explains its new status.
<1>0. ASSUME NEW o \in Orders, NEW v \in Status, UNCHANGED published,
             status' = [status EXCEPT ![o] = v],
             v = "CONFIRMED" => Charges(o) > 0,
             v = "CANCELLED" =>
               Sent("inventory.failed", o) \/ Sent("payment.failed", o)
      PROVE  StatusOK'
  BY <1>0
  DEF ServicesOK, OrderTypeOK, StatusOK, StatusExplained, Sent, Charges, walletVars
<1>1. ASSUME UNCHANGED busVars, OrderTypeOK', UNCHANGED status \/ StatusOK'
      PROVE  ServicesOK'
  <2>1. BusTypeOK'
    BY <1>1 DEF BusTypeOK, busVars
  <2> QED
    BY <1>1, <2>1, BooksKept DEF busVars
<1>2. ASSUME NEW o \in Orders, NEW p \in Products,
             CheckProduct(o, p, stock[p]) \/ RefuseOrder(o, p, stock[p])
      PROVE  ServicesOK'
  BY <1>1, <1>2 DEF CheckProduct, RefuseOrder, OrderTypeOK, RequestStates
<1>3. ASSUME NEW o \in Orders, StoreOrder(o)
      PROVE  ServicesOK'
  <2>1. OrderTypeOK' /\ UNCHANGED busVars
    BY <1>3 DEF StoreOrder, OrderTypeOK, RequestStates, Status
  <2>2. StatusOK'
    BY <1>0, <1>3 DEF StoreOrder, Status, busVars
  <2> QED
    BY <1>1, <2>1, <2>2
<1>4. ASSUME NEW o \in Orders, NEW s \in AdminStatuses, AdminUpdate(o, s)
      PROVE  ServicesOK'
  BY <1>1, <1>4, OrderAssumption DEF AdminUpdate, OrderTypeOK, StatusOK
<1>5. ASSUME NEW o \in Orders, NEW applied \in BOOLEAN,
             OrderRequestFails(o, applied)
      PROVE  ServicesOK'
  <2>1. OrderTypeOK' /\ UNCHANGED busVars
    BY <1>5 DEF OrderRequestFails, OrderTypeOK, RequestStates, Status
  <2>2. CASE applied
    BY <1>0, <1>1, <1>5, <2>1, <2>2 DEF OrderRequestFails, Status, busVars
  <2>3. CASE ~ applied
    BY <1>1, <1>5, <2>1, <2>3 DEF OrderRequestFails, OrderTypeOK
  <2> QED
    BY <2>2, <2>3
<1>6. ASSUME NEW o \in Orders, AnnounceOrder(o)
      PROVE  ServicesOK'
  <2>1. OrderTypeOK'
    BY <1>6 DEF AnnounceOrder, OrderTypeOK, RequestStates
  <2>2. /\ BusTypeOK'
        /\ \A m \in queued' : m \in queued \/ (m.key = "order.created" /\ m.order = o)
        /\ \A l \in Keys, r \in Orders :
             Sent(l, r)' <=> Sent(l, r) \/ (l = "order.created" /\ r = o)
    BY <1>6, PublishEffect DEF AnnounceOrder, BusTypeOK, Keys
  <2>3. HandlersOK' /\ StatusOK'
    <3>1. \A m \in queued' : m \in queued \/ Sent(m.key, m.order)'
      BY <2>2 DEF Keys
    <3>2. \A r \in Orders : Charges(r) > 0 => Charges(r)' > 0
      BY DEF Charges, walletVars
    <3> QED
      BY <1>6, <2>2, <3>1, <3>2, HandlersKept DEF AnnounceOrder
  <2>4. Causality'
    BY <2>2 DEF ServicesOK, Causality, Charges, Keys, inventoryVars, walletVars
  <2> QED
    BY <2>1, <2>2, <2>3, <2>4
    DEF ServicesOK, InventoryTypeOK, WalletTypeOK, StockNonNegative,
        BalanceNonNegative, StatusOK, inventoryVars, walletVars
<1>7. ASSUME NEW m \in queued, CancelOrder(m) \/ ConfirmOrder(m)
      PROVE  ServicesOK'
  <2>1. m.order \in Orders /\ m.key \in Keys
    BY DEF BusTypeOK, Message
  <2>2. Decision[m.key] \in Status
    BY <1>7 DEF CancelOrder, ConfirmOrder, Decision, Status
  <2>3. OrderTypeOK'
    BY <1>7, <2>1, <2>2 DEF CancelOrder, ConfirmOrder, OrderTypeOK
  <2>4. PICK s \in Stages :
          /\ Begin(m, s, 0)
          /\ (s = "cancelled" /\ m.key \in FailureEvents) \/ s = "done"
    BY <1>7 DEF CancelOrder, ConfirmOrder, Stages
  <2>5. /\ BusTypeOK' /\ UNCHANGED <<queued, published>>
        /\ \A t \in work' : t \in work \/ t = [msg |-> m, at |-> s, seen |-> 0]
    BY <2>4, BeginEffect
  <2>6. TaskOK([msg |-> m, at |-> s, seen |-> 0])'
    BY <2>4, <2>5 DEF TaskOK, Sent, ServicesOK, HandlersOK
  <2>7. StatusOK'
    BY <1>0, <1>7, <2>1, <2>2, <2>5, <2>6
    DEF CancelOrder, ConfirmOrder, Decision, FailureEvents, ServicesOK,
        HandlersOK, Causality
  <2> QED
    BY <2>3, <2>5, <2>6, <2>7, BooksKept
<1>8. ASSUME NEW m \in queued, OrderTypeOK', Drop(m),
             UNCHANGED status \/ StatusOK'
      PROVE  ServicesOK'
  BY <1>8, RemovalEffect, BooksKept
<1>9. ASSUME NEW m \in queued, RejectCancel(m)
      PROVE  ServicesOK'
  BY <1>8, <1>9 DEF RejectCancel, OrderTypeOK, orderVars
<1>10. ASSUME NEW m \in queued, NEW applied \in BOOLEAN,
              OrderHandlerFails(m, applied)
       PROVE  ServicesOK'
  <2>1. m.order \in Orders
    BY DEF BusTypeOK, Message
  <2>2. Decision[m.key] \in Status
    BY <1>10 DEF OrderHandlerFails, Decision, Status
  <2>3. OrderTypeOK' /\ Drop(m)
    BY <1>10, <2>1, <2>2 DEF OrderHandlerFails, OrderTypeOK
  <2>4. UNCHANGED status \/ StatusOK'
    <3>1. CASE applied
      BY <1>0, <1>10, <2>1, <2>2, <2>3, <3>1
      DEF OrderHandlerFails, Decision, FailureEvents, ServicesOK, HandlersOK,
          Causality, Drop
    <3>2. CASE ~ applied
      BY <1>10, <3>2 DEF OrderHandlerFails
    <3> QED
      BY <3>1, <3>2
  <2> QED
    BY <1>8, <2>3, <2>4
<1>11. ASSUME NEW t \in work, PublishCompensation(t)
       PROVE  ServicesOK'
  <2> DEFINE o == t.msg.order
             k == Compensation[t.msg.key]
  <2>1. o \in Orders /\ t.msg.key \in FailureEvents /\ Sent(t.msg.key, o)
    BY <1>11 DEF PublishCompensation, ServicesOK, HandlersOK, TaskOK,
                 BusTypeOK, Task, Message
  <2>2. /\ k \in Keys
        /\ \/ k = "payment.refund" /\ Sent("inventory.failed", o)
           \/ k = "inventory.release" /\ Sent("payment.failed", o)
    <3>1. CASE t.msg.key = "inventory.failed"
      BY <2>1, <3>1 DEF FailureEvents, Compensation, Keys
    <3>2. CASE t.msg.key = "payment.failed"
      BY <2>1, <3>2 DEF FailureEvents, Compensation, Keys
    <3> QED
      BY <2>1, <3>1, <3>2 DEF FailureEvents
  <2> QED
    BY <1>11, <2>1, <2>2, PublicationKept DEF PublishCompensation
<1>12. ASSUME NEW t \in work, AckOrderEvent(t)
       PROVE  ServicesOK'
  BY <1>12, RemovalEffect, BooksKept DEF AckOrderEvent, OrderTypeOK, orderVars
<1>13. CASE OrderCrash
  <2>1. OrderTypeOK'
    BY <1>13 DEF OrderCrash, OrderTypeOK, RequestStates
  <2>2. LoseTasks("order.queue") /\ "order.queue" \in Queues /\ UNCHANGED status
    BY <1>13 DEF OrderCrash, Queues
  <2> QED
    BY <2>1, <2>2, RemovalEffect, BooksKept
<1> QED
  BY <1>2, <1>3, <1>4, <1>5, <1>6, <1>7, <1>9, <1>10, <1>11, <1>12, <1>13
  DEF OrderAction, OrderStep, OrderFault, TasksOf

\* No step of the product service (handleOrderCreate, handleInventoryRelease)
\* breaks the invariant.
LEMMA InventoryPreserves ==
  ASSUME ServicesOK, InventoryStep \/ InventoryFault \/ InventoryCrash,
         UNCHANGED <<orderVars, walletVars>>
  PROVE  ServicesOK'
<1> BusTypeOK /\ InventoryTypeOK /\ OrderTypeOK' /\ UNCHANGED status
  BY DEF ServicesOK, OrderTypeOK, orderVars
<1>1. \A m \in queued : /\ m.order \in Orders /\ m.key \in Keys
                         /\ Sent(m.key, m.order)
  BY DEF ServicesOK, HandlersOK, BusTypeOK, Message
<1>2. \A o \in Orders, p \in Products : Need[o][p] \in Nat
  BY ItemsAssumption
\* A handler starts or loses its message, having done its transaction or not.
<1>3. ASSUME NEW m \in queued, NEW s \in {"reserved", "rejected", "released"},
             Begin(m, s, 0) \/ Drop(m),
             \/ UNCHANGED inventoryVars
             \/ Available(m.order) /\ Take(m.order)
             \/ m.key = "inventory.release" /\ Return(m.order)
      PROVE  ServicesOK'
  <2>1. InventoryTypeOK' /\ StockNonNegative'
    BY <1>1, <1>2, <1>3
    DEF ServicesOK, InventoryTypeOK, StockNonNegative, Available, Take, Return,
        inventoryVars
  <2>2. /\ BusTypeOK' /\ queued' \subseteq queued /\ UNCHANGED published
        /\ \A t \in work' : t \in work \/ t = [msg |-> m, at |-> s, seen |-> 0]
    BY <1>3, BeginEffect, RemovalEffect DEF Stages
  <2>3. HandlersOK' /\ StatusOK'
    <3>1. TaskOK([msg |-> m, at |-> s, seen |-> 0])'
      BY <1>1, <2>2 DEF TaskOK, Sent
    <3>2. /\ \A k \in Keys, o \in Orders : Sent(k, o) => Sent(k, o)'
          /\ \A o \in Orders : Charges(o) > 0 => Charges(o)' > 0
      BY <2>2 DEF Sent, Charges, walletVars
    <3> QED
      BY <2>2, <3>1, <3>2, HandlersKept
  <2>4. Causality'
    BY <1>1, <1>3, <2>2
    DEF ServicesOK, Causality, Sent, Charges, InventoryTypeOK, Take, Return,
        inventoryVars, walletVars
  <2> QED
    BY <2>1, <2>2, <2>3, <2>4
    DEF ServicesOK, StatusOK, WalletTypeOK, BalanceNonNegative, walletVars
<1>4. ASSUME NEW m \in queued,
             ReserveStock(m) \/ RejectReservation(m) \/ ReleaseStock(m)
      PROVE  ServicesOK'
  BY <1>3, <1>4 DEF ReserveStock, RejectReservation, ReleaseStock
<1>5. ASSUME NEW m \in queued, NEW applied \in BOOLEAN,
             ReservationFails(m, applied) \/ ReleaseFails(m, applied)
      PROVE  ServicesOK'
  BY <1>3, <1>5 DEF ReservationFails, ReleaseFails
<1>6. ASSUME NEW t \in work, PublishOutcome(t)
      PROVE  ServicesOK'
  <2>1. Outcome[t.at] \in {"inventory.reserved", "inventory.failed", "inventory.released"}
    BY <1>6 DEF PublishOutcome, Outcome
  <2> QED
    BY <1>6, <2>1, PublicationKept DEF PublishOutcome, Keys
<1>7. ASSUME NEW t \in work, AckInventoryEvent(t)
      PROVE  ServicesOK'
  BY <1>7, RemovalEffect, BooksKept DEF AckInventoryEvent
<1>8. CASE InventoryCrash
  BY <1>8, RemovalEffect, BooksKept DEF InventoryCrash, Queues
<1> QED
  BY <1>4, <1>5, <1>6, <1>7, <1>8 DEF InventoryStep, InventoryFault, TasksOf

\* A refund never takes money: the whole units of a total are not negative.
LEMMA RefundableNat == \A o \in Orders : Refundable(o) \in Nat
<1> SUFFICES ASSUME NEW o \in Orders
             PROVE  (Total[o] \div 100) * 100 \in Nat
  BY DEF Refundable
<1>1. Total[o] \in Nat
  BY WalletAssumption
<1>2. Total[o] \div 100 \in Nat
  BY <1>1
<1> QED
  BY <1>2

\* A failed message goes on as a copy with its key and order.
LEMMA RescheduleForwards ==
  ASSUME NEW t, t.msg \in Message, Reschedule(t)
  PROVE  \E m \in Message : /\ m.key = t.msg.key /\ m.order = t.msg.order
                            /\ Forward(m)
<1>1. CASE t.msg.tries >= MaxTries
  BY <1>1 DEF Reschedule, Message, Queues
<1>2. CASE ~ (t.msg.tries >= MaxTries)
  <2> DEFINE n == [t.msg EXCEPT !.queue = "user.retry", !.tries = @ + 1]
  <2>1. t.msg.tries + 1 \in 0..MaxTries
    BY <1>2 DEF Message, MaxTries
  <2>2. n \in Message /\ n.key = t.msg.key /\ n.order = t.msg.order
    BY <2>1 DEF Message, Queues
  <2>3. Forward(n)
    BY <1>2 DEF Reschedule, Again
  <2> QED
    BY <2>2, <2>3
<1> QED
  BY <1>1, <1>2

\* The steps that move or look at money, and the retry queue's.
WalletAction ==
  \/ \E u \in Wallets, amount \in TopUpAmounts : TopUp(u, amount)
  \/ \E m \in queued : RetryExpires(m)
  \/ WalletStep \/ WalletFault \/ WalletCrash

\* No step of the user service (pay, the refund, the retries, top-ups) breaks
\* the invariant.
LEMMA WalletPreserves ==
  ASSUME ServicesOK, WalletAction, UNCHANGED <<orderVars, inventoryVars>>
  PROVE  ServicesOK'
<1> BusTypeOK /\ WalletTypeOK /\ BalanceNonNegative
  BY DEF ServicesOK
<1> OrderTypeOK' /\ UNCHANGED status
  BY DEF ServicesOK, OrderTypeOK, orderVars
<1>1. \A m \in queued : /\ m.order \in Orders /\ m.key \in Keys
                         /\ Sent(m.key, m.order)
  BY DEF ServicesOK, HandlersOK, BusTypeOK, Message
<1>2. \A t \in work : /\ t.msg \in Message /\ t.msg.order \in Orders
                       /\ t.msg.key \in Keys /\ t.seen \in Int /\ TaskOK(t)
  BY DEF ServicesOK, HandlersOK, BusTypeOK, Task, Message
\* A handler starts, having read the wallet.
<1>3. ASSUME NEW m \in queued, NEW s \in Stages, NEW n \in Int, Begin(m, s, n),
             UNCHANGED walletVars,
             s \notin {"cancelled", "paid"},
             s = "refunding" => m.key = "payment.refund",
             s = "paying" => Buyer[m.order] \in Wallets /\ n >= Total[m.order]
      PROVE  ServicesOK'
  <2>1. /\ BusTypeOK' /\ UNCHANGED <<queued, published>>
        /\ \A t \in work' : t \in work \/ t = [msg |-> m, at |-> s, seen |-> n]
    BY <1>3, BeginEffect
  <2>2. TaskOK([msg |-> m, at |-> s, seen |-> n])'
    BY <1>1, <1>3, <2>1 DEF TaskOK, Sent
  <2> QED
    BY <1>3, <2>1, <2>2, BooksKept
<1>4. ASSUME NEW m \in queued,
             \/ ReadWallet(m) \/ DeclinePayment(m)
             \/ FindPayment(m) \/ WalletReadFails(m)
      PROVE  ServicesOK'
  <2>1. CASE ReadWallet(m)
    <3>1. balance[Buyer[m.order]] \in Int
      BY <2>1 DEF ReadWallet, Payable, WalletTypeOK
    <3> QED
      BY <1>3, <2>1, <3>1 DEF ReadWallet, Payable, Stages
  <2>2. CASE DeclinePayment(m) \/ WalletReadFails(m)
    BY <1>3, <2>2 DEF DeclinePayment, WalletReadFails, Stages
  <2>3. CASE FindPayment(m)
    BY <1>3, <2>3 DEF FindPayment, Stages
  <2> QED
    BY <1>4, <2>1, <2>2, <2>3
\* A handler goes on after a debit or a refund, or after neither.
<1>5. ASSUME NEW t \in work, NEW s \in {"paid", "done", "failing"},
             Advance(t, s), UNCHANGED <<queued, published>>,
             \/ UNCHANGED walletVars /\ s = "failing"
             \/ t.at = "paying" /\ Debit(t)
             \/ t.at = "refunding" /\ Refund(t) /\ s # "paid"
      PROVE  ServicesOK'
  <2> DEFINE o == t.msg.order
  <2>1. /\ o \in Orders /\ Total[o] \in Nat /\ Refundable(o) \in Nat
        /\ TaskOK(t) /\ t.seen \in Int
    BY <1>2, RefundableNat, WalletAssumption
  <2>2. WalletTypeOK' /\ BalanceNonNegative'
    <3>1. CASE UNCHANGED walletVars
      BY <3>1 DEF WalletTypeOK, BalanceNonNegative, walletVars
    <3>2. CASE t.at = "paying" /\ Debit(t)
      BY <2>1, <3>2 DEF WalletTypeOK, BalanceNonNegative, Debit, TaskOK
    <3>3. CASE t.at = "refunding" /\ Refund(t)
      <4>1. charged' \in [Orders -> Nat] /\ refunded' \in [Orders -> Nat]
        BY <2>1, <3>3 DEF WalletTypeOK, Refund
      <4> DEFINE back == Refundable(o)
      <4>2. /\ balance' = [balance EXCEPT ![Buyer[o]] = @ + back]
            /\ back \in Nat /\ UNCHANGED deposited
        BY <2>1, <3>3 DEF Refund
      <4> HIDE DEF back
      <4>3. \A u \in Wallets :
              balance'[u] = IF u = Buyer[o] THEN balance[u] + back ELSE balance[u]
        BY <4>2 DEF WalletTypeOK
      <4>4. \A u \in Wallets : balance[u] \in Int /\ balance[u] >= 0
        BY DEF WalletTypeOK, BalanceNonNegative
      <4>5. balance' \in [Wallets -> Int]
        <5>1. balance' = [u \in Wallets |-> balance'[u]]
          BY <4>2 DEF WalletTypeOK
        <5>2. \A u \in Wallets : balance'[u] \in Int
          BY <4>2, <4>3, <4>4
        <5> QED
          BY <5>1, <5>2
      <4>6. BalanceNonNegative'
        BY <4>2, <4>3, <4>4 DEF BalanceNonNegative
      <4> QED
        BY <4>1, <4>2, <4>5, <4>6 DEF WalletTypeOK
    <3> QED
      BY <1>5, <3>1, <3>2, <3>3
  <2>3. /\ work' \subseteq Task
        /\ \A x \in work' : x \in work \/ x = [msg |-> t.msg, at |-> s, seen |-> t.seen]
    BY <1>5, AdvanceEffect DEF Stages
  <2>4. BusTypeOK'
    BY <1>5, <2>3 DEF BusTypeOK
  <2>5. /\ \A r \in Orders : Charges(r) > 0 => Charges(r)' > 0
        /\ Debit(t) => Charges(o)' > 0
    BY <1>5, <2>1 DEF Charges, Debit, Refund, WalletTypeOK, walletVars
  <2>6. HandlersOK' /\ StatusOK'
    <3>1. TaskOK([msg |-> t.msg, at |-> s, seen |-> t.seen])'
      BY <1>5, <2>1, <2>5 DEF TaskOK, Sent
    <3> QED
      BY <1>5, <2>3, <2>4, <2>5, <3>1, HandlersKept DEF Sent
  <2>7. Causality'
    BY <1>5, <2>1, <2>5
    DEF ServicesOK, Causality, Sent, TaskOK, Debit, Refund, WalletTypeOK,
        inventoryVars, walletVars
  <2> QED
    BY <2>2, <2>4, <2>6, <2>7
    DEF ServicesOK, StatusOK, InventoryTypeOK, StockNonNegative, inventoryVars
<1>6. ASSUME NEW t \in work, SaveWallet(t) \/ RefundWallet(t)
      PROVE  ServicesOK'
  BY <1>5, <1>6 DEF SaveWallet, RefundWallet
<1>7. ASSUME NEW t \in work, NEW applied \in BOOLEAN, WalletWriteFails(t, applied)
      PROVE  ServicesOK'
  BY <1>5, <1>7 DEF WalletWriteFails
<1>8. ASSUME NEW t \in work, PublishVerdict(t)
      PROVE  ServicesOK'
  <2>1. CASE t.at = "paid"
    BY <1>2, <1>8, <2>1, PublicationKept DEF PublishVerdict, Verdict, Keys, TaskOK
  <2>2. CASE t.at = "declined"
    BY <1>8, <2>2, PublicationKept DEF PublishVerdict, Verdict, Keys
  <2> QED
    BY <1>8, <2>1, <2>2 DEF PublishVerdict, Verdict
<1>9. ASSUME NEW t \in work, AckUserEvent(t)
      PROVE  ServicesOK'
  BY <1>9, RemovalEffect, BooksKept DEF AckUserEvent
<1>10. CASE WalletCrash
  BY <1>10, RemovalEffect, BooksKept DEF WalletCrash, Queues
<1>11. ASSUME NEW t \in work, Reschedule(t)
       PROVE  ServicesOK'
  <2>1. PICK m \in Message : /\ m.key = t.msg.key /\ m.order = t.msg.order
                             /\ Forward(m)
    BY <1>2, <1>11, RescheduleForwards
  <2>2. /\ queued' \subseteq Message
        /\ published' \in [Keys -> [Orders -> Nat]]
        /\ \A n \in queued' : n \in queued \/ (n.key = m.key /\ n.order = m.order)
        /\ \A l \in Keys, r \in Orders : Sent(l, r)' <=> Sent(l, r)
    BY <1>2, <2>1, ForwardEffect DEF TaskOK
  <2>3. /\ work' \subseteq Task
        /\ \A x \in work' :
             x \in work \/ x = [msg |-> t.msg, at |-> "done", seen |-> t.seen]
    BY <1>11, AdvanceEffect DEF Reschedule, Stages
  <2>4. BusTypeOK'
    BY <2>2, <2>3 DEF BusTypeOK
  <2>5. UNCHANGED walletVars
    BY <1>11 DEF Reschedule
  <2>6. HandlersOK' /\ StatusOK'
    <3>1. TaskOK([msg |-> t.msg, at |-> "done", seen |-> t.seen])'
      BY <1>2, <2>2 DEF TaskOK
    <3>2. \A n \in queued' : n \in queued \/ Sent(n.key, n.order)'
      BY <1>2, <2>1, <2>2 DEF TaskOK
    <3>3. \A r \in Orders : Charges(r) > 0 => Charges(r)' > 0
      BY <2>5 DEF Charges, walletVars
    <3> QED
      BY <2>2, <2>3, <2>4, <3>1, <3>2, <3>3, HandlersKept
  <2>7. Causality'
    BY <2>2, <2>5
    DEF ServicesOK, Causality, Charges, Keys, inventoryVars, walletVars
  <2> QED
    BY <2>4, <2>5, <2>6, <2>7
    DEF ServicesOK, StatusOK, InventoryTypeOK, WalletTypeOK, StockNonNegative,
        BalanceNonNegative, inventoryVars, walletVars
<1>12. ASSUME NEW m \in queued, RetryExpires(m)
       PROVE  ServicesOK'
  <2> DEFINE n == [m EXCEPT !.queue = "user.queue"]
  <2>1. n \in Message /\ n.key = m.key /\ n.order = m.order
    BY DEF BusTypeOK, Message, Queues
  <2>2. /\ BusTypeOK' /\ UNCHANGED <<work, published, walletVars>>
        /\ \A x \in queued' : x \in queued \/ (x.key = m.key /\ x.order = m.order)
    BY <1>12, <2>1 DEF RetryExpires, BusTypeOK
  <2>3. HandlersOK' /\ StatusOK'
    <3>1. \A x \in queued' : x \in queued \/ Sent(x.key, x.order)'
      BY <1>1, <2>2 DEF Sent
    <3>2. /\ \A k \in Keys, r \in Orders : Sent(k, r) => Sent(k, r)'
          /\ \A r \in Orders : Charges(r) > 0 => Charges(r)' > 0
      BY <2>2 DEF Sent, Charges, walletVars
    <3> QED
      BY <2>2, <3>1, <3>2, HandlersKept
  <2> QED
    BY <2>2, <2>3
    DEF ServicesOK, StatusOK, InventoryTypeOK, WalletTypeOK, StockNonNegative,
        BalanceNonNegative, Causality, Sent, Charges, inventoryVars, walletVars
<1>13. ASSUME NEW u \in Wallets, NEW amount \in TopUpAmounts, TopUp(u, amount)
       PROVE  ServicesOK'
  <2>1. amount \in Nat
    BY WalletAssumption
  <2>2. WalletTypeOK' /\ BalanceNonNegative'
    BY <1>13, <2>1 DEF TopUp, WalletTypeOK, BalanceNonNegative
  <2>3. UNCHANGED <<busVars, charged, refunded>>
    BY <1>13 DEF TopUp
  <2>4. BusTypeOK' /\ HandlersOK' /\ Causality' /\ StatusOK'
    BY <2>3
    DEF ServicesOK, StatusOK, StatusExplained, BusTypeOK, HandlersOK, TaskOK, Causality, Sent, Charges,
        busVars, inventoryVars
  <2> QED
    BY <2>2, <2>4
    DEF ServicesOK, StatusOK, InventoryTypeOK, StockNonNegative, inventoryVars
<1> QED
  BY <1>4, <1>6, <1>7, <1>8, <1>9, <1>10, <1>11, <1>12, <1>13
  DEF WalletAction, WalletStep, WalletFault, TasksOf

-----------------------------------------------------------------------------
(* The theorems.                                                           *)

\* The services start with empty queues, no orders and seeded stock and wallets.
LEMMA SafetyInit == Init => SafetyInv
<1> SUFFICES ASSUME Init PROVE SafetyInv
  OBVIOUS
<1> USE DEF Init
<1>1. BusTypeOK
  BY DEF BusInit, BusTypeOK
<1>2. OrderTypeOK
  BY DEF OrderInit, OrderTypeOK, RequestStates
<1>3. InventoryTypeOK /\ StockNonNegative
  BY InventoryAssumption DEF InventoryInit, InventoryTypeOK, StockNonNegative
<1>4. WalletTypeOK /\ BalanceNonNegative
  BY WalletAssumption DEF WalletInit, WalletTypeOK, BalanceNonNegative
<1>5. \A k \in Keys, o \in Orders : ~ Sent(k, o)
  BY DEF BusInit, Sent
<1>6. HandlersOK
  BY DEF BusInit, HandlersOK
<1>7. Causality
  <2>1. \A o \in Orders : ~ (refunded[o] > 0) /\ ~ (held[o] < 0)
    <3> SUFFICES ASSUME NEW o \in Orders
                 PROVE  ~ (refunded[o] > 0) /\ ~ (held[o] < 0)
      OBVIOUS
    <3>1. refunded[o] = 0 /\ held[o] = 0
      BY DEF InventoryInit, WalletInit
    <3> QED
      BY <3>1
  <2>2. \A o \in Orders : /\ ~ Sent("payment.refund", o)
                          /\ ~ Sent("inventory.release", o)
                          /\ ~ Sent("payment.success", o)
    BY <1>5 DEF Keys
  <2> QED
    BY <2>1, <2>2 DEF Causality
<1>8. StatusExplained
  BY DEF OrderInit, StatusExplained
<1> QED
  BY <1>1, <1>2, <1>3, <1>4, <1>6, <1>7, <1>8
  DEF SafetyInv, ServicesOK, StatusOK, TypeOK

\* Every step of the system keeps the invariant.
LEMMA SafetyStep == SafetyInv /\ [Next]_vars => SafetyInv'
<1> SUFFICES ASSUME SafetyInv, [Next]_vars PROVE SafetyInv'
  OBVIOUS
<1> ServicesOK /\ crashes \in Nat /\ errors \in Nat /\ topUps \in Nat
  BY DEF SafetyInv, TypeOK
<1>1. crashes' \in Nat /\ errors' \in Nat /\ topUps' \in Nat
  BY DEF Next, PlaceOrder, Order, Inventory, Wallet, Broker, Administrator,
         Customer, Crash, DatabaseError, vars, faultVars
<1>2. ServicesOK'
  <2>1. CASE OrderAction /\ UNCHANGED <<inventoryVars, walletVars>>
    BY <2>1, OrderPreserves
  <2>2. CASE /\ InventoryStep \/ InventoryFault \/ InventoryCrash
             /\ UNCHANGED <<orderVars, walletVars>>
    BY <2>2, InventoryPreserves
  <2>3. CASE WalletAction /\ UNCHANGED <<orderVars, inventoryVars>>
    BY <2>3, WalletPreserves
  <2>4. CASE UNCHANGED vars
    <3>1. /\ BusTypeOK' /\ OrderTypeOK' /\ UNCHANGED <<inventoryVars, walletVars>>
          /\ UNCHANGED <<queued, work, published, status>>
      BY <2>4 DEF vars, ServicesOK, BusTypeOK, OrderTypeOK, busVars, orderVars
    <3> QED
      BY <3>1, BooksKept
  <2> QED
    BY <2>1, <2>2, <2>3, <2>4
    DEF Next, PlaceOrder, Order, Inventory, Wallet, Broker, Administrator,
        Customer, Crash, DatabaseError, OrderAction, WalletAction
<1> QED
  BY <1>1, <1>2 DEF SafetyInv, ServicesOK, TypeOK

\* The invariant the others follow from.
THEOREM SafetyInvariant == Spec => []SafetyInv
BY SafetyInit, SafetyStep, PTL DEF Spec

\* Every variable keeps its type; a message is retried at most three times.
THEOREM TypeCorrect == Spec => []TypeOK
<1>1. SafetyInv => TypeOK
  BY DEF SafetyInv
<1> QED
  BY <1>1, SafetyInvariant, PTL

\* Whatever crashes, fails or overlaps, money is given back only for a failed
\* reservation, stock only for a failed payment, and a payment is reported as
\* made only when the wallet was debited.
THEOREM CausalityHolds == Spec => []Causality
<1>1. SafetyInv => Causality
  BY DEF SafetyInv, ServicesOK
<1> QED
  BY <1>1, SafetyInvariant, PTL

\* No interleaving of reservations and releases sells what is not there.
THEOREM StockHolds == Spec => []StockNonNegative
<1>1. SafetyInv => StockNonNegative
  BY DEF SafetyInv, ServicesOK
<1> QED
  BY <1>1, SafetyInvariant, PTL

\* No interleaving of debits, refunds and top-ups overdraws a wallet, though
\* debits are computed from balances that may be stale.
THEOREM BalanceHolds == Spec => []BalanceNonNegative
<1>1. SafetyInv => BalanceNonNegative
  BY DEF SafetyInv, ServicesOK
<1> QED
  BY <1>1, SafetyInvariant, PTL

\* Where no administrator interferes, an order is confirmed only if its buyer
\* was debited and cancelled only if a service reported a failure.
THEOREM StatusHolds ==
  ASSUME AdminStatuses = {}
  PROVE  Spec => []StatusExplained
<1>1. SafetyInv => StatusExplained
  BY DEF SafetyInv, ServicesOK, StatusOK
<1> QED
  BY <1>1, SafetyInvariant, PTL

-----------------------------------------------------------------------------
(* Nobody acts before the announcement.                                    *)

\* Nothing was done for o.
Untouched(o) ==
  held[o] = 0 /\ Charges(o) = 0 /\ \A k \in Keys : ~ Sent(k, o)

\* The events of one order are counted apart from those of another.
LEMMA PublishedElsewhere ==
  ASSUME BusTypeOK, NEW o \in Orders, NEW r \in Orders, r # o, NEW k \in Keys,
         published' = [published EXCEPT ![k][r] = @ + 1]
  PROVE  \A l \in Keys : Sent(l, o)' <=> Sent(l, o)
BY DEF BusTypeOK, Sent

\* Where no event of o was sent, all messages and handlers are for others.
LEMMA WorkElsewhere ==
  ASSUME ServicesOK, NEW o \in Orders, Untouched(o)
  PROVE  /\ \A m \in queued : m \in Message /\ m.order \in Orders \ {o}
         /\ \A t \in work : t.msg \in Message /\ t.msg.order \in Orders \ {o}
<1>1. /\ \A m \in queued : m \in Message /\ m.key \in Keys /\ m.order \in Orders
      /\ \A t \in work : t.msg \in Message /\ t.msg.key \in Keys /\ t.msg.order \in Orders
  BY DEF ServicesOK, BusTypeOK, Task, Message
<1> QED
  BY <1>1 DEF ServicesOK, HandlersOK, TaskOK, Untouched

\* The order service announces an order before it publishes anything of it.
LEMMA OrderLeavesUntouched ==
  ASSUME ServicesOK, OrderAction, UNCHANGED <<inventoryVars, walletVars>>,
         NEW o \in Orders, Untouched(o), request'[o] # "announced"
  PROVE  Untouched(o)'
<1> USE DEF ServicesOK
<1>1. held'[o] = 0 /\ Charges(o)' = 0
  BY DEF Untouched, Charges, inventoryVars, walletVars
<1>2. ASSUME UNCHANGED published
      PROVE  \A k \in Keys : ~ Sent(k, o)'
  BY <1>2 DEF Untouched, Sent
<1>3. ASSUME NEW r \in Orders, AnnounceOrder(r)
      PROVE  \A k \in Keys : ~ Sent(k, o)'
  <2>1. r # o
    BY <1>3 DEF AnnounceOrder, OrderTypeOK
  <2> QED
    BY <1>3, <2>1, PublishedElsewhere DEF AnnounceOrder, Publish, Untouched, Keys
<1>4. ASSUME NEW t \in work, PublishCompensation(t)
      PROVE  \A k \in Keys : ~ Sent(k, o)'
  <2>1. Compensation[t.msg.key] \in Keys
    BY <1>4 DEF PublishCompensation, Compensation, FailureEvents, Keys, HandlersOK, TaskOK
  <2> QED
    BY <1>4, <2>1, WorkElsewhere, PublishedElsewhere
    DEF PublishCompensation, Publish, Untouched
<1>5. \/ UNCHANGED published
      \/ \E r \in Orders : AnnounceOrder(r)
      \/ \E t \in work : PublishCompensation(t)
  BY DEF OrderAction, OrderStep, OrderFault, TasksOf, CheckProduct, RefuseOrder,
         StoreOrder, AdminUpdate, CancelOrder, RejectCancel, ConfirmOrder,
         AckOrderEvent, OrderRequestFails, OrderHandlerFails, OrderCrash,
         LoseTasks, Begin, Drop, Ack, busVars
<1> QED
  BY <1>1, <1>2, <1>3, <1>4, <1>5 DEF Untouched

\* The product service touches the order of its message only.
LEMMA InventoryLeavesUntouched ==
  ASSUME ServicesOK, InventoryStep \/ InventoryFault \/ InventoryCrash,
         UNCHANGED walletVars, NEW o \in Orders, Untouched(o)
  PROVE  Untouched(o)'
<1> USE DEF ServicesOK
<1>1. Charges(o)' = 0
  BY DEF Untouched, Charges, walletVars
<1>2. ASSUME NEW m \in queued, UNCHANGED published,
             UNCHANGED inventoryVars \/ Take(m.order) \/ Return(m.order)
      PROVE  Untouched(o)'
  <2>1. held'[o] = held[o]
    BY <1>2, WorkElsewhere DEF Take, Return, InventoryTypeOK, inventoryVars
  <2> QED
    BY <1>1, <1>2, <2>1 DEF Untouched, Sent
<1>3. ASSUME NEW m \in queued, NEW applied \in BOOLEAN,
             \/ ReserveStock(m) \/ RejectReservation(m) \/ ReleaseStock(m)
             \/ ReservationFails(m, applied) \/ ReleaseFails(m, applied)
      PROVE  Untouched(o)'
  BY <1>2, <1>3 DEF ReserveStock, RejectReservation, ReleaseStock, ReservationFails,
                    ReleaseFails, Begin, Drop
<1>4. ASSUME NEW t \in work, PublishOutcome(t)
      PROVE  Untouched(o)'
  <2>1. Outcome[t.at] \in Keys
    BY <1>4 DEF PublishOutcome, Outcome, Keys
  <2>2. \A k \in Keys : ~ Sent(k, o)'
    BY <1>4, <2>1, WorkElsewhere, PublishedElsewhere DEF PublishOutcome, Publish, Untouched
  <2> QED
    BY <1>1, <1>4, <2>2 DEF PublishOutcome, Untouched, inventoryVars
<1>5. ASSUME UNCHANGED <<inventoryVars, published>>
      PROVE  Untouched(o)'
  BY <1>1, <1>5 DEF Untouched, Sent, inventoryVars
<1>6. ASSUME NEW t \in work, AckInventoryEvent(t)
      PROVE  Untouched(o)'
  BY <1>5, <1>6 DEF AckInventoryEvent, Ack
<1>7. CASE InventoryCrash
  BY <1>5, <1>7 DEF InventoryCrash, LoseTasks
<1> QED
  BY <1>3, <1>4, <1>6, <1>7 DEF InventoryStep, InventoryFault, TasksOf

\* So does the user service.
LEMMA WalletLeavesUntouched ==
  ASSUME ServicesOK, WalletAction, UNCHANGED inventoryVars,
         NEW o \in Orders, Untouched(o)
  PROVE  Untouched(o)'
<1> USE DEF ServicesOK
<1>1. held'[o] = 0
  BY DEF Untouched, inventoryVars
<1>2. ASSUME UNCHANGED published, UNCHANGED <<charged, refunded>>
      PROVE  Untouched(o)'
  BY <1>1, <1>2 DEF Untouched, Sent, Charges
<1>3. ASSUME NEW t \in work, UNCHANGED published, Debit(t) \/ Refund(t)
      PROVE  Untouched(o)'
  <2>1. UNCHANGED <<charged[o], refunded[o]>>
    BY <1>3, WorkElsewhere DEF Debit, Refund, WalletTypeOK
  <2> QED
    BY <1>1, <1>3, <2>1 DEF Untouched, Sent, Charges
<1>4. ASSUME NEW k \in Keys, NEW r \in Orders, r # o, UNCHANGED walletVars,
             published' = [published EXCEPT ![k][r] = @ + 1]
      PROVE  Untouched(o)'
  BY <1>1, <1>4, PublishedElsewhere DEF Untouched, Charges, walletVars
<1>5. ASSUME NEW t \in work, PublishVerdict(t)
      PROVE  Untouched(o)'
  <2>1. Verdict[t.at] \in Keys
    BY <1>5 DEF PublishVerdict, Verdict, Keys
  <2> QED
    BY <1>4, <1>5, <2>1, WorkElsewhere DEF PublishVerdict, Publish
<1>6. ASSUME NEW t \in work, Reschedule(t)
      PROVE  Untouched(o)'
  <2>1. t.msg \in Message /\ t.msg.order \in Orders \ {o}
    BY WorkElsewhere
  <2>2. PICK m \in Message : /\ m.key = t.msg.key /\ m.order = t.msg.order
                             /\ Forward(m)
    BY <1>6, <2>1, RescheduleForwards
  <2>3. m.key \in Keys
    BY DEF Message
  <2> QED
    BY <1>4, <1>6, <2>1, <2>2, <2>3 DEF Reschedule, Forward
<1>7. ASSUME NEW m \in queued,
             \/ ReadWallet(m) \/ DeclinePayment(m) \/ FindPayment(m)
             \/ WalletReadFails(m) \/ RetryExpires(m)
      PROVE  Untouched(o)'
  BY <1>2, <1>7 DEF ReadWallet, DeclinePayment, FindPayment, WalletReadFails,
                    RetryExpires, Begin, walletVars
<1>8. ASSUME NEW t \in work, NEW applied \in BOOLEAN,
             SaveWallet(t) \/ RefundWallet(t) \/ AckUserEvent(t) \/ WalletWriteFails(t, applied)
      PROVE  Untouched(o)'
  BY <1>2, <1>3, <1>8 DEF SaveWallet, RefundWallet, AckUserEvent, WalletWriteFails, Ack, walletVars
<1>9. ASSUME NEW u \in Wallets, NEW amount \in TopUpAmounts, TopUp(u, amount)
      PROVE  Untouched(o)'
  BY <1>2, <1>9 DEF TopUp, busVars
<1>10. CASE WalletCrash
  BY <1>2, <1>10 DEF WalletCrash, LoseTasks, walletVars
<1> QED
  BY <1>5, <1>6, <1>7, <1>8, <1>9, <1>10
  DEF WalletAction, WalletStep, WalletFault, TasksOf

\* An announcement is never taken back.
LEMMA AnnouncedForGood ==
  ASSUME OrderTypeOK, [Next]_vars, NEW o \in Orders, request[o] = "announced"
  PROVE  request'[o] = "announced"
BY DEF Next, PlaceOrder, Order, Inventory, Wallet, Broker, Administrator, Customer,
       Crash, DatabaseError, vars, orderVars, OrderTypeOK, OrderStep, OrderFault,
       CheckProduct, RefuseOrder, StoreOrder, AnnounceOrder, CancelOrder, RejectCancel,
       ConfirmOrder, PublishCompensation, AckOrderEvent, OrderRequestFails,
       OrderHandlerFails, AdminUpdate, OrderCrash

\* No service acts for an order that was refused, that is still being made,
\* or whose request died between its row and its announcement, whatever
\* messages of other orders are redelivered, retried or reordered.
THEOREM AnnouncedFirstHolds == Spec => []AnnouncedFirst
<1>1. Init => AnnouncedFirst
  BY DEF Init, BusInit, InventoryInit, WalletInit, AnnouncedFirst, Sent, Charges
<1>2. ASSUME SafetyInv, AnnouncedFirst, [Next]_vars
      PROVE  AnnouncedFirst'
  <2> SUFFICES ASSUME NEW o \in Orders, request'[o] # "announced"
               PROVE  Untouched(o)'
    BY DEF AnnouncedFirst, Untouched
  <2>1. ServicesOK
    BY <1>2 DEF SafetyInv
  <2>2. Untouched(o)
    BY <1>2, <2>1, AnnouncedForGood DEF ServicesOK, AnnouncedFirst, Untouched
  <2>3. CASE OrderAction /\ UNCHANGED <<inventoryVars, walletVars>>
    BY <2>1, <2>2, <2>3, OrderLeavesUntouched
  <2>4. CASE (InventoryStep \/ InventoryFault \/ InventoryCrash) /\ UNCHANGED walletVars
    BY <2>1, <2>2, <2>4, InventoryLeavesUntouched
  <2>5. CASE WalletAction /\ UNCHANGED inventoryVars
    BY <2>1, <2>2, <2>5, WalletLeavesUntouched
  <2>6. CASE UNCHANGED vars
    BY <2>2, <2>6 DEF Untouched, Sent, Charges, vars, inventoryVars, walletVars, busVars
  <2> QED
    BY <1>2, <2>3, <2>4, <2>5, <2>6
    DEF Next, PlaceOrder, Order, Inventory, Wallet, Broker, Administrator,
        Customer, Crash, DatabaseError, OrderAction, WalletAction, orderVars
<1> QED
  BY <1>1, <1>2, SafetyInvariant, PTL DEF Spec
=============================================================================
