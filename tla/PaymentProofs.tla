--------------------------- MODULE PaymentProofs ----------------------------
(***************************************************************************)
(* What is done with the customers' money: an order is debited once, and a *)
(* refund that was asked for is not forgotten, as long as not both a       *)
(* process dies and MongoDB fails; and the wallets keep atomic accounts    *)
(* as long as no process dies and no two updates of a wallet overlap.      *)
(***************************************************************************)
EXTENDS DeliveryProofs

-----------------------------------------------------------------------------
(* While MongoDB does not fail: an order is created once.                  *)

\* What the handlers that the step leaves behind are at.
LEMMA NewFailures ==
  ASSUME SafetyInv, Deliveries, [Next]_vars, PaymentsServed
  PROVE  \A t \in work' : t \in work \/ (t.at = "failing" => t.msg.key = "payment.refund")
<1> SUFFICES ASSUME NEW u \in work', u \notin work, u.at = "failing"
             PROVE  u.msg.key = "payment.refund"
  OBVIOUS
<1>1. DatabaseError => OrderFault \/ InventoryFault
  BY DEF DatabaseError, PaymentsServed, SafetyInv, TypeOK
<1>2. ASSUME NEW m, NEW s, NEW n, Begin(m, s, n), s # "failing" \/ m.key = "payment.refund"
      PROVE  u.msg.key = "payment.refund"
  BY <1>2 DEF Begin
<1>3. ASSUME NEW t, NEW s, Advance(t, s)
      PROVE  s = "failing"
  BY <1>3 DEF Advance
<1>4. ASSUME work' \subseteq work
      PROVE  FALSE
  BY <1>4
<1>5. CASE PlaceOrder \/ Order \/ Administrator
  BY <1>2, <1>3, <1>4, <1>5
  DEF PlaceOrder, Order, Administrator, OrderStep, CheckProduct, RefuseOrder, StoreOrder,
      AnnounceOrder, AdminUpdate, CancelOrder, RejectCancel, ConfirmOrder, AckOrderEvent,
      PublishCompensation, Drop, Ack, busVars
<1>6. CASE Inventory
  BY <1>2, <1>3, <1>4, <1>6
  DEF Inventory, InventoryStep, ReserveStock, RejectReservation, ReleaseStock,
      PublishOutcome, AckInventoryEvent, Ack
<1>7. CASE Wallet \/ Broker \/ Customer
  BY <1>2, <1>3, <1>4, <1>7
  DEF Wallet, Broker, Customer, WalletStep, ReadWallet, DeclinePayment, FindPayment,
      SaveWallet, PublishVerdict, RefundWallet, Reschedule, AckUserEvent, RetryExpires,
      TopUp, Ack, busVars
<1>8. CASE Crash
  BY <1>4, <1>8 DEF Crash, OrderCrash, InventoryCrash, WalletCrash, LoseTasks
<1>9. CASE UNCHANGED vars
  BY <1>4, <1>9 DEF vars, busVars
<1>10. CASE OrderFault \/ InventoryFault
  BY <1>2, <1>4, <1>10
  DEF OrderFault, OrderRequestFails, OrderHandlerFails, InventoryFault, ReservationFails,
      ReleaseFails, Drop, busVars
<1> QED
  BY <1>1, <1>5, <1>6, <1>7, <1>8, <1>9, <1>10 DEF Next

\* Without failures of MongoDB no order.created is retried.
LEMMA CreatedOnceKept ==
  ASSUME SafetyInv, AnnouncedFirst, Deliveries, CreatedOnce, [Next]_vars, PaymentsServed
  PROVE  CreatedOnce'
<1> BusTypeOK
  BY DEF SafetyInv, ServicesOK
<1>1. \A t \in work' : t.at = "failing" => t.msg.key = "payment.refund"
  BY NewFailures DEF CreatedOnce
<1>2. \A o \in Orders : published'["order.created"][o] <= 1
  <2> SUFFICES ASSUME NEW o \in Orders
               PROVE  published'["order.created"][o] <= 1
    OBVIOUS
  <2>1. published["order.created"][o] <= 1
    BY DEF CreatedOnce
  <2>2. ASSUME NEW k \in Keys, NEW r \in Orders, k # "order.created" \/ r # o,
               published' = [published EXCEPT ![k][r] = @ + 1]
        PROVE  published'["order.created"][o] <= 1
    BY <2>1, <2>2 DEF BusTypeOK, Keys
  <2>3. ASSUME UNCHANGED published
        PROVE  published'["order.created"][o] <= 1
    BY <2>1, <2>3
  <2>4. ASSUME NEW r \in Orders, Announce(r)
        PROVE  published'["order.created"][o] <= 1
    <3>1. published' = [published EXCEPT !["order.created"][r] = @ + 1]
      BY <2>4 DEF Announce, Publish
    <3>2. CASE r # o
      BY <2>2, <3>1, <3>2 DEF Keys
    <3>3. CASE r = o
      <4>1. ~ Sent("order.created", o)
        BY <2>4, <3>3 DEF Announce, AnnouncedFirst, Keys
      <4>2. published["order.created"][o] = 0
        BY <4>1 DEF Sent, BusTypeOK, Keys
      <4> QED
        BY <3>1, <3>3, <4>2 DEF BusTypeOK, Keys
    <3> QED
      BY <3>2, <3>3
  <2>5. ASSUME NEW t \in work, NEW k \in Keys, Reply(t, k)
        PROVE  published'["order.created"][o] <= 1
    <3>1. published' = [published EXCEPT ![k][t.msg.order] = @ + 1] /\ t.msg.order \in Orders
      BY <2>5, Filing DEF Reply, Publish
    <3>2. k # "order.created"
      BY <2>5, AnswersDiffer DEF Reply, Deliveries, Filed
    <3> QED
      BY <2>2, <3>1, <3>2
  <2>6. ASSUME NEW t \in work, PutOff(t)
        PROVE  published'["order.created"][o] <= 1
    <3>1. published' = [published EXCEPT ![t.msg.key][t.msg.order] = @ + 1]
      BY <2>6, PutOffEffect
    <3>2. t.msg.key = "payment.refund" /\ t.msg.order \in Orders
      BY <2>6, Filing DEF PutOff, CreatedOnce
    <3> QED
      BY <2>2, <3>1, <3>2 DEF Keys
  <2> QED
    BY <2>3, <2>4, <2>5, <2>6, BusSteps
    DEF BusStep, ComeBack, GiveUp, Drop, TakeUp, Begin, Ack, GoOn, LoseTasks, busVars
<1> QED
  BY <1>1, <1>2 DEF CreatedOnce

\* As long as MongoDB does not fail, order.created is published once for an
\* order and only refunds are retried, whatever crashes.
LEMMA CreatedOnceHolds ==
  ASSUME PaymentsServed
  PROVE  Spec => []CreatedOnce
<1>1. Init => CreatedOnce
  BY DEF Init, BusInit, CreatedOnce, Keys
<1>2. SafetyInv /\ AnnouncedFirst /\ Deliveries /\ CreatedOnce /\ [Next]_vars => CreatedOnce'
  BY CreatedOnceKept
<1> QED
  BY <1>1, <1>2, SafetyInvariant, AnnouncedFirstHolds, DeliveriesHold, PTL DEF Spec

\* One order.created per order means one message for the user service.
LEMMA CreatedOnceTaken ==
  ASSUME SafetyInv, Deliveries, CreatedOnce, NEW o \in Orders
  PROVE  OneAtATime(ForPayment, o)
<1> SUFFICES ASSUME NEW m \in About(ForPayment, o), NEW n \in About(ForPayment, o)
             PROVE  m = n
  BY DEF OneAtATime
<1>1. /\ m \in queued /\ n \in queued /\ Home(m) = Home(n) /\ m.key = n.key
      /\ m.order = n.order /\ m.key = "order.created" /\ m.order = o
  BY DEF About, ForPayment
<1>2. BusTypeOK
  BY DEF SafetyInv, ServicesOK
<1>3. m.tag < published["order.created"][o] /\ n.tag < published["order.created"][o]
  BY <1>1 DEF Deliveries, Filed
<1>4. m.tag \in Nat /\ n.tag \in Nat /\ published["order.created"][o] \in Nat
  BY <1>1, <1>2, Filing
<1>5. m.tag = n.tag
  BY <1>3, <1>4 DEF CreatedOnce
<1> QED
  BY <1>1, <1>5 DEF Deliveries, Filed

\* One handler at a time is at an order's payment.
LEMMA OnePayment ==
  ASSUME MaxCrashes = 0 \/ PaymentsServed
  PROVE  Spec => [](\A o \in Orders : OneAtATime(ForPayment, o))
<1>1. CASE MaxCrashes = 0
  <2>1. AnsweredOnce => \A o \in Orders : OneAtATime(ForPayment, o)
    BY DEF AnsweredOnce, ForPayment, Bindings
  <2> QED
    BY <1>1, <2>1, AnsweredOnceHolds, PTL
<1>2. CASE PaymentsServed
  <2>1. SafetyInv /\ Deliveries /\ CreatedOnce => \A o \in Orders : OneAtATime(ForPayment, o)
    BY CreatedOnceTaken
  <2> QED
    BY <1>2, <2>1, SafetyInvariant, DeliveriesHold, CreatedOnceHolds, PTL
<1> QED
  BY <1>1, <1>2
-----------------------------------------------------------------------------
(* What is entered in the wallets.                                         *)

\* Where a debit is under way, so is the handling of the order's creation.
LEMMA PayingIsPending ==
  ASSUME Deliveries, NEW t \in work, t.at \in {"paying", "paid", "declined"}
  PROVE  t.msg \in About(ForPayment, t.msg.order) /\ Pending(t.msg)
<1>1. t.msg \in queued /\ t.msg.queue = Home(t.msg) /\ <<t.msg.queue, t.msg.key>> \in Bindings
  BY OnBinding
<1>2. t.msg.queue = "user.queue" /\ t.msg.key = "order.created"
  BY <1>1, OnBinding DEF Awaits, Bindings
<1>3. Pending(t.msg)
  BY AtWork
<1> QED
  BY <1>1, <1>2, <1>3 DEF About, ForPayment

\* No two handlers are about to debit the same order.
LEMMA OnlyPaying ==
  ASSUME Deliveries, \A o \in Orders : OneAtATime(ForPayment, o),
         NEW t \in work, NEW u \in work, t.at = "paying", u.at = "paying",
         t.msg.order = u.msg.order, t.msg.order \in Orders
  PROVE  t = u
<1>1. t.msg = u.msg
  BY PayingIsPending DEF OneAtATime
<1> QED
  BY <1>1 DEF Deliveries, Attended

\* What a step of a handler may enter, and what it may have in hand then.
UpToDate(t) ==
  /\ t.at = "paying" => t.seen = balance[Buyer[t.msg.order]]
  /\ t.at = "refunding" => charged[t.msg.order] > 0

NoEntry ==
  /\ UNCHANGED <<charged, refunded>>
  /\ UNCHANGED walletVars \/ MaxTopUps # 0
  /\ \A t \in work' : t \in work \/ (EntryOK(t) /\ UpToDate(t))

EnterDebit(t, s) ==
  t.at = "paying" /\ s \in {"paid", "failing"} /\ Debit(t) /\ Advance(t, s)

EnterRefund(t, s) ==
  t.at = "refunding" /\ s \in {"done", "failing"} /\ Refund(t) /\ Advance(t, s)

BookStep ==
  NoEntry \/ \E t \in work, s \in Stages : EnterDebit(t, s) \/ EnterRefund(t, s)

\* The steps that change the payments of an order.
LEMMA BookSteps ==
  ASSUME SafetyInv, [Next]_vars
  PROVE  BookStep
<1>1. ASSUME UNCHANGED walletVars, work' \subseteq work
      PROVE  BookStep
  BY <1>1 DEF BookStep, NoEntry, walletVars
<1>2. ASSUME UNCHANGED walletVars, NEW m, NEW s, NEW n, Begin(m, s, n),
             s = "paying" => Charges(m.order) = 0 /\ n = balance[Buyer[m.order]],
             s = "refunding" => Charges(m.order) > 0 /\ charged[m.order] > 0
      PROVE  BookStep
  <2> DEFINE t == [msg |-> m, at |-> s, seen |-> n]
  <2>1. EntryOK(t) /\ UpToDate(t)
    BY <1>2 DEF EntryOK, UpToDate
  <2>2. work' = work \cup {t}
    BY <1>2 DEF Begin
  <2> QED
    BY <1>2, <2>1, <2>2 DEF BookStep, NoEntry, walletVars
<1>3. ASSUME UNCHANGED walletVars, NEW t, NEW s, Advance(t, s),
             s \notin {"paying", "refunding"}
      PROVE  BookStep
  <2> DEFINE u == [msg |-> t.msg, at |-> s, seen |-> t.seen]
  <2>1. EntryOK(u) /\ UpToDate(u)
    BY <1>3 DEF EntryOK, UpToDate
  <2>2. work' = (work \ {t}) \cup {u}
    BY <1>3 DEF Advance
  <2> QED
    BY <1>3, <2>1, <2>2 DEF BookStep, NoEntry, walletVars
<1>4. ASSUME OrderAction, UNCHANGED walletVars
      PROVE  BookStep
  BY <1>1, <1>2, <1>3, <1>4
  DEF OrderAction, OrderStep, OrderFault, CheckProduct, RefuseOrder, StoreOrder,
      AnnounceOrder, AdminUpdate, CancelOrder, RejectCancel, ConfirmOrder, AckOrderEvent,
      PublishCompensation, OrderRequestFails, OrderHandlerFails, OrderCrash, LoseTasks,
      Drop, Ack, busVars
<1>5. ASSUME InventoryStep \/ InventoryFault \/ InventoryCrash, UNCHANGED walletVars
      PROVE  BookStep
  BY <1>1, <1>2, <1>3, <1>5
  DEF InventoryStep, InventoryFault, InventoryCrash, ReserveStock, RejectReservation,
      ReleaseStock, PublishOutcome, AckInventoryEvent, ReservationFails, ReleaseFails,
      LoseTasks, Drop, Ack
<1>6. ASSUME NEW m \in queued, ReadWallet(m)
      PROVE  BookStep
  BY <1>2, <1>6 DEF ReadWallet, Payable, Charges
<1>7. ASSUME NEW m \in queued, FindPayment(m)
      PROVE  BookStep
  <2>1. charged[m.order] \in Nat /\ refunded[m.order] \in Nat
    BY DEF SafetyInv, ServicesOK, WalletTypeOK, BusTypeOK, Message
  <2>2. charged[m.order] > 0 => Charges(m.order) > 0
    BY <2>1 DEF Charges
  <2> QED
    BY <1>2, <1>7, <2>2 DEF FindPayment
<1>8. ASSUME NEW t \in work, NEW applied \in BOOLEAN,
             SaveWallet(t) \/ RefundWallet(t) \/ WalletWriteFails(t, applied)
      PROVE  BookStep
  BY <1>3, <1>8
  DEF SaveWallet, RefundWallet, WalletWriteFails, BookStep, EnterDebit, EnterRefund, Stages
<1>9. ASSUME WalletStep \/ WalletFault \/ WalletCrash \/ \E m \in queued : RetryExpires(m)
      PROVE  BookStep
  BY <1>1, <1>2, <1>3, <1>6, <1>7, <1>8, <1>9
  DEF WalletStep, WalletFault, DeclinePayment, PublishVerdict, Reschedule, AckUserEvent,
      WalletReadFails, WalletCrash, RetryExpires, LoseTasks, TasksOf, Ack
<1>10. CASE Customer
  <2>1. MaxTopUps # 0
    BY <1>10 DEF Customer, SafetyInv, TypeOK
  <2> QED
    BY <1>10, <2>1 DEF Customer, TopUp, busVars, BookStep, NoEntry
<1> QED
  BY <1>1, <1>4, <1>5, <1>9, <1>10
  DEF Next, PlaceOrder, Order, Inventory, Wallet, Broker, Administrator, Crash,
      DatabaseError, OrderAction, vars, busVars

\* Debits and refunds keep the tallies that the checks rely on.
LEMMA TalliesKept ==
  ASSUME SafetyInv, Deliveries, EntriesOK, BookStep,
         \A o \in Orders : OneAtATime(ForPayment, o)
  PROVE  /\ \A o \in Orders : Charges(o)' <= 1 /\ refunded'[o] >= refunded[o]
         /\ \A t \in work' : EntryOK(t)'
<1>1. /\ charged \in [Orders -> Nat] /\ refunded \in [Orders -> Nat]
      /\ \A t \in work : t.msg.order \in Orders
  BY DEF SafetyInv, ServicesOK, WalletTypeOK, BusTypeOK, Task, Message
<1>2. CASE NoEntry
  <2>1. /\ \A o \in Orders : Charges(o)' <= 1 /\ refunded'[o] >= refunded[o]
        /\ \A t : EntryOK(t) => EntryOK(t)'
    BY <1>1, <1>2 DEF NoEntry, EntriesOK, EntryOK, Charges
  <2> QED
    BY <1>2, <2>1 DEF NoEntry, EntriesOK
<1>3. ASSUME NEW t \in work, NEW s, EnterDebit(t, s)
      PROVE  /\ \A o \in Orders : Charges(o)' <= 1 /\ refunded'[o] >= refunded[o]
             /\ \A u \in work' : EntryOK(u)'
  <2>1. /\ \A o \in Orders : o # t.msg.order => charged'[o] = charged[o]
        /\ charged'[t.msg.order] = charged[t.msg.order] + 1
        /\ UNCHANGED refunded
    BY <1>1, <1>3 DEF EnterDebit, Debit
  <2>2. Charges(t.msg.order) = 0
    BY <1>3 DEF EnterDebit, EntriesOK, EntryOK
  <2>3. \A o \in Orders : Charges(o)' = IF o = t.msg.order THEN 1 ELSE Charges(o)
    BY <1>1, <2>1, <2>2 DEF Charges
  <2>4. \A u \in work' : u.at \in {"paying", "refunding"} => u \in work /\ u # t
    BY <1>3 DEF EnterDebit, Advance
  <2>5. \A u \in work' : u.at = "paying" => u.msg.order # t.msg.order
    BY <1>1, <1>3, <2>4, OnlyPaying DEF EnterDebit
  <2>6. \A u \in work' : u.at = "paying" => Charges(u.msg.order)' = 0
    BY <1>1, <2>3, <2>4, <2>5 DEF EntriesOK, EntryOK
  <2>7. \A u \in work' : u.at = "refunding" => Charges(u.msg.order)' > 0
    BY <1>1, <2>3, <2>4 DEF EntriesOK, EntryOK
  <2>8. \A o \in Orders : Charges(o)' <= 1 /\ refunded'[o] >= refunded[o]
    BY <1>1, <2>1, <2>3 DEF EntriesOK
  <2> QED
    BY <2>6, <2>7, <2>8 DEF EntryOK
<1>4. ASSUME NEW t \in work, NEW s, EnterRefund(t, s)
      PROVE  /\ \A o \in Orders : Charges(o)' <= 1 /\ refunded'[o] >= refunded[o]
             /\ \A u \in work' : EntryOK(u)'
  <2>1. /\ \A o \in Orders : o # t.msg.order => charged'[o] = charged[o] /\ refunded'[o] = refunded[o]
        /\ charged'[t.msg.order] = 0
        /\ refunded'[t.msg.order] = refunded[t.msg.order] + charged[t.msg.order]
    BY <1>1, <1>4 DEF EnterRefund, Refund
  <2>2. \A o \in Orders : Charges(o)' = Charges(o) /\ refunded'[o] >= refunded[o]
    BY <1>1, <2>1 DEF Charges
  <2>3. \A u \in work' : u.at \in {"paying", "refunding"} => u \in work
    BY <1>4 DEF EnterRefund, Advance
  <2> QED
    BY <1>1, <2>2, <2>3 DEF EntriesOK, EntryOK
<1> QED
  BY <1>2, <1>3, <1>4 DEF BookStep

\* A refund that is entered is seen.
LEMMA RefundEntered ==
  ASSUME SafetyInv, EntriesOK, NEW t \in work, t.at = "refunding", Refund(t)
  PROVE  refunded'[t.msg.order] > 0
<1>1. t.msg.order \in Orders /\ charged \in [Orders -> Nat] /\ refunded \in [Orders -> Nat]
  BY DEF SafetyInv, ServicesOK, WalletTypeOK, BusTypeOK, Task, Message
<1>2. refunded'[t.msg.order] = Charges(t.msg.order)
  BY <1>1 DEF Refund, Charges
<1> QED
  BY <1>2 DEF EntriesOK, EntryOK

\* The message that asks for a refund leads to one, through up to three
\* retries, unless it ends among the dead letters.
LEMMA RefundsKept ==
  ASSUME SafetyInv, Deliveries, EntriesOK, [Next]_vars, NEW o \in Orders,
         refunded'[o] \in Nat, refunded'[o] >= refunded[o], Sent("payment.refund", o)'
  PROVE  refunded'[o] > 0 \/ \E m \in About(ForRefund, o)' : Pending(m)'
<1> BusTypeOK /\ "payment.refund" \in Keys /\ refunded[o] \in Nat
  BY DEF SafetyInv, ServicesOK, WalletTypeOK, Keys
<1>1. ASSUME NEW m \in About(ForRefund, o), Pending(m)
      PROVE  refunded'[o] > 0 \/ \E n \in About(ForRefund, o)' : Pending(n)'
  <2>1. m \in queued /\ Home(m) = "user.queue" /\ m.key = "payment.refund" /\ m.order = o
    BY DEF About, ForRefund
  <2>2. ~ GiveUp(m)
    BY <2>1 DEF GiveUp, Home, UserQueues
  <2>3. ~ TakeUp(m, "done")
    BY <2>1 DEF TakeUp
  <2>4. ASSUME NEW t \in work, t.msg = m, NEW k \in Keys
        PROVE  ~ Reply(t, k)
    <3>1. <<Home(t.msg), t.msg.key>> = ForRefund
      BY <2>1, <2>4 DEF ForRefund
    <3>2. Answers(<<Home(t.msg), t.msg.key>>) = {}
      BY <3>1, AnswersAre
    <3> QED
      BY <3>2 DEF Reply
  <2>5. ASSUME NEW t \in work, t.msg = m, GoOn(t, "done")
        PROVE  refunded'[o] > 0
    BY <2>1, <2>5, RefundEntered DEF GoOn
  <2>6. \/ \E n \in About(ForRefund, o)' : Pending(n)'
        \/ GiveUp(m) \/ TakeUp(m, "done")
        \/ \E t \in work : t.msg = m /\ (GoOn(t, "done") \/ \E k \in Keys : Reply(t, k))
    BY <1>1, Survives
  <2> QED
    BY <2>2, <2>3, <2>4, <2>5, <2>6
<1>2. CASE Sent("payment.refund", o)
  <2>1. refunded[o] > 0 => refunded'[o] > 0
    OBVIOUS
  <2> QED
    BY <1>1, <1>2, <2>1 DEF EntriesOK
<1>3. CASE ~ Sent("payment.refund", o)
  <2>1. ASSUME NEW k \in Keys, NEW r \in Orders, Publish(k, r)
        PROVE  k = "payment.refund" /\ r = o
    BY <1>3, <2>1, PublishEffect
  <2>2. PICK t \in work : Reply(t, "payment.refund") /\ t.msg.order = o
    <3>1. published' # published
      BY <1>3 DEF Sent
    <3>2. ASSUME NEW t \in work, PutOff(t)
          PROVE  FALSE
      <4>1. t.msg.key \in Keys /\ t.msg.order \in Orders /\ Sent(t.msg.key, t.msg.order)
        BY Filing DEF SafetyInv, ServicesOK, HandlersOK
      <4>2. published' = [published EXCEPT ![t.msg.key][t.msg.order] = @ + 1]
        BY <3>2, PutOffEffect
      <4> QED
        BY <1>3, <4>1, <4>2 DEF Sent, BusTypeOK
    <3>3. ASSUME NEW r \in Orders, Announce(r)
          PROVE  FALSE
      BY <2>1, <3>3 DEF Announce, Keys
    <3>4. ASSUME NEW t \in work, NEW k \in Keys, Reply(t, k)
          PROVE  k = "payment.refund" /\ t.msg.order = o
      BY <2>1, <3>4, Filing DEF Reply
    <3> QED
      BY <3>1, <3>2, <3>3, <3>4, BusSteps
      DEF BusStep, ComeBack, GiveUp, Drop, TakeUp, Begin, Ack, GoOn, LoseTasks, busVars
  <2>3. /\ queued' = queued \cup Routed("payment.refund", o)
        /\ \A x \in Routed("payment.refund", o) : x \notin queued /\ Untaken(x)'
    BY <2>2, ReplyEffect
  <2>4. ForRefund \in Bindings /\ ForRefund[2] = "payment.refund" /\ ForRefund[1] = "user.queue"
    BY DEF ForRefund, Bindings
  <2>5. PICK x \in Routed("payment.refund", o) : Home(x) = "user.queue"
    BY <2>4, RoutedMessages
  <2>6. x.key = "payment.refund" /\ x.order = o
    BY RoutedMessages
  <2>7. x \in About(ForRefund, o)' /\ Pending(x)'
    BY <2>3, <2>5, <2>6 DEF About, ForRefund, Untaken, Pending
  <2> QED
    BY <2>7
<1> QED
  BY <1>2, <1>3

\* Every step keeps the user service's entries consistent with its handlers.
LEMMA EntriesKept ==
  ASSUME SafetyInv, Deliveries, EntriesOK, [Next]_vars,
         \A o \in Orders : OneAtATime(ForPayment, o)
  PROVE  EntriesOK'
<1>1. /\ \A o \in Orders : Charges(o)' <= 1 /\ refunded'[o] >= refunded[o]
      /\ \A t \in work' : EntryOK(t)'
  BY BookSteps, TalliesKept
<1>2. \A o \in Orders : Sent("payment.refund", o)' =>
        refunded'[o] > 0 \/ \E m \in About(ForRefund, o)' : Pending(m)'
  <2>1. \A o \in Orders : refunded'[o] \in Nat
    BY SafetyStep DEF SafetyInv, ServicesOK, WalletTypeOK
  <2> QED
    BY <1>1, <2>1, RefundsKept
<1> QED
  BY <1>1, <1>2 DEF EntriesOK

-----------------------------------------------------------------------------
(* The theorems.                                                           *)

\* While not both a process dies and MongoDB fails, what pay found out
\* about an order is still true when it saves, and no refund is lost.
THEOREM PaymentsHold ==
  ASSUME MaxCrashes = 0 \/ PaymentsServed
  PROVE  Spec => []PaymentsOK
<1>1. Init => EntriesOK
  <2> SUFFICES ASSUME Init PROVE EntriesOK
    OBVIOUS
  <2>1. ASSUME NEW o \in Orders PROVE Charges(o) = 0
    <3>1. charged[o] = 0 /\ refunded[o] = 0
      BY DEF Init, WalletInit
    <3> QED
      BY <3>1 DEF Charges
  <2>2. ASSUME NEW o \in Orders PROVE ~ Sent("payment.refund", o)
    <3>1. published["payment.refund"][o] = 0
      BY DEF Init, BusInit, Keys
    <3> QED
      BY <3>1 DEF Sent
  <2> QED
    BY <2>1, <2>2 DEF Init, BusInit, EntriesOK
<1>2. /\ SafetyInv /\ Deliveries /\ (\A o \in Orders : OneAtATime(ForPayment, o))
      /\ EntriesOK /\ [Next]_vars
      => EntriesOK'
  BY EntriesKept
<1>3. Spec => []EntriesOK
  BY <1>1, <1>2, SafetyInvariant, DeliveriesHold, OnePayment, PTL DEF Spec
<1>4. Spec => [](PaymentsServed => CreatedOnce)
  <2>1. CASE PaymentsServed
    <3>1. CreatedOnce => (PaymentsServed => CreatedOnce)
      OBVIOUS
    <3> QED
      BY <2>1, <3>1, CreatedOnceHolds, PTL
  <2>2. CASE ~ PaymentsServed
    <3>1. PaymentsServed => CreatedOnce
      BY <2>2
    <3> QED
      BY <3>1, PTL
  <2> QED
    BY <2>1, <2>2
<1>5. /\ PaymentsServed => CreatedOnce
      /\ \A o \in Orders : OneAtATime(ForPayment, o)
      /\ EntriesOK
      => PaymentsOK
  BY DEF PaymentsOK
<1> QED
  BY <1>3, <1>4, <1>5, OnePayment, PTL

\* No redelivery after a crash, and no retry after a failure of MongoDB,
\* debits an order twice, also when it was refunded in between.
THEOREM ChargedOnceHolds ==
  ASSUME MaxCrashes = 0 \/ PaymentsServed
  PROVE  Spec => []ChargedOnce
<1>1. PaymentsOK => ChargedOnce
  BY DEF PaymentsOK, EntriesOK, ChargedOnce
<1> QED
  BY <1>1, PaymentsHold, PTL

\* When everything has come to rest, the order service's request to refund an
\* order was fulfilled, unless the dead letters hold it.
THEOREM RefundNotForgottenHolds ==
  ASSUME MaxCrashes = 0 \/ PaymentsServed
  PROVE  Spec => []RefundNotForgotten
<1>1. ASSUME SafetyInv, Deliveries, PaymentsOK
      PROVE  RefundNotForgotten
  <2> SUFFICES ASSUME Quiet, NEW o \in Orders, Sent("payment.refund", o), charged[o] > 0
               PROVE  DeadRefund(o)
    BY DEF RefundNotForgotten
  <2>1. charged[o] \in Nat /\ refunded[o] \in Nat
    BY <1>1 DEF SafetyInv, ServicesOK, WalletTypeOK
  <2>2. charged[o] + refunded[o] <= 1
    BY <1>1 DEF PaymentsOK, EntriesOK, Charges
  <2>3. ~ (refunded[o] > 0)
    BY <2>1, <2>2
  <2>4. PICK m \in About(ForRefund, o) : Pending(m)
    BY <1>1, <2>3 DEF PaymentsOK, EntriesOK
  <2> QED
    BY <2>4 DEF Quiet, DeadRefund, About, ForRefund
<1> QED
  BY <1>1, SafetyInvariant, DeliveriesHold, PaymentsHold, PTL
-----------------------------------------------------------------------------
(* The wallets keep atomic accounts.                                       *)

\* One customer's updates do not overlap: nobody tops up, and everybody has
\* one order.  Totals are whole, so that a refund gives all of it back.
NoOverlap ==
  /\ MaxTopUps = 0
  /\ \A o, r \in Orders : Buyer[o] = Buyer[r] => o = r
  /\ \A o \in Orders : Total[o] % 100 = 0

\* A total without cents is refunded in full.
LEMMA RefundableIsTotal ==
  ASSUME NoOverlap, NEW o \in Orders
  PROVE  Refundable(o) = Total[o]
<1>1. Total[o] \in Nat /\ Total[o] % 100 = 0
  BY WalletAssumption DEF NoOverlap
<1> QED
  BY <1>1 DEF Refundable

\* A handler about to refund is not done with its message.
LEMMA RefundingIsPending ==
  ASSUME Deliveries, NEW t \in work, t.at = "refunding"
  PROVE  t.msg \in About(ForRefund, t.msg.order) /\ Pending(t.msg)
<1>1. t.msg \in queued /\ t.msg.queue = Home(t.msg) /\ <<t.msg.queue, t.msg.key>> \in Bindings
  BY OnBinding
<1>2. t.msg.queue = "user.queue" /\ t.msg.key = "payment.refund"
  BY <1>1, OnBinding DEF Awaits, Bindings
<1>3. Pending(t.msg)
  BY AtWork
<1> QED
  BY <1>1, <1>2, <1>3 DEF About, ForRefund

\* What a handler of the wallet service has found out is true until it acts.
LEMMA StaysUpToDate ==
  ASSUME SafetyInv, Deliveries, AnsweredOnce, EntriesOK, NoOverlap, BookStep,
         \A t \in work : UpToDate(t)
  PROVE  \A t \in work' : UpToDate(t)'
<1>1. /\ charged \in [Orders -> Nat] /\ refunded \in [Orders -> Nat]
      /\ balance \in [Wallets -> Int]
      /\ \A t \in work : t.msg.order \in Orders
  BY DEF SafetyInv, ServicesOK, WalletTypeOK, BusTypeOK, Task, Message
<1>2. CASE NoEntry
  BY <1>2 DEF NoEntry, NoOverlap, walletVars, UpToDate
<1>3. ASSUME NEW t \in work, NEW s, EnterDebit(t, s), NEW u \in work'
      PROVE  UpToDate(u)'
  <2>1. u.at \in {"paying", "refunding"} => u \in work /\ u # t
    BY <1>3 DEF EnterDebit, Advance
  <2>2. ASSUME u.at = "paying"
        PROVE  u.seen = balance'[Buyer[u.msg.order]]
    <3>1. u.msg.order # t.msg.order
      BY <1>1, <1>3, <2>1, <2>2, OnlyPaying DEF EnterDebit, AnsweredOnce, ForPayment, Bindings
    <3>2. Buyer[u.msg.order] # Buyer[t.msg.order] /\ Buyer[u.msg.order] \in Wallets
      BY <1>1, <2>1, <2>2, <3>1 DEF NoOverlap, SafetyInv, ServicesOK, HandlersOK, TaskOK
    <3> QED
      BY <1>1, <1>3, <2>1, <2>2, <3>2 DEF EnterDebit, Debit, UpToDate
  <2>3. ASSUME u.at = "refunding"
        PROVE  charged'[u.msg.order] > 0
    <3>1. charged[u.msg.order] > 0 /\ u.msg.order \in Orders
      BY <1>1, <2>1, <2>3 DEF UpToDate
    <3>2. charged' = [charged EXCEPT ![t.msg.order] = @ + 1]
      BY <1>3 DEF EnterDebit, Debit
    <3> QED
      BY <1>1, <3>1, <3>2
  <2> QED
    BY <2>2, <2>3 DEF UpToDate
<1>4. ASSUME NEW t \in work, NEW s, EnterRefund(t, s), NEW u \in work'
      PROVE  UpToDate(u)'
  <2>1. u.at \in {"paying", "refunding"} => u \in work /\ u # t
    BY <1>4 DEF EnterRefund, Advance
  <2>2. ASSUME u.at = "paying"
        PROVE  u.seen = balance'[Buyer[u.msg.order]]
    <3>1. u.msg.order # t.msg.order
      BY <1>4, <2>1, <2>2 DEF EnterRefund, EntriesOK, EntryOK
    <3>2. Buyer[u.msg.order] # Buyer[t.msg.order] /\ Buyer[u.msg.order] \in Wallets
      BY <1>1, <2>1, <2>2, <3>1 DEF NoOverlap, SafetyInv, ServicesOK, HandlersOK, TaskOK
    <3> QED
      BY <1>1, <1>4, <2>1, <2>2, <3>2 DEF EnterRefund, Refund, UpToDate
  <2>3. ASSUME u.at = "refunding"
        PROVE  charged'[u.msg.order] > 0
    <3>1. u.msg # t.msg
      BY <1>4, <2>1, <2>3 DEF Deliveries, Attended
    <3>2. OneAtATime(ForRefund, t.msg.order)
      BY <1>1 DEF AnsweredOnce, ForRefund, Bindings
    <3>3. u.msg.order # t.msg.order
      BY <1>4, <2>1, <2>3, <3>1, <3>2, RefundingIsPending DEF EnterRefund, OneAtATime
    <3> QED
      BY <1>1, <1>4, <2>1, <2>3, <3>3 DEF EnterRefund, Refund, UpToDate
  <2> QED
    BY <2>2, <2>3 DEF UpToDate
<1> QED
  BY <1>2, <1>3, <1>4 DEF BookStep

\* A save enters a payment, a refund gives the money back, and nothing else
\* is seen of the handlers.
LEMMA LedgerStep ==
  ASSUME SafetyInv, EntriesOK, NoOverlap, BookStep, \A t \in work : UpToDate(t)
  PROVE  [Ledger!Next]_(Ledger!vars)
<1>1. /\ charged \in [Orders -> Nat] /\ refunded \in [Orders -> Nat]
      /\ balance \in [Wallets -> Int]
      /\ \A t \in work : t.msg.order \in Orders
  BY DEF SafetyInv, ServicesOK, WalletTypeOK, BusTypeOK, Task, Message
<1>2. CASE NoEntry
  BY <1>2 DEF NoEntry, NoOverlap, walletVars, Payment, Ledger!vars
<1>3. ASSUME NEW t \in work, NEW s, EnterDebit(t, s)
      PROVE  Ledger!Pay(t.msg.order)
  <2> DEFINE o == t.msg.order
  <2>1. o \in Orders /\ charged[o] = 0 /\ refunded[o] = 0
    BY <1>1, <1>3 DEF EnterDebit, EntriesOK, EntryOK, Charges
  <2>2. Payment[o] = "unpaid" /\ Payment' = [Payment EXCEPT ![o] = "paid"]
    BY <1>1, <1>3, <2>1 DEF EnterDebit, Debit, Payment
  <2>3. balance[Buyer[o]] >= Total[o] /\ t.seen = balance[Buyer[o]]
    BY <1>3 DEF EnterDebit, UpToDate, SafetyInv, ServicesOK, HandlersOK, TaskOK
  <2>4. balance' = [balance EXCEPT ![Buyer[o]] = @ - Total[o]] /\ UNCHANGED deposited
    BY <1>1, <1>3, <2>3 DEF EnterDebit, Debit
  <2> QED
    BY <2>2, <2>3, <2>4 DEF Ledger!Pay
<1>4. ASSUME NEW t \in work, NEW s, EnterRefund(t, s)
      PROVE  Ledger!GiveBack(t.msg.order)
  <2> DEFINE o == t.msg.order
  <2>1. o \in Orders /\ charged[o] = 1 /\ refunded[o] = 0
    <3>1. o \in Orders /\ charged[o] > 0 /\ charged[o] + refunded[o] <= 1
      BY <1>1, <1>4 DEF EnterRefund, UpToDate, EntriesOK, Charges
    <3> QED
      BY <1>1, <3>1
  <2>2. Payment[o] = "paid" /\ Payment' = [Payment EXCEPT ![o] = "refunded"]
    BY <1>1, <1>4, <2>1 DEF EnterRefund, Refund, Payment
  <2>3. balance' = [balance EXCEPT ![Buyer[o]] = @ + Total[o]] /\ UNCHANGED deposited
    BY <1>4, <2>1, RefundableIsTotal DEF EnterRefund, Refund
  <2> QED
    BY <2>2, <2>3 DEF Ledger!GiveBack
<1>5. CASE \E t \in work, s \in Stages : EnterDebit(t, s) \/ EnterRefund(t, s)
  BY <1>1, <1>3, <1>4, <1>5 DEF Ledger!Next
<1> QED
  BY <1>2, <1>5 DEF BookStep

\* As long as no process dies and no two updates of a wallet overlap, the
\* user service's reads and writes, with their retries and half-failed saves,
\* implement the atomic account: an order is paid for in full and once, a
\* refund gives back exactly that, and nothing else moves the balance.
THEOREM LedgerHolds ==
  ASSUME MaxCrashes = 0, NoOverlap
  PROVE  Spec => LedgerSpec
<1>1. Init => Ledger!Init
  BY DEF Init, WalletInit, Payment, Ledger!Init, Wallets
<1>2. Init => \A t \in work : UpToDate(t)
  BY DEF Init, BusInit
<1>3. /\ SafetyInv /\ Deliveries /\ AnsweredOnce /\ PaymentsOK /\ [Next]_vars
      /\ \A t \in work : UpToDate(t)
      => (\A t \in work : UpToDate(t))'
  BY BookSteps, StaysUpToDate DEF PaymentsOK
<1>4. /\ SafetyInv /\ PaymentsOK /\ [Next]_vars
      /\ \A t \in work : UpToDate(t)
      => [Ledger!Next]_(Ledger!vars)
  BY BookSteps, LedgerStep DEF PaymentsOK
<1>5. Spec => []PaymentsOK /\ []AnsweredOnce
  BY PaymentsHold, AnsweredOnceHolds, PTL
<1> QED
  BY <1>1, <1>2, <1>3, <1>4, <1>5, SafetyInvariant, DeliveriesHold, PTL
  DEF Spec, LedgerSpec, Ledger!Spec
=============================================================================
