---------------------------- MODULE RowLockProofs ----------------------------
(***************************************************************************)
(* What holds of the transactions for all orders, products and faults.     *)
(***************************************************************************)
EXTENDS RowLockProperties, BusProofs, WellFoundedInduction

-----------------------------------------------------------------------------
(* Rows and their transactions.                                            *)

\* The items of an order are its products, each once.
LEMMA LinesFacts ==
  ASSUME NEW o \in Orders
  PROVE  /\ Len(Lines[o]) \in Nat /\ DOMAIN Lines[o] = 1..Len(Lines[o])
         /\ \A i \in 1..Len(Lines[o]) : Lines[o][i] \in Products
         /\ \A i, j \in 1..Len(Lines[o]) : Lines[o][i] = Lines[o][j] => i = j
         /\ {Lines[o][i] : i \in 1..Len(Lines[o])} = Wanted(o)
         /\ Need[o] \in [Products -> Nat]
<1>1. Lines[o] \in Seq(Products)
  BY LinesAssumption
<1>2. Len(Lines[o]) \in Nat /\ DOMAIN Lines[o] = 1..Len(Lines[o])
  BY <1>1
<1>3. \A i \in 1..Len(Lines[o]) : Lines[o][i] \in Products
  BY <1>1
<1>4. NoDuplicates(Lines[o]) /\ {Lines[o][i] : i \in DOMAIN Lines[o]} = Wanted(o)
  BY LinesAssumption
<1> QED
  BY <1>2, <1>3, <1>4, ItemsAssumption DEF NoDuplicates

\* The rows a transaction has, and the one it asks for next.
LEMMA TransactionFacts ==
  ASSUME RowsCurrent, NEW t \in running
  PROVE  /\ t.msg \in queued /\ t.msg \in Message /\ t.msg.order \in Orders
         /\ t.done \in Nat /\ t.saved \in [Products -> Int]
         /\ Locked(t) \subseteq Products
         /\ More(t) => Row(t) \in Products \ Locked(t)
         /\ ~ More(t) => Locked(t) = Wanted(t.msg.order)
<1>1. t \in Transaction /\ TransactionOK(t)
  BY DEF RowsCurrent
<1>2. t.msg \in queued /\ t.msg \in Message /\ t.msg.order \in Orders
  BY <1>1 DEF TransactionOK, Waiting, Holding, Transaction, Message
<1>3. t.done \in Nat /\ t.saved \in [Products -> Int]
  BY <1>1 DEF Transaction
<1> DEFINE n == Len(Lines[t.msg.order])
<1>4. n \in Nat /\ t.done <= n
  BY <1>1, <1>2, LinesFacts DEF TransactionOK, Rows
<1>5. 1..t.done \subseteq 1..n
  BY <1>3, <1>4
<1>6. Locked(t) \subseteq Products
  BY <1>2, <1>5, LinesFacts DEF Locked, Rows
<1>7. More(t) => Row(t) \in Products \ Locked(t)
  <2> SUFFICES ASSUME More(t)
               PROVE  Row(t) \in Products /\ Row(t) \notin Locked(t)
    OBVIOUS
  <2>1. t.done + 1 \in 1..n
    BY <1>3, <1>4 DEF More, Rows
  <2>2. Row(t) \in Products
    BY <1>2, <2>1, LinesFacts DEF Row, Rows
  <2>3. ASSUME NEW i \in 1..t.done, Rows(t)[i] = Row(t)
        PROVE  FALSE
    <3>1. i \in 1..n /\ i # t.done + 1
      BY <1>3, <1>5
    <3> QED
      BY <1>2, <2>1, <2>3, <3>1, LinesFacts DEF Row, Rows
  <2> QED
    BY <2>2, <2>3 DEF Locked
<1>8. ~ More(t) => Locked(t) = Wanted(t.msg.order)
  <2> SUFFICES ASSUME ~ More(t)
               PROVE  Locked(t) = Wanted(t.msg.order)
    OBVIOUS
  <2>1. t.done = n
    BY <1>3, <1>4 DEF More, Rows
  <2> QED
    BY <1>2, <2>1, LinesFacts DEF Locked, Rows
<1> QED
  BY <1>2, <1>3, <1>6, <1>7, <1>8

\* What a transaction commits is the whole order: nothing is left negative,
\* and only rows it has locked are changed.
LEMMA CommitEffect ==
  ASSUME RowsCurrent, NEW t \in running, ~ More(t),
         stock' = Written(t), Record(t)
  PROVE  /\ IF Reserves(t) THEN Available(t.msg.order) /\ Take(t.msg.order)
                           ELSE Return(t.msg.order)
         /\ InventoryTypeOK' /\ \A p \in Products : stock'[p] >= 0
         /\ \A p \in Products \ Locked(t) : stock'[p] = stock[p]
<1> DEFINE o == t.msg.order
<1>1. o \in Orders /\ Locked(t) = Wanted(o) /\ Locked(t) \subseteq Products
  BY TransactionFacts
<1>2. Need[o] \in [Products -> Nat]
  BY <1>1, LinesFacts
<1>3. /\ stock \in [Products -> Int] /\ held \in [Orders -> Int]
      /\ \A p \in Products : stock[p] >= 0
  BY DEF RowsCurrent, InventoryTypeOK
<1>4. \A p \in Products : Quantity(t, p) \in Int
  BY <1>2, <1>3 DEF Quantity
<1>5. \A p \in Locked(t) : t.saved[p] = Quantity(t, p) /\ t.saved[p] >= 0
  BY DEF RowsCurrent, TransactionOK
<1>6. \A p \in Products \ Locked(t) : Need[o][p] = 0
  BY <1>1, <1>2 DEF Wanted
<1>7. \A p \in Products : Written(t)[p] = Quantity(t, p) /\ Written(t)[p] >= 0
  <2> TAKE p \in Products
  <2>1. CASE p \in Locked(t)
    BY <1>5, <2>1 DEF Written
  <2>2. CASE p \notin Locked(t)
    BY <1>3, <1>6, <2>2 DEF Written, Quantity
  <2> QED
    BY <2>1, <2>2
<1>8. Written(t) = [p \in Products |-> Quantity(t, p)]
  BY <1>7 DEF Written
<1>9. CASE Reserves(t)
  <2>1. stock' = [p \in Products |-> stock[p] - Need[o][p]]
    BY <1>8, <1>9 DEF Quantity
  <2>2. Available(o)
    BY <1>2, <1>3, <1>7, <1>9 DEF Available, Quantity
  <2>3. held' = [held EXCEPT ![o] = @ + 1]
    BY <1>9 DEF Record
  <2> QED
    BY <1>1, <1>3, <1>4, <1>7, <1>8, <1>9, <2>1, <2>2, <2>3
    DEF Take, InventoryTypeOK, Written
<1>10. CASE ~ Reserves(t)
  <2>1. stock' = [p \in Products |-> stock[p] + Need[o][p]]
    BY <1>8, <1>10 DEF Quantity
  <2>2. held' = [held EXCEPT ![o] = @ - 1]
    BY <1>1, <1>3, <1>10 DEF Record
  <2> QED
    BY <1>1, <1>3, <1>4, <1>7, <1>8, <1>10, <2>1, <2>2
    DEF Return, InventoryTypeOK, Written
<1> QED
  BY <1>9, <1>10

-----------------------------------------------------------------------------
(* The invariant.                                                          *)

\* A step that begins no transaction, and touches neither the message nor
\* the rows of one that goes on.
LEMMA RowsKept ==
  ASSUME RowsCurrent, BusTypeOK', InventoryTypeOK', crashes' \in Nat, errors' \in Nat,
         \A p \in Products : stock'[p] >= 0,
         running' \subseteq running,
         \A t \in running' : /\ Waiting(t.msg, "inventory.queue")'
                             /\ \A p \in Locked(t) : stock'[p] = stock[p]
  PROVE  RowsCurrent'
<1>1. ASSUME NEW t \in running'
      PROVE  TransactionOK(t)'
  BY <1>1, TransactionFacts DEF RowsCurrent, TransactionOK, Quantity, Reserves, Rows, Locked
<1>2. ASSUME NEW t \in running', NEW u \in running', t # u
      PROVE  Apart(t, u)'
  BY <1>2 DEF RowsCurrent, Apart, Locked, Rows
<1> QED
  BY <1>1, <1>2 DEF RowsCurrent

\* A transaction that ends leaves the others their messages.
LEMMA EndKeepsOthers ==
  ASSUME RowsCurrent, NEW t \in running, End(t),
         \/ \E s \in Stages : Begin(t.msg, s, 0)
         \/ Drop(t.msg)
  PROVE  /\ BusTypeOK'
         /\ running' \subseteq running
         /\ \A u \in running' : /\ Waiting(u.msg, "inventory.queue")'
                                /\ Locked(u) \cap Locked(t) = {}
<1>1. BusTypeOK /\ t.msg \in queued
  BY TransactionFacts DEF RowsCurrent
<1>2. BusTypeOK'
  BY <1>1, BeginEffect, RemovalEffect
<1>3. ASSUME NEW u \in running'
      PROVE  /\ Waiting(u.msg, "inventory.queue")'
             /\ Locked(u) \cap Locked(t) = {}
  <2>1. u \in running /\ u # t
    BY <1>3 DEF End
  <2>2. u.msg # t.msg /\ Locked(u) \cap Locked(t) = {}
    BY <2>1 DEF RowsCurrent, Apart
  <2>3. Waiting(u.msg, "inventory.queue")
    BY <2>1 DEF RowsCurrent, TransactionOK
  <2> QED
    BY <2>2, <2>3 DEF Waiting, Holding, Begin, Drop, Discard
<1> QED
  BY <1>2, <1>3 DEF End

\* A row is locked when nobody has it.
LEMMA SaveRowKeeps ==
  ASSUME RowsCurrent, NEW t \in running, SaveRow(t)
  PROVE  RowsCurrent'
<1> DEFINE p == Row(t)
           v == Quantity(t, p)
<1>1. /\ t.msg \in Message /\ t.msg.order \in Orders /\ t.done \in Nat
      /\ t.saved \in [Products -> Int]
      /\ Locked(t) \subseteq Products /\ p \in Products \ Locked(t)
  BY TransactionFacts DEF SaveRow
<1>2. PICK new :
        /\ new = [msg |-> t.msg, done |-> t.done + 1,
                  saved |-> [t.saved EXCEPT ![p] = v]]
        /\ running' = (running \ {t}) \cup {new}
        /\ UNCHANGED <<serviceVars, faultVars>>
  BY DEF SaveRow, Save
<1>3. v \in Int /\ v >= 0
  <2>1. stock[p] \in Int /\ stock[p] >= 0 /\ Need[t.msg.order][p] \in Nat
    BY <1>1, LinesFacts DEF RowsCurrent, InventoryTypeOK
  <2> QED
    BY <2>1 DEF SaveRow, Quantity
<1>4. new \in Transaction /\ Rows(new) = Rows(t) /\ new.msg = t.msg
  BY <1>1, <1>2, <1>3 DEF Transaction, Rows
<1>5. Locked(new) = Locked(t) \cup {p}
  <2>1. 1..(t.done + 1) = (1..t.done) \cup {t.done + 1}
    BY <1>1
  <2>2. Locked(new) = {Rows(t)[i] : i \in 1..(t.done + 1)}
    BY <1>2, <1>4 DEF Locked
  <2> QED
    BY <2>1, <2>2 DEF Locked, Row
<1>6. /\ Waiting(t.msg, "inventory.queue") /\ t.msg.key \in Handled
      /\ \A q \in Locked(t) : t.saved[q] = Quantity(t, q) /\ t.saved[q] >= 0
  BY DEF RowsCurrent, TransactionOK
<1>7. TransactionOK(new)'
  <2>1. t.done + 1 <= Len(Rows(t))
    BY <1>1, LinesFacts DEF SaveRow, More, Rows
  <2>2. \A q \in Products : Quantity(new, q) = Quantity(t, q)
    BY <1>4 DEF Quantity, Reserves
  <2>3. \A q \in Locked(new) : new.saved[q] = Quantity(new, q) /\ new.saved[q] >= 0
    BY <1>1, <1>2, <1>3, <1>5, <1>6, <2>2
  <2>4. TransactionOK(new)
    BY <1>2, <1>4, <1>6, <2>1, <2>3 DEF TransactionOK
  <2> QED
    BY <1>2, <2>4 DEF TransactionOK, Waiting, Holding, Quantity, serviceVars,
                      inventoryVars, busVars, Reserves, Rows, Locked
<1>8. ASSUME NEW u \in running \ {t}
      PROVE  Apart(u, new) /\ Apart(new, u) /\ TransactionOK(u)'
  <2>1. Apart(u, t) /\ TransactionOK(u)
    BY DEF RowsCurrent
  <2>2. p \notin Locked(u)
    BY DEF SaveRow, Blocked, WaitsFor
  <2>3. TransactionOK(u)'
    BY <1>2, <2>1 DEF TransactionOK, Waiting, Holding, Quantity, serviceVars,
                      inventoryVars, busVars, Reserves, Rows, Locked
  <2> QED
    BY <1>4, <1>5, <2>1, <2>2, <2>3 DEF Apart
<1>9. \A u, w \in running' : u # w => Apart(u, w)'
  <2>1. \A u, w \in running' : u # w => Apart(u, w)
    BY <1>2, <1>8 DEF RowsCurrent
  <2> QED
    BY <2>1 DEF Apart, Locked, Rows
<1>10. \A u \in running' : u \in Transaction /\ TransactionOK(u)'
  BY <1>2, <1>4, <1>7, <1>8 DEF RowsCurrent
<1> QED
  BY <1>2, <1>9, <1>10 DEF RowsCurrent, BusTypeOK, InventoryTypeOK, serviceVars,
                           inventoryVars, busVars, faultVars

\* The other steps of the service.
LEMMA TransactKeeps ==
  ASSUME RowsCurrent, NEW t \in running,
         \/ RollBackShort(t) \/ Commit(t) \/ AbortVictim(t)
         \/ \E applied \in BOOLEAN : LoseConnection(t, applied)
  PROVE  RowsCurrent'
<1>1. End(t) /\ ((\E s \in Stages : Begin(t.msg, s, 0)) \/ Drop(t.msg))
  BY DEF RollBackShort, Commit, AbortVictim, LoseConnection, ReportError, Stages
<1>2. crashes' \in Nat /\ errors' \in Nat
  BY DEF RowsCurrent, RollBackShort, Commit, AbortVictim, LoseConnection, faultVars
<1>3. \/ UNCHANGED inventoryVars
      \/ ~ More(t) /\ stock' = Written(t) /\ Record(t)
  BY DEF RollBackShort, Commit, AbortVictim, LoseConnection
<1>4. /\ InventoryTypeOK' /\ \A p \in Products : stock'[p] >= 0
      /\ \A p \in Products \ Locked(t) : stock'[p] = stock[p]
  <2>1. CASE UNCHANGED inventoryVars
    BY <2>1 DEF RowsCurrent, InventoryTypeOK, inventoryVars
  <2> QED
    BY <1>3, <2>1, CommitEffect
<1>5. \A u \in running' : Locked(u) \subseteq Products \ Locked(t)
  BY <1>1, EndKeepsOthers, TransactionFacts
<1> QED
  BY <1>1, <1>2, <1>4, <1>5, EndKeepsOthers, RowsKept

\* Starting a transaction locks nothing yet.
LEMMA StartKeeps ==
  ASSUME RowsCurrent, NEW m \in queued, Start(m)
  PROVE  RowsCurrent'
<1>1. PICK new :
        /\ new = [msg |-> m, done |-> 0, saved |-> [p \in Products |-> 0]]
        /\ running' = running \cup {new}
        /\ UNCHANGED <<serviceVars, faultVars>>
  BY DEF Start
<1>2. m \in Message /\ m.order \in Orders
  BY DEF RowsCurrent, BusTypeOK, Message
<1>3. new \in Transaction /\ Locked(new) = {}
  BY <1>1, <1>2 DEF Transaction, Locked
<1>4. TransactionOK(new)
  BY <1>1, <1>2, <1>3, LinesFacts DEF TransactionOK, Start, Rows
<1>5. \A u \in running' : u \in Transaction /\ TransactionOK(u)
  BY <1>1, <1>3, <1>4 DEF RowsCurrent
<1>6. \A u, w \in running' : u # w => Apart(u, w)
  BY <1>1, <1>3 DEF RowsCurrent, Apart, Start
<1>7. \A u \in running' : TransactionOK(u)'
  BY <1>1, <1>5 DEF TransactionOK, Waiting, Holding, Quantity, serviceVars,
                    inventoryVars, busVars, Reserves, Rows, Locked
<1>8. \A u, w \in running' : u # w => Apart(u, w)'
  BY <1>6 DEF Apart, Locked, Rows
<1> QED
  BY <1>1, <1>5, <1>7, <1>8
  DEF RowsCurrent, BusTypeOK, InventoryTypeOK, serviceVars, inventoryVars, busVars, faultVars

\* Steps that leave the transactions, or end them all.
LEMMA OutsideKeeps ==
  ASSUME RowsCurrent,
         \/ \E t \in TasksOf("inventory.queue") : Finish(t)
         \/ Crash
         \/ \E o \in Orders : Request(o) /\ UNCHANGED <<running, faultVars>>
  PROVE  RowsCurrent'
<1>1. BusTypeOK /\ InventoryTypeOK /\ crashes \in Nat /\ errors \in Nat
      /\ \A p \in Products : stock[p] >= 0
  BY DEF RowsCurrent
<1>2. \A u \in running : /\ Holding(u.msg, "inventory.queue")
                         /\ \A t \in work : t.msg # u.msg
                         /\ Locked(u) \subseteq Products
  BY TransactionFacts DEF RowsCurrent, TransactionOK, Waiting
<1>3. UNCHANGED inventoryVars
  BY DEF Finish, PublishOutcome, AckInventoryEvent, Crash, InventoryCrash, Request
<1>4. InventoryTypeOK' /\ \A p \in Products : stock'[p] = stock[p]
  BY <1>1, <1>3 DEF InventoryTypeOK, inventoryVars
<1>5. ASSUME NEW t \in TasksOf("inventory.queue"), Finish(t)
      PROVE  RowsCurrent'
  <2>1. t \in work /\ t.msg \in Message /\ t.msg.order \in Orders
    BY <1>1 DEF TasksOf, BusTypeOK, Task, Message
  <2>2. CASE PublishOutcome(t)
    <3>1. PICK k \in Keys : Publish(k, t.msg.order)
      BY <2>2 DEF PublishOutcome, Outcome, Keys
    <3>2. work' \subseteq Task /\ \A x \in work' : \E y \in work : x.msg = y.msg
      BY <1>1, <2>1, <2>2, AdvanceEffect DEF PublishOutcome, Stages
    <3>3. BusTypeOK' /\ queued \subseteq queued'
      BY <1>1, <2>1, <3>1, <3>2, PublishEffect DEF BusTypeOK, Publish
    <3> QED
      BY <1>1, <1>2, <1>4, <1>5, <3>2, <3>3, RowsKept
      DEF Finish, faultVars, Waiting, Holding
  <2>3. CASE AckInventoryEvent(t)
    <3>1. BusTypeOK' /\ work' \subseteq work /\ queued' = queued \ {t.msg}
      BY <1>1, <2>1, <2>3, RemovalEffect DEF AckInventoryEvent, Ack, Discard
    <3> QED
      BY <1>1, <1>2, <1>4, <1>5, <2>1, <3>1, RowsKept
      DEF Finish, faultVars, Waiting, Holding
  <2> QED
    BY <1>5, <2>2, <2>3 DEF Finish
<1>6. CASE Crash
  <2>1. BusTypeOK'
    BY <1>1, <1>6, RemovalEffect DEF Crash, InventoryCrash, Queues
  <2> QED
    BY <1>1, <1>4, <1>6, <2>1, RowsKept DEF Crash
<1>7. ASSUME NEW o \in Orders, Request(o), UNCHANGED <<running, faultVars>>
      PROVE  RowsCurrent'
  <2>1. PICK k \in Keys : Publish(k, o) /\ UNCHANGED work
    BY <1>7 DEF Request, Keys
  <2>2. BusTypeOK' /\ queued \subseteq queued'
    BY <1>1, <2>1, PublishEffect DEF BusTypeOK, Publish
  <2> QED
    BY <1>1, <1>2, <1>4, <1>7, <2>1, <2>2, RowsKept DEF faultVars, Waiting, Holding
<1> QED
  BY <1>5, <1>6, <1>7

\* No transaction works with a row that another has locked or changed since
\* it was read: RowsCurrent is inductive, whatever fails.
THEOREM RowsCurrentHolds == Spec => []RowsCurrent
<1>1. Init => RowsCurrent
  <2> SUFFICES ASSUME Init
               PROVE  RowsCurrent
    OBVIOUS
  <2>1. BusTypeOK
    BY DEF Init, BusInit, BusTypeOK
  <2>2. InventoryTypeOK /\ \A p \in Products : stock[p] >= 0
    BY InventoryAssumption DEF Init, InventoryInit, InventoryTypeOK
  <2> QED
    BY <2>1, <2>2 DEF Init, RowsCurrent
<1>2. RowsCurrent /\ [Next]_vars => RowsCurrent'
  <2> SUFFICES ASSUME RowsCurrent, [Next]_vars
               PROVE  RowsCurrent'
    OBVIOUS
  <2>1. CASE Transact
    BY <2>1, StartKeeps, SaveRowKeeps, TransactKeeps DEF Transact
  <2>2. CASE \E t \in TasksOf("inventory.queue") : Finish(t)
    BY <2>2, OutsideKeeps
  <2>3. CASE Fault
    BY <2>3, TransactKeeps, OutsideKeeps DEF Fault
  <2>4. CASE \E o \in Orders : Request(o) /\ UNCHANGED <<running, faultVars>>
    BY <2>4, OutsideKeeps
  <2>5. CASE UNCHANGED vars
    <3>1. UNCHANGED <<inventoryVars, busVars, running, crashes, errors>>
      BY <2>5 DEF vars, serviceVars, faultVars
    <3> QED
      BY <3>1, RowsKept, TransactionFacts
      DEF RowsCurrent, TransactionOK, Waiting, Holding, inventoryVars, busVars,
          BusTypeOK, InventoryTypeOK
  <2> QED
    BY <2>1, <2>2, <2>3, <2>4, <2>5 DEF Next, Handle
<1> QED
  BY <1>1, <1>2, PTL DEF Spec

-----------------------------------------------------------------------------
(* The transactions implement the steps of InventoryService.               *)

\* Each step of a transaction is a step of InventoryService, or changes
\* nothing it knows of.
LEMMA TransactRefines ==
  ASSUME RowsCurrent, NEW t \in running,
         \/ SaveRow(t) \/ RollBackShort(t) \/ Commit(t) \/ AbortVictim(t)
         \/ \E applied \in BOOLEAN : LoseConnection(t, applied)
  PROVE  [AtomicNext]_serviceVars
<1> DEFINE m == t.msg
<1>1. /\ m \in queued /\ m.order \in Orders /\ m.key \in Handled
      /\ Waiting(m, "inventory.queue")
  BY TransactionFacts DEF RowsCurrent, TransactionOK
<1>2. Reserves(t) <=> m.key # "inventory.release"
  BY <1>1 DEF Reserves, Handled
<1>3. CASE SaveRow(t)
  BY <1>3 DEF SaveRow, serviceVars
<1>4. CASE RollBackShort(t)
  <2>1. ~ Available(m.order)
    <3>1. Row(t) \in Products /\ stock[Row(t)] < Need[m.order][Row(t)]
      BY <1>4, TransactionFacts DEF RollBackShort, Short
    <3>2. stock[Row(t)] \in Int /\ Need[m.order][Row(t)] \in Nat
      BY <1>1, <3>1, LinesFacts DEF RowsCurrent, InventoryTypeOK
    <3> QED
      BY <3>1, <3>2 DEF Available
  <2>2. RejectReservation(m)
    BY <1>1, <1>4, <2>1 DEF RollBackShort, Short, Reserves, RejectReservation
  <2> QED
    BY <1>1, <2>2 DEF AtomicNext, InventoryStep
<1>5. CASE Commit(t)
  <2>1. IF Reserves(t) THEN Available(m.order) /\ Take(m.order) ELSE Return(m.order)
    BY <1>5, CommitEffect DEF Commit
  <2>2. ReserveStock(m) \/ ReleaseStock(m)
    BY <1>1, <1>2, <1>5, <2>1 DEF Commit, ReserveStock, ReleaseStock, Reserves
  <2> QED
    BY <1>1, <2>2 DEF AtomicNext, InventoryStep
<1>6. CASE AbortVictim(t)
  <2>1. ReservationFails(m, FALSE) \/ ReleaseFails(m, FALSE)
    BY <1>1, <1>2, <1>6 DEF AbortVictim, ReportError, ReservationFails, ReleaseFails, Reserves
  <2> QED
    BY <1>1, <2>1 DEF AtomicNext, InventoryFault
<1>7. ASSUME NEW applied \in BOOLEAN, LoseConnection(t, applied)
      PROVE  [AtomicNext]_serviceVars
  <2>1. applied =>
          IF Reserves(t) THEN Available(m.order) /\ Take(m.order) ELSE Return(m.order)
    BY <1>7, CommitEffect DEF LoseConnection
  <2>2. ReservationFails(m, applied) \/ ReleaseFails(m, applied)
    BY <1>1, <1>2, <1>7, <2>1
    DEF LoseConnection, ReportError, ReservationFails, ReleaseFails, Reserves
  <2> QED
    BY <1>1, <2>2 DEF AtomicNext, InventoryFault
<1> QED
  BY <1>3, <1>4, <1>5, <1>6, <1>7

\* The transactions take effect all at once or not at all: row by row, the
\* service implements the one-step reservations and releases of the saga.
THEOREM AtomicHolds == Spec => AtomicSpec
<1>1. Init => BusInit /\ InventoryInit
  BY DEF Init
<1>2. RowsCurrent /\ [Next]_vars => [AtomicNext]_serviceVars
  <2> SUFFICES ASSUME RowsCurrent, [Next]_vars
               PROVE  [AtomicNext]_serviceVars
    OBVIOUS
  <2>1. CASE Transact
    BY <2>1, TransactRefines DEF Transact, Start
  <2>2. CASE \E t \in TasksOf("inventory.queue") : Finish(t)
    BY <2>2 DEF Finish, AtomicNext, InventoryStep
  <2>3. CASE Fault
    BY <2>3, TransactRefines DEF Fault, Crash, AtomicNext
  <2>4. CASE \E o \in Orders : Request(o) /\ UNCHANGED <<running, faultVars>>
    BY <2>4 DEF AtomicNext
  <2>5. CASE UNCHANGED vars
    BY <2>5 DEF vars
  <2> QED
    BY <2>1, <2>2, <2>3, <2>4, <2>5 DEF Next, Handle
<1> QED
  BY <1>1, <1>2, RowsCurrentHolds, PTL DEF Spec, AtomicSpec

-----------------------------------------------------------------------------
(* Deadlocks.                                                              *)

\* A row that a transaction has ranks below the one it asks for.
LEMMA LockedRankLower ==
  ASSUME RowsCurrent, NEW t \in running, More(t), NEW p \in Locked(t),
         NEW rank, Ascending(rank, Lines[t.msg.order])
  PROVE  rank[p] < rank[Row(t)]
<1>1. t.msg.order \in Orders /\ t.done \in Nat
  BY TransactionFacts
<1>2. PICK i \in 1..t.done : p = Rows(t)[i]
  BY DEF Locked
<1>3. /\ i \in DOMAIN Lines[t.msg.order] /\ t.done + 1 \in DOMAIN Lines[t.msg.order]
      /\ i < t.done + 1
  BY <1>1, LinesFacts DEF More, Rows
<1> QED
  BY <1>2, <1>3 DEF Ascending, Rows, Row

\* Were the items of all orders sorted alike, the transaction that waits for
\* the lowest row would be waited for by one that waits for a lower one.
THEOREM DeadlockNeedsDisorderHolds == Spec => []DeadlockNeedsDisorder
<1>1. RowsCurrent => DeadlockNeedsDisorder
  <2> SUFFICES ASSUME RowsCurrent, NEW S \in SUBSET running, Deadlock(S),
                      NEW rank \in Rankings,
                      \A t \in S : Ascending(rank, Lines[t.msg.order])
               PROVE  FALSE
    BY DEF DeadlockNeedsDisorder
  <2> DEFINE T == {rank[Row(t)] : t \in S}
             R == OpToRel(<, Nat)
  <2>1. \A t \in S : t \in running /\ More(t) /\ Row(t) \in Products
    BY TransactionFacts DEF Deadlock, WaitsFor
  <2>2. \A p \in Products : rank[p] \in Nat
    BY DEF Rankings
  <2>3. T \subseteq Nat /\ T # {}
    BY <2>1, <2>2 DEF Deadlock
  <2>4. \E x \in T : \A y \in T : ~ (<<y, x>> \in R)
    <3> HIDE DEF T, R
    <3> QED
      BY <2>3, NatLessThanWellFounded, WFMin DEF R
  <2>5. PICK t \in S : \A u \in S : ~ (<<rank[Row(u)], rank[Row(t)]>> \in R)
    <3> HIDE DEF R
    <3> QED
      BY <2>4
  <2>6. \A u \in S : ~ (rank[Row(u)] < rank[Row(t)])
    BY <2>1, <2>2, <2>5 DEF OpToRel
  <2>7. PICK u \in S : WaitsFor(u, t)
    BY DEF Deadlock
  <2>8. rank[Row(u)] < rank[Row(t)]
    BY <2>1, <2>7, LockedRankLower DEF WaitsFor
  <2> QED
    BY <2>6, <2>8
<1> QED
  BY <1>1, RowsCurrentHolds, PTL

-----------------------------------------------------------------------------
(* How often an order's stock is taken and returned.                       *)

\* The event is yet to be sent, or to be handled by a transaction that ends.
Open(k, o) ==
  \/ ~ Sent(k, o)
  \/ \E m \in queued : Waiting(m, "inventory.queue") /\ m.key = k /\ m.order = o

\* The consumer gets one message of each event of an order.
Single ==
  /\ \A m \in queued : Sent(m.key, m.order)
  /\ \A m, n \in queued :
       Holding(m, "inventory.queue") /\ Holding(n, "inventory.queue")
         /\ m.key = n.key /\ m.order = n.order => m = n

\* Each crash gives one more occasion to commit what was committed before.
Repeated(o) ==
  /\ held[o] <= 1 + crashes
  /\ Open("order.created", o) => held[o] <= crashes
  /\ -1 - crashes <= held[o]
  /\ Open("inventory.release", o) => -crashes <= held[o]

Counted == Single /\ \A o \in Orders : Repeated(o)

\* A transaction that ends closes the chance that its message was.
LEMMA EndCloses ==
  ASSUME RowsCurrent, Single, NEW t \in running,
         \/ \E s \in Stages : Begin(t.msg, s, 0)
         \/ Drop(t.msg)
  PROVE  /\ Single'
         /\ \A k \in Keys, o \in Orders : Open(k, o)' => Open(k, o)
         /\ Open(t.msg.key, t.msg.order) /\ ~ Open(t.msg.key, t.msg.order)'
<1>1. Waiting(t.msg, "inventory.queue") /\ t.msg \in queued
  BY DEF RowsCurrent, TransactionOK, Waiting, Holding
<1>2. queued' \subseteq queued /\ UNCHANGED published
  BY DEF Begin, Drop, Discard
<1>3. ASSUME NEW m, Waiting(m, "inventory.queue")'
      PROVE  Waiting(m, "inventory.queue") /\ m # t.msg
  <2>1. CASE Drop(t.msg)
    BY <1>3, <2>1 DEF Waiting, Holding, Drop, Discard
  <2>2. ASSUME NEW s \in Stages, Begin(t.msg, s, 0)
        PROVE  Waiting(m, "inventory.queue") /\ m # t.msg
    <3>1. PICK new : new.msg = t.msg /\ work' = work \cup {new} /\ queued' = queued
      BY <2>2 DEF Begin
    <3> QED
      BY <1>3, <3>1 DEF Waiting, Holding
  <2> QED
    BY <2>1, <2>2
<1>4. Single'
  BY <1>2 DEF Single, Holding, Sent
<1>5. \A k \in Keys, o \in Orders : Open(k, o)' => Open(k, o)
  BY <1>2, <1>3 DEF Open, Sent
<1>6. Open(t.msg.key, t.msg.order)
  BY <1>1 DEF Open
<1>7. ~ Open(t.msg.key, t.msg.order)'
  <2>1. Sent(t.msg.key, t.msg.order)'
    BY <1>1, <1>2 DEF Single, Sent
  <2>2. ASSUME NEW m \in queued', Waiting(m, "inventory.queue")',
               m.key = t.msg.key, m.order = t.msg.order
        PROVE  FALSE
    <3>1. m \in queued /\ Holding(m, "inventory.queue") /\ m # t.msg
      BY <1>2, <1>3, <2>2 DEF Waiting
    <3> QED
      BY <1>1, <2>2, <3>1 DEF Single, Waiting
  <2> QED
    BY <2>1, <2>2 DEF Open
<1> QED
  BY <1>4, <1>5, <1>6, <1>7

\* No event is sent to the consumer a second time, and none it gets is one
\* that an order already had.
LEMMA PublishOpens ==
  ASSUME RowsCurrent, Single, NEW k \in Keys, NEW o \in Orders, Publish(k, o),
         k \in Handled => ~ Sent(k, o),
         \A x \in work : \E y \in work' : y.msg = x.msg
  PROVE  /\ Single'
         /\ \A l \in Keys, r \in Orders : Open(l, r)' => Open(l, r)
<1>1. BusTypeOK
  BY DEF RowsCurrent
<1>2. /\ queued' = queued \cup Routed(k, o)
      /\ \A l \in Keys, r \in Orders : Sent(l, r)' <=> Sent(l, r) \/ (l = k /\ r = o)
  BY <1>1, PublishEffect DEF Publish
<1>3. \A m \in Routed(k, o) : m.key = k /\ m.order = o
  BY DEF Routed
<1>4. \A m, n \in Routed(k, o) : m.queue = n.queue => m = n
  BY DEF Routed
<1>5. \A m \in Routed(k, o) : m.queue = "inventory.queue" => k \in Handled
  BY DEF Routed, Bindings, Handled
<1>6. \A m \in queued : m.key \in Keys /\ m.order \in Orders /\ Sent(m.key, m.order)
  BY <1>1 DEF Single, BusTypeOK, Message
<1>7. Single'
  <2>1. \A m \in queued' : Sent(m.key, m.order)'
    BY <1>2, <1>3, <1>6
  <2>2. ASSUME NEW m \in queued', NEW n \in queued',
               m.queue = "inventory.queue", n.queue = "inventory.queue",
               m.key = n.key, m.order = n.order
        PROVE  m = n
    <3>1. CASE m \in queued /\ n \in queued
      BY <2>2, <3>1 DEF Single, Holding
    <3>2. CASE m \in Routed(k, o) /\ n \in Routed(k, o)
      BY <1>4, <2>2, <3>2
    <3>3. CASE m \in Routed(k, o) /\ n \in queued
      BY <1>3, <1>5, <1>6, <2>2, <3>3
    <3>4. CASE m \in queued /\ n \in Routed(k, o)
      BY <1>3, <1>5, <1>6, <2>2, <3>4
    <3> QED
      BY <1>2, <3>1, <3>2, <3>3, <3>4
  <2> QED
    BY <2>1, <2>2 DEF Single, Holding
<1>8. ASSUME NEW l \in Keys, NEW r \in Orders, Open(l, r)'
      PROVE  Open(l, r)
  <2> SUFFICES ASSUME Sent(l, r) PROVE Open(l, r)
    BY DEF Open
  <2>1. Sent(l, r)'
    BY <1>2
  <2>2. PICK m \in queued' : /\ Waiting(m, "inventory.queue")'
                             /\ m.key = l /\ m.order = r
    BY <1>8, <2>1 DEF Open
  <2>3. m \in queued
    BY <1>2, <1>3, <1>5, <2>2 DEF Waiting, Holding
  <2>4. Waiting(m, "inventory.queue")
    BY <2>2, <2>3 DEF Waiting, Holding
  <2> QED
    BY <2>2, <2>3, <2>4 DEF Open
<1> QED
  BY <1>7, <1>8

\* A step that takes and returns nothing, and opens no new chance to.
LEMMA RepeatedKept ==
  ASSUME Counted, UNCHANGED <<held, crashes>>, Single',
         \A k \in Keys, o \in Orders : Open(k, o)' => Open(k, o)
  PROVE  Counted'
BY DEF Counted, Repeated, Keys

\* A transaction that ends has one chance to be committed.
LEMMA EndRepeats ==
  ASSUME RowsCurrent, Counted, NEW t \in running,
         \/ RollBackShort(t) \/ Commit(t) \/ AbortVictim(t)
         \/ \E applied \in BOOLEAN : LoseConnection(t, applied)
  PROVE  Counted'
<1> Single
  BY DEF Counted
<1>1. (\E s \in Stages : Begin(t.msg, s, 0)) \/ Drop(t.msg)
  BY DEF RollBackShort, Commit, AbortVictim, LoseConnection, ReportError, Stages
<1>2. /\ Single'
      /\ \A k \in Keys, r \in Orders : Open(k, r)' => Open(k, r)
      /\ Open(t.msg.key, t.msg.order) /\ ~ Open(t.msg.key, t.msg.order)'
  BY <1>1, EndCloses
<1>3. UNCHANGED crashes /\ crashes \in Nat /\ held \in [Orders -> Int]
  BY DEF RollBackShort, Commit, AbortVictim, LoseConnection, faultVars,
         RowsCurrent, InventoryTypeOK
<1>4. UNCHANGED held \/ Record(t)
  BY DEF RollBackShort, Commit, AbortVictim, LoseConnection, inventoryVars
<1>5. t.msg.order \in Orders /\ t.msg.key \in Handled
  BY TransactionFacts DEF RowsCurrent, TransactionOK
<1>6. CASE UNCHANGED held
  BY <1>2, <1>3, <1>6, RepeatedKept
<1> SUFFICES ASSUME Record(t), NEW o \in Orders, Repeated(o) PROVE Repeated(o)'
  BY <1>2, <1>4, <1>6 DEF Counted
<1>7. CASE t.msg.order # o
  <2>1. held'[o] = held[o]
    BY <1>3, <1>7 DEF Record
  <2> QED
    BY <1>2, <1>3, <2>1 DEF Repeated, Keys
<1>8. CASE t.msg.order = o
  <2>1. CASE t.msg.key = "order.created"
    <3>1. held'[o] = held[o] + 1
      BY <1>3, <1>8, <2>1 DEF Record, Reserves
    <3>2. Open("order.created", o) /\ ~ Open("order.created", o)'
      BY <1>2, <1>8, <2>1
    <3>3. Open("inventory.release", o)' => Open("inventory.release", o)
      BY <1>2 DEF Keys
    <3> QED
      BY <1>2, <1>3, <3>1, <3>2, <3>3 DEF Repeated
  <2>2. CASE t.msg.key = "inventory.release"
    <3>1. held'[o] = held[o] - 1
      BY <1>3, <1>8, <2>2 DEF Record, Reserves
    <3>2. Open("inventory.release", o) /\ ~ Open("inventory.release", o)'
      BY <1>2, <1>8, <2>2
    <3>3. Open("order.created", o)' => Open("order.created", o)
      BY <1>2 DEF Keys
    <3> QED
      BY <1>2, <1>3, <3>1, <3>2, <3>3 DEF Repeated
  <2> QED
    BY <1>5, <2>1, <2>2 DEF Handled
<1> QED
  BY <1>7, <1>8

\* Answering, acknowledging and asking; and a crash, which is counted.
LEMMA OutsideRepeats ==
  ASSUME RowsCurrent, Counted,
         \/ \E t \in TasksOf("inventory.queue") : Finish(t)
         \/ Crash
         \/ \E r \in Orders : Request(r) /\ UNCHANGED <<running, faultVars>>
  PROVE  Counted'
<1> Single
  BY DEF Counted
<1>1. BusTypeOK /\ crashes \in Nat /\ held \in [Orders -> Int]
  BY DEF RowsCurrent, InventoryTypeOK
<1>2. ASSUME NEW t \in TasksOf("inventory.queue"), Finish(t)
      PROVE  Counted'
  <2>1. t \in work /\ t.msg.order \in Orders /\ UNCHANGED <<held, crashes>>
    BY <1>1, <1>2 DEF TasksOf, BusTypeOK, Task, Message, Finish, PublishOutcome,
       AckInventoryEvent, inventoryVars, faultVars
  <2>2. CASE PublishOutcome(t)
    <3>1. PICK k \in Keys : Publish(k, t.msg.order) /\ k \notin Handled
      BY <2>2 DEF PublishOutcome, Outcome, Keys, Handled
    <3>2. \A x \in work : \E y \in work' : y.msg = x.msg
      <4>1. PICK new : new.msg = t.msg /\ work' = (work \ {t}) \cup {new}
        BY <2>2 DEF PublishOutcome, Advance
      <4> QED
        BY <4>1
    <3> QED
      BY <2>1, <3>1, <3>2, PublishOpens, RepeatedKept
  <2>3. CASE AckInventoryEvent(t)
    <3>1. queued' = queued \ {t.msg} /\ work' = work \ {t} /\ UNCHANGED published
      BY <2>3 DEF AckInventoryEvent, Ack, Discard
    <3>2. \A m : Waiting(m, "inventory.queue")' => Waiting(m, "inventory.queue")
      BY <3>1 DEF Waiting, Holding
    <3>3. Single'
      BY <3>1 DEF Single, Holding, Sent
    <3>4. \A k \in Keys, o \in Orders : Open(k, o)' => Open(k, o)
      BY <3>1, <3>2 DEF Open, Sent
    <3> QED
      BY <2>1, <3>3, <3>4, RepeatedKept
  <2> QED
    BY <1>2, <2>2, <2>3 DEF Finish
<1>3. CASE Crash
  <2>1. crashes' = crashes + 1 /\ UNCHANGED <<queued, published, held>>
    BY <1>3 DEF Crash, InventoryCrash, LoseTasks, inventoryVars
  <2>2. Single'
    BY <2>1 DEF Single, Holding, Sent
  <2> QED
    BY <1>1, <2>1, <2>2 DEF Counted, Repeated
<1>4. ASSUME NEW r \in Orders, Request(r), UNCHANGED <<running, faultVars>>
      PROVE  Counted'
  <2>1. PICK k \in Keys : Publish(k, r) /\ ~ Sent(k, r)
    BY <1>4 DEF Request, Keys
  <2>2. UNCHANGED <<work, held, crashes>>
    BY <1>4 DEF Request, inventoryVars, faultVars
  <2> QED
    BY <2>1, <2>2, PublishOpens, RepeatedKept
<1> QED
  BY <1>2, <1>3, <1>4

\* An order's items are taken once, and returned once if that is asked for,
\* unless a crash comes between a commit and its acknowledgement.
THEOREM RepeatedByCrashOnlyHolds == Spec => []RepeatedByCrashOnly
<1>1. Init => Counted
  BY DEF Init, BusInit, InventoryInit, Counted, Single, Repeated
<1>2. RowsCurrent /\ Counted /\ [Next]_vars => Counted'
  <2> SUFFICES ASSUME RowsCurrent, Counted, [Next]_vars PROVE Counted'
    OBVIOUS
  <2>1. ASSUME UNCHANGED <<serviceVars, faultVars>> PROVE Counted'
    BY <2>1 DEF serviceVars, inventoryVars, busVars, faultVars, Counted, Single, Holding,
       Waiting, Sent, Repeated, Open
  <2>2. CASE Transact
    BY <2>1, <2>2, EndRepeats DEF Transact, Start, SaveRow
  <2>3. CASE \E t \in TasksOf("inventory.queue") : Finish(t)
    BY <2>3, OutsideRepeats
  <2>4. CASE Fault
    BY <2>4, EndRepeats, OutsideRepeats DEF Fault
  <2>5. CASE \E r \in Orders : Request(r) /\ UNCHANGED <<running, faultVars>>
    BY <2>5, OutsideRepeats
  <2>6. CASE UNCHANGED vars
    BY <2>1, <2>6 DEF vars
  <2> QED
    BY <2>2, <2>3, <2>4, <2>5, <2>6 DEF Next, Handle
<1>3. RowsCurrent /\ Counted => RepeatedByCrashOnly
  <2> SUFFICES ASSUME RowsCurrent, Counted, NEW o \in Orders
               PROVE  held[o] \in (-1 - crashes)..(1 + crashes)
    BY DEF RepeatedByCrashOnly
  <2>1. held[o] \in Int /\ crashes \in Int
    BY DEF RowsCurrent, InventoryTypeOK
  <2>2. held[o] <= 1 + crashes /\ -1 - crashes <= held[o]
    BY DEF Counted, Repeated
  <2> QED
    BY <2>1, <2>2
<1> QED
  BY <1>1, <1>2, <1>3, RowsCurrentHolds, PTL DEF Spec
=============================================================================
