-------------------------------- MODULE Saga --------------------------------
(***************************************************************************)
(* The three services around the broker: what becomes of an order from     *)
(* POST /orders to the last acknowledgement, with administrators, top-ups, *)
(* process crashes and database failures.                                  *)
(***************************************************************************)
EXTENDS OrderService, InventoryService, WalletService

CONSTANTS
  MaxCrashes,  \* bound on process crashes in a behaviour
  MaxErrors,   \* bound on database failures in a behaviour
  MaxTopUps,   \* bound on top-ups in a behaviour
  Flaky        \* the services whose database may fail in this instance

VARIABLES crashes, errors, topUps

faultVars == <<crashes, errors, topUps>>
vars == <<orderVars, inventoryVars, walletVars, busVars, faultVars>>

Services == {"order", "inventory", "user"}

ASSUME SagaAssumption ==
  /\ MaxCrashes \in Nat /\ MaxErrors \in Nat /\ MaxTopUps \in Nat
  /\ Flaky \subseteq Services

\* Types: among others, no message is retried more than three times, and
\* every handler is at an await of the code.
TypeOK ==
  /\ BusTypeOK /\ OrderTypeOK /\ InventoryTypeOK /\ WalletTypeOK
  /\ crashes \in Nat /\ errors \in Nat /\ topUps \in Nat

Init ==
  /\ BusInit /\ OrderInit /\ InventoryInit /\ WalletInit
  /\ crashes = 0 /\ errors = 0 /\ topUps = 0

-----------------------------------------------------------------------------
PlaceOrder ==
  /\ \E o \in Orders :
       \/ \E p \in Products : CheckProduct(o, p, stock[p]) \/ RefuseOrder(o, p, stock[p])
       \/ StoreOrder(o)
  /\ UNCHANGED <<inventoryVars, walletVars, faultVars>>

Order == OrderStep /\ UNCHANGED <<inventoryVars, walletVars, faultVars>>

Inventory == InventoryStep /\ UNCHANGED <<orderVars, walletVars, faultVars>>

Wallet == WalletStep /\ UNCHANGED <<orderVars, inventoryVars, faultVars>>

Broker ==
  /\ \E m \in queued : RetryExpires(m)
  /\ UNCHANGED <<orderVars, inventoryVars, faultVars>>

Administrator ==
  /\ \E o \in Orders, s \in AdminStatuses : AdminUpdate(o, s)
  /\ UNCHANGED <<inventoryVars, walletVars, faultVars>>

Customer ==
  /\ topUps < MaxTopUps
  /\ topUps' = topUps + 1
  /\ \E u \in Wallets, amount \in TopUpAmounts : TopUp(u, amount)
  /\ UNCHANGED <<orderVars, inventoryVars, crashes, errors>>

\* A crash that interrupts nothing changes nothing, and is not counted.
Crash ==
  /\ crashes < MaxCrashes
  /\ crashes' = crashes + 1
  /\ \/ OrderCrash /\ UNCHANGED <<inventoryVars, walletVars>>
     \/ InventoryCrash /\ UNCHANGED <<orderVars, walletVars>>
     \/ WalletCrash /\ UNCHANGED <<orderVars, inventoryVars>>
  /\ <<request, work>>' # <<request, work>>
  /\ UNCHANGED <<errors, topUps>>

DatabaseError ==
  /\ errors < MaxErrors
  /\ errors' = errors + 1
  /\ \/ "order" \in Flaky /\ OrderFault /\ UNCHANGED <<inventoryVars, walletVars>>
     \/ "inventory" \in Flaky /\ InventoryFault /\ UNCHANGED <<orderVars, walletVars>>
     \/ "user" \in Flaky /\ WalletFault /\ UNCHANGED <<orderVars, inventoryVars>>
  /\ UNCHANGED <<crashes, topUps>>

Next == \/ PlaceOrder \/ Order \/ Inventory \/ Wallet \/ Broker
        \/ Administrator \/ Customer \/ Crash \/ DatabaseError

Spec == Init /\ [][Next]_vars

\* A service that is up goes on working through its queue.  Nothing obliges
\* a customer or an administrator to act, and no failure has to happen.
Fairness ==
  WF_vars(Order) /\ WF_vars(Inventory) /\ WF_vars(Wallet) /\ WF_vars(Broker)

FairSpec == Spec /\ Fairness

=============================================================================
