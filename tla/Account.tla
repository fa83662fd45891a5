------------------------------- MODULE Account -------------------------------
(***************************************************************************)
(* What a wallet promises its owner, as one ledger with atomic entries: an *)
(* order is paid for at most once and in full, a refund gives back what    *)
(* was paid, a deposit is kept, and nothing else moves the balance.        *)
(***************************************************************************)
EXTENDS Integers

CONSTANTS Orders, Users, Buyer, Total, OpeningBalance, TopUpAmounts

VARIABLES balance, deposited, payment

vars == <<balance, deposited, payment>>

Init ==
  /\ balance = OpeningBalance
  /\ deposited = [u \in DOMAIN OpeningBalance |-> 0]
  /\ payment = [o \in Orders |-> "unpaid"]

Pay(o) ==
  /\ payment[o] = "unpaid"
  /\ balance[Buyer[o]] >= Total[o]
  /\ payment' = [payment EXCEPT ![o] = "paid"]
  /\ balance' = [balance EXCEPT ![Buyer[o]] = @ - Total[o]]
  /\ UNCHANGED deposited

GiveBack(o) ==
  /\ payment[o] = "paid"
  /\ payment' = [payment EXCEPT ![o] = "refunded"]
  /\ balance' = [balance EXCEPT ![Buyer[o]] = @ + Total[o]]
  /\ UNCHANGED deposited

Deposit(u, amount) ==
  /\ balance' = [balance EXCEPT ![u] = @ + amount]
  /\ deposited' = [deposited EXCEPT ![u] = @ + amount]
  /\ UNCHANGED payment

Next ==
  \/ \E o \in Orders : Pay(o) \/ GiveBack(o)
  \/ \E u \in DOMAIN OpeningBalance, amount \in TopUpAmounts : Deposit(u, amount)

Spec == Init /\ [][Next]_vars
=============================================================================
