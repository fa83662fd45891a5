---------------------------- MODULE WalletService ----------------------------
(***************************************************************************)
(* The user service's part in an order: the consumer of user.queue with    *)
(* its retry and dead-letter queues, the wallet documents it changes, and  *)
(* the top-up endpoint.  Money is in cents.                                *)
(*                                                                         *)
(* pay reads the wallet document, decides, and saves it with the balance   *)
(* it computed from what it had read; a refund and a top-up are single     *)
(* updates with $inc.                                                      *)
(***************************************************************************)
EXTENDS EventBus

CONSTANTS
  Users,
  Buyer,           \* the user who placed each order
  Total,           \* what each order costs
  OpeningBalance,  \* the users who have a wallet, and its balance
  TopUpAmounts

VARIABLES
  balance,   \* of each wallet
  charged,   \* number of SUCCESS transactions for each order
  refunded,  \* number of REFUNDED transactions for each order
  deposited  \* history: what each user has topped up

walletVars == <<balance, charged, refunded, deposited>>

Wallets == DOMAIN OpeningBalance

ASSUME WalletAssumption ==
  /\ Buyer \in [Orders -> Users]
  /\ Total \in [Orders -> Nat]
  /\ Wallets \subseteq Users
  /\ OpeningBalance \in [Wallets -> Nat]
  /\ TopUpAmounts \subseteq Nat

WalletTypeOK ==
  /\ balance \in [Wallets -> Int]
  /\ charged \in [Orders -> Nat]
  /\ refunded \in [Orders -> Nat]
  /\ deposited \in [Wallets -> Nat]

WalletInit ==
  /\ balance = OpeningBalance
  /\ charged = [o \in Orders |-> 0]
  /\ refunded = [o \in Orders |-> 0]
  /\ deposited = [u \in Wallets |-> 0]

-----------------------------------------------------------------------------
(* pay: findOne, then save.                                                *)

\* Mutant: pay does not look at the balance.
Payable_NoBalance(o) == Buyer[o] \in Wallets /\ charged[o] + refunded[o] = 0

\* Mutant: pay does not look for a transaction of the order.
Payable_Unchecked(o) == Buyer[o] \in Wallets /\ balance[Buyer[o]] >= Total[o]

\* A transaction of the order, refunded or not, makes it "Already paid".
Payable(o) ==
  /\ Buyer[o] \in Wallets
  /\ balance[Buyer[o]] >= Total[o]
  /\ charged[o] + refunded[o] = 0

\* Mutant: pay returns without saving the wallet.
ReadWallet_Unsaved(m) ==
  /\ Waiting(m, "user.queue")
  /\ m.key = "order.created"
  /\ Payable(m.order)
  /\ Begin(m, "paid", balance[Buyer[m.order]])
  /\ UNCHANGED walletVars

ReadWallet(m) ==
  /\ Waiting(m, "user.queue")
  /\ m.key = "order.created"
  /\ Payable(m.order)
  /\ Begin(m, "paying", balance[Buyer[m.order]])
  /\ UNCHANGED walletVars

\* Mutant: an order already paid gets no verdict.
DeclinePayment_Silent(m) ==
  /\ Waiting(m, "user.queue")
  /\ m.key = "order.created"
  /\ ~ Payable(m.order)
  /\ Begin(m, IF charged[m.order] > 0 THEN "done" ELSE "declined", 0)
  /\ UNCHANGED walletVars

DeclinePayment(m) ==
  /\ Waiting(m, "user.queue")
  /\ m.key = "order.created"
  /\ ~ Payable(m.order)
  /\ Begin(m, "declined", 0)
  /\ UNCHANGED walletVars

\* The save sets the balance and pushes the transaction; its filter is the
\* document's _id alone, so it overwrites what happened since the read.
Debit(t) ==
  LET o == t.msg.order
  IN  /\ balance' = [balance EXCEPT ![Buyer[o]] = t.seen - Total[o]]
      /\ charged' = [charged EXCEPT ![o] = @ + 1]
      /\ UNCHANGED <<refunded, deposited>>

SaveWallet(t) ==
  /\ t.at = "paying"
  /\ Debit(t)
  /\ Advance(t, "paid")
  /\ UNCHANGED <<queued, published>>

Verdict == [stage \in {"paid", "declined"} |->
              IF stage = "paid" THEN "payment.success" ELSE "payment.failed"]

PublishVerdict(t) ==
  /\ t.at \in DOMAIN Verdict
  /\ Publish(Verdict[t.at], t.msg.order)
  /\ Advance(t, "done")
  /\ UNCHANGED walletVars

-----------------------------------------------------------------------------
(* handleInventoryFail, the refund: findOne, then findOneAndUpdate.        *)

FindPayment(m) ==
  /\ Waiting(m, "user.queue")
  /\ m.key = "payment.refund"
  /\ Begin(m, IF charged[m.order] > 0 THEN "refunding" ELSE "failing", 0)
  /\ UNCHANGED walletVars

\* parseInt drops the cents.
Refundable(o) == (Total[o] \div 100) * 100

\* $inc does not depend on the array filters, which pick the SUCCESS entries.
Refund(t) ==
  LET o == t.msg.order
  IN  /\ balance' = [balance EXCEPT ![Buyer[o]] = @ + Refundable(o)]
      /\ refunded' = [refunded EXCEPT ![o] = @ + charged[o]]
      /\ charged' = [charged EXCEPT ![o] = 0]
      /\ UNCHANGED deposited

RefundWallet(t) ==
  /\ t.at = "refunding"
  /\ Refund(t)
  /\ Advance(t, "done")
  /\ UNCHANGED <<queued, published>>

-----------------------------------------------------------------------------
(* The consumer's catch block: retry, then the dead-letter queue.          *)

Again(t) == [t.msg EXCEPT !.queue = "user.retry", !.tries = @ + 1]

\* Mutant: a message out of retries is dropped.
Reschedule_Lost(t) ==
  /\ t.at = "failing"
  /\ IF t.msg.tries >= MaxTries THEN UNCHANGED <<queued, published>>
                                ELSE Forward(Again(t))
  /\ Advance(t, "done")
  /\ UNCHANGED walletVars

\* Mutant: two retries instead of three.
Reschedule_OffByOne(t) ==
  /\ t.at = "failing"
  /\ Forward(IF t.msg.tries + 1 >= MaxTries
               THEN [t.msg EXCEPT !.queue = "user.dlq"] ELSE Again(t))
  /\ Advance(t, "done")
  /\ UNCHANGED walletVars

\* Mutant: retries without end.
Reschedule_Unbounded(t) ==
  /\ t.at = "failing"
  /\ Forward(Again(t))
  /\ Advance(t, "done")
  /\ UNCHANGED walletVars

Reschedule(t) ==
  /\ t.at = "failing"
  /\ Forward(IF t.msg.tries >= MaxTries
               THEN [t.msg EXCEPT !.queue = "user.dlq"] ELSE Again(t))
  /\ Advance(t, "done")
  /\ UNCHANGED walletVars

\* Mutant: the retry queue dead-letters to itself.
RetryExpires_WrongQueue(m) ==
  Holding(m, "user.retry") /\ UNCHANGED <<busVars, walletVars>>

\* The message outlives its TTL and is dead-lettered back to user.queue.
RetryExpires(m) ==
  /\ Holding(m, "user.retry")
  /\ queued' = (queued \ {m}) \cup {[m EXCEPT !.queue = "user.queue"]}
  /\ UNCHANGED <<work, published, walletVars>>

\* Mutant: the message is requeued instead of acknowledged.
AckUserEvent_Requeue(t) ==
  /\ t.at = "done"
  /\ work' = work \ {t}
  /\ UNCHANGED <<queued, published, walletVars>>

AckUserEvent(t) == Ack(t) /\ UNCHANGED walletVars

\* MongoDB fails on a read, or on a write that may have been applied.
WalletReadFails(m) ==
  /\ Waiting(m, "user.queue")
  /\ Begin(m, "failing", 0)
  /\ UNCHANGED walletVars

WalletWriteFails(t, applied) ==
  /\ t.at \in {"paying", "refunding"}
  /\ Advance(t, "failing")
  /\ IF ~ applied THEN UNCHANGED walletVars
     ELSE IF t.at = "paying" THEN Debit(t) ELSE Refund(t)
  /\ UNCHANGED <<queued, published>>

WalletCrash == LoseTasks("user.queue") /\ UNCHANGED walletVars

-----------------------------------------------------------------------------
\* POST /wallet/top-up, one atomic update.
TopUp(u, amount) ==
  /\ balance' = [balance EXCEPT ![u] = @ + amount]
  /\ deposited' = [deposited EXCEPT ![u] = @ + amount]
  /\ UNCHANGED <<charged, refunded, busVars>>

WalletStep ==
  \/ \E m \in queued :
       ReadWallet(m) \/ DeclinePayment(m) \/ FindPayment(m)
  \/ \E t \in TasksOf("user.queue") :
       \/ SaveWallet(t) \/ PublishVerdict(t) \/ RefundWallet(t)
       \/ Reschedule(t) \/ AckUserEvent(t)

WalletFault ==
  \/ \E m \in queued : WalletReadFails(m)
  \/ \E t \in TasksOf("user.queue"), applied \in BOOLEAN : WalletWriteFails(t, applied)
=============================================================================
