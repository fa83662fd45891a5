--------------------------- MODULE SagaProperties ---------------------------
(***************************************************************************)
(* What the saga promises.  Some promises hold whatever fails, some only   *)
(* while nothing does; the runs say which.                                 *)
(***************************************************************************)
EXTENDS Saga

\* Everything published has been dealt with, except for dead letters.
Quiet ==
  /\ \A m \in queued : m.queue = "user.dlq"
  /\ \A o \in Orders : request[o] # "stored"

\* A refund that ran out of retries, waiting for an operator.
DeadRefund(o) ==
  \E m \in queued :
    m.queue = "user.dlq" /\ m.key = "payment.refund" /\ m.order = o

Charges(o) == charged[o] + refunded[o]

-----------------------------------------------------------------------------
(* Whatever fails.                                                         *)

\* Reservations never take more than there is, although the stock an order
\* was checked against (createOrder) may be gone when it is reserved.
StockNonNegative == \A p \in Products : stock[p] >= 0

\* No debit overdraws a wallet, although pay computes the new balance from a
\* document that may be stale when it is saved.
BalanceNonNegative == \A u \in Wallets : balance[u] >= 0

\* Nothing is undone that was not reported as failed: money is given back
\* only after a failed reservation, stock only after a failed payment, and a
\* success is reported only for an order that was debited.
Causality == \A o \in Orders :
  /\ refunded[o] > 0 => Sent("payment.refund", o)
  /\ Sent("payment.refund", o) => Sent("inventory.failed", o)
  /\ held[o] < 0 => Sent("inventory.release", o)
  /\ Sent("inventory.release", o) => Sent("payment.failed", o)
  /\ Sent("payment.success", o) => Charges(o) > 0

\* Administrators apart, an order is confirmed only once it was debited, and
\* cancelled only once a service reported a failure.
StatusExplained == \A o \in Orders :
  /\ status[o] = "CONFIRMED" => Charges(o) > 0
  /\ status[o] = "CANCELLED" =>
       Sent("inventory.failed", o) \/ Sent("payment.failed", o)

\* Redelivery and retries do not debit an order twice, refunds included.
ChargedOnce == \A o \in Orders : Charges(o) <= 1

\* No service acts for an order that was not announced: it may have been
\* refused, or stored by a request that died before the announcement.
AnnouncedFirst == \A o \in Orders :
  request[o] # "announced" =>
    held[o] = 0 /\ Charges(o) = 0 /\ \A k \in Keys : ~ Sent(k, o)

\* A refund the order service asked for is either made or a dead letter,
\* also when it overtook the payment it refunds.
RefundNotForgotten ==
  Quiet => \A o \in Orders :
             Sent("payment.refund", o) /\ charged[o] > 0 => DeadRefund(o)

-----------------------------------------------------------------------------
(* Why.                                                                    *)

\* Every message was published, and a handler is at an await of the code for
\* its message, with what it found out before still true enough: a balance
\* that covers the order, a debit that is on the books.
TaskOK(t) ==
  /\ Sent(t.msg.key, t.msg.order)
  /\ t.at = "cancelled" => t.msg.key \in FailureEvents
  /\ t.at = "refunding" => t.msg.key = "payment.refund"
  /\ t.at = "paying" => /\ Buyer[t.msg.order] \in Wallets
                        /\ t.seen >= Total[t.msg.order]
  /\ t.at = "paid" => Charges(t.msg.order) > 0

HandlersOK ==
  /\ \A m \in queued : Sent(m.key, m.order)
  /\ \A t \in work : TaskOK(t)

StatusOK == AdminStatuses = {} => StatusExplained

\* The inductive invariant, but for the counters of failures.
ServicesOK ==
  /\ BusTypeOK /\ OrderTypeOK /\ InventoryTypeOK /\ WalletTypeOK
  /\ HandlersOK /\ Causality /\ StatusOK
  /\ StockNonNegative /\ BalanceNonNegative

\* What no crash, failure, redelivery or interleaving breaks, with what makes
\* it inductive: the state of every handler agrees with what is stored.
SafetyInv == TypeOK /\ ServicesOK

-----------------------------------------------------------------------------
(* While nothing fails.                                                    *)

\* Neither service takes back what it said of an order: its payment is not
\* reported both made and failed, nor its stock both reserved and refused.
OneVerdict == \A o \in Orders :
  /\ ~ (Sent("payment.success", o) /\ Sent("payment.failed", o))
  /\ ~ (Sent("inventory.reserved", o) /\ Sent("inventory.failed", o))

\* When both services refuse an order, only the first refusal is compensated.
OneCompensation == \A o \in Orders :
  ~ (Sent("payment.refund", o) /\ Sent("inventory.release", o))

\* In the end an order that a service refused has had its compensation asked
\* for, also when it was confirmed in the meantime.
RefusedIsCompensated ==
  Quiet => \A o \in Orders :
    Sent("inventory.failed", o) \/ Sent("payment.failed", o) =>
      Sent("payment.refund", o) \/ Sent("inventory.release", o)

\* In the end nobody pays for an order whose stock is not set aside, unless
\* the refund is a dead letter.
ChargedForGoods ==
  Quiet => \A o \in Orders : charged[o] > 0 => held[o] > 0 \/ DeadRefund(o)

\* In the end no stock is set aside for an order that is not paid for.
HeldForMoney ==
  Quiet => \A o \in Orders : held[o] > 0 => charged[o] > 0

-----------------------------------------------------------------------------
(* In time.                                                                *)

\* An order that was announced is decided, and stays decided, as long as its
\* order.created has not failed a fourth time and its database answers.
LeavesPending == \A o \in Orders :
  request[o] = "announced" ~> [](status[o] # "PENDING")

\* Every message is eventually acknowledged, given up or a dead letter: no
\* message goes round the retry queue for ever.
Drains == <>[]Quiet

-----------------------------------------------------------------------------
(* The wallets implement atomic accounts.                                  *)

Payment == [o \in Orders |-> IF charged[o] > 0 THEN "paid"
                             ELSE IF refunded[o] > 0 THEN "refunded"
                             ELSE "unpaid"]

Ledger == INSTANCE Account WITH payment <- Payment

\* As long as no two updates of a wallet overlap and totals have no cents,
\* the handlers' reads and writes amount to atomic entries of a ledger.
LedgerSpec == Ledger!Spec

=============================================================================
