----------------------------- MODULE SagaClaims -----------------------------
(***************************************************************************)
(* What the repository's documents say of the saga and its code does not   *)
(* do.  TLC refutes each of them.                                          *)
(***************************************************************************)
EXTENDS SagaProperties, FiniteSetsExt

\* EVENTS.md, line 10: payment.success confirms the pending order.  The
\* handler sets CONFIRMED whatever the order's status is.
ConfirmsPendingOnly ==
  [][\A o \in Orders :
       status[o] = "CANCELLED" => status'[o] # "CONFIRMED"]_vars

\* EVENTS.md, line 12: inventory.release restores reserved stock.  The order
\* service asks for a release after any failed payment.
ReleasesReservedOnly == \A o \in Orders : held[o] >= 0

\* EVENTS.md, line 13: payment.refund refunds a completed wallet debit, so no
\* wallet holds more than was put in.  A crash between the copy of the event
\* to the retry queue and its ack leaves two; both handlers find the payment
\* before either update, whose $inc does not look for it again.
RefundsWithinDebits == \A u \in Wallets :
  balance[u] <= OpeningBalance[u] + deposited[u]

\* WalletPage.tsx, line 66, and README.md, line 24: payments, refunds and
\* top-ups update the balance.  A debit overwrites a top-up it overlaps.
BalanceIsLedger == \A u \in Wallets :
  LET Debited(o) == IF Buyer[o] = u THEN charged[o] * Total[o] ELSE 0
  IN  balance[u] = OpeningBalance[u] + deposited[u]
                     - MapThenSumSet(Debited, Orders)
=============================================================================
