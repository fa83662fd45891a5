--------------------------- MODULE SagaInvariants ---------------------------
(***************************************************************************)
(* Why the saga's promises hold: where the messages of an order are, and   *)
(* how far their handlers have got.                                        *)
(***************************************************************************)
EXTENDS SagaProperties

UserQueues == {"user.queue", "user.retry", "user.dlq"}

\* The queue of the consumer a message is for.
Home(m) == IF m.queue \in UserQueues THEN "user.queue" ELSE m.queue

\* The messages of an order for the binding b, retries and dead letters too.
About(b, o) == {m \in queued : <<Home(m), m.key>> = b /\ m.order = o}

\* Nobody has begun to handle m; nobody has come to its acknowledgement.
Untaken(m) == \A t \in work : t.msg # m
Pending(m) == \A t \in work : t.msg = m => t.at # "done"

ForPayment     == <<"user.queue", "order.created">>
ForReservation == <<"inventory.queue", "order.created">>
ForRelease     == <<"inventory.queue", "inventory.release">>
ForRefund      == <<"user.queue", "payment.refund">>

\* The awaits of each handler.
Awaits(m) ==
  CASE m.queue = "order.queue"      -> {"cancelled", "done"}
    [] m.queue = "inventory.queue"  ->
         IF m.key = "order.created" THEN {"reserved", "rejected", "done"}
                                    ELSE {"released", "done"}
    [] OTHER                        ->
         IF m.key = "order.created" THEN {"paying", "paid", "declined", "failing", "done"}
                                    ELSE {"refunding", "failing", "done"}

\* What the handlers of a binding publish.
Answers(b) ==
  CASE b = ForPayment     -> {"payment.success", "payment.failed"}
    [] b = ForReservation -> {"inventory.reserved", "inventory.failed"}
    [] b = ForRelease     -> {"inventory.released"}
    [] b = <<"order.queue", "inventory.failed">> -> {"payment.refund"}
    [] b = <<"order.queue", "payment.failed">>   -> {"inventory.release"}
    [] OTHER -> {}

Answered(b, o) == \E k \in Answers(b) : Sent(k, o)

-----------------------------------------------------------------------------
(* Whatever fails.                                                         *)

\* A message lies where it was routed, under a number of its own.
Filed ==
  /\ \A m \in queued : /\ <<Home(m), m.key>> \in Bindings
                       /\ m.tag < published[m.key][m.order]
  /\ \A m, n \in queued :
       Home(m) = Home(n) /\ m.key = n.key /\ m.order = n.order /\ m.tag = n.tag
         => m = n

\* At most one handler is at work on a message, at one of its awaits.
Attended ==
  /\ \A t \in work : t.msg.queue = Home(t.msg) /\ t.at \in Awaits(t.msg)
  /\ \A t, u \in work : t.msg = u.msg => t = u

\* However messages are redelivered, forwarded and dead-lettered, each has at
\* most one handler at work on it, and as long as one is, the broker keeps it.
Deliveries ==
  /\ Filed /\ Attended
  /\ \A t \in work : t.msg \in queued

-----------------------------------------------------------------------------
(* While either no process dies or MongoDB does not fail.                  *)

\* The user service's database does not fail.
PaymentsServed == MaxErrors = 0 \/ "user" \notin Flaky

\* No two handlers of these messages run at a time, and none is to come that
\* would do again what one has done.
OneAtATime(b, o) ==
  \A m, n \in About(b, o) : Pending(m) /\ Pending(n) => m = n

\* An order.created is not sent to the retry queue unless MongoDB fails.
CreatedOnce ==
  /\ \A o \in Orders : published["order.created"][o] <= 1
  /\ \A t \in work : t.at = "failing" => t.msg.key = "payment.refund"

\* The chance to debit an order is gone once it is debited, and what is to be
\* refunded was debited.
EntryOK(t) ==
  /\ t.at = "paying" => Charges(t.msg.order) = 0
  /\ t.at = "refunding" => Charges(t.msg.order) > 0

\* A refund that was asked for is made or on its way.
EntriesOK ==
  /\ \A o \in Orders :
       /\ Charges(o) <= 1
       /\ Sent("payment.refund", o) =>
            refunded[o] > 0 \/ \E m \in About(ForRefund, o) : Pending(m)
  /\ \A t \in work : EntryOK(t)

\* No two debits of an order are ever under way, so that what pay found out
\* about the order's transactions is still true when it saves.
PaymentsOK ==
  /\ PaymentsServed => CreatedOnce
  /\ \A o \in Orders : OneAtATime(ForPayment, o)
  /\ EntriesOK

-----------------------------------------------------------------------------
(* While no process dies.                                                  *)

\* A handler runs once for an order, whatever retries there are: where an
\* answer was sent none will follow.
AnsweredOnce ==
  \A o \in Orders, b \in Bindings :
    /\ OneAtATime(b, o)
    /\ Answered(b, o) => Sent(b[2], o) /\ \A m \in About(b, o) : ~ Pending(m)
    /\ \A k, l \in Answers(b) : Sent(k, o) /\ Sent(l, o) => k = l

-----------------------------------------------------------------------------
(* While no process dies and administrators do no more than cancel.        *)

Compensated(o) ==
  \/ Sent("payment.refund", o) \/ Sent("inventory.release", o)
  \/ \E t \in work : t.at = "cancelled" /\ t.msg.order = o

\* An order that is compensated stays cancelled, unless it was paid.
StaysCancelled(o) ==
  Compensated(o) /\ ~ Sent("payment.success", o) => status[o] = "CANCELLED"

\* One compensation is sent, by one handler.
CompensatedOnce(o) ==
  /\ ~ (Sent("payment.refund", o) /\ Sent("inventory.release", o))
  /\ \A t, u \in work :
       t.at = "cancelled" /\ u.at = "cancelled" /\ t.msg.order = o /\ u.msg.order = o
         => t = u
  /\ \A t \in work : t.at = "cancelled" /\ t.msg.order = o =>
       ~ Sent("payment.refund", o) /\ ~ Sent("inventory.release", o)

\* An order that two services refuse is cancelled, and compensated, once.
CompensationsOK == \A o \in Orders : StaysCancelled(o) /\ CompensatedOnce(o)

-----------------------------------------------------------------------------
(* While no process dies, the order service's database answers and no      *)
(* administrator interferes.                                               *)

\* A failure cancels the order, and a cancelled order is compensated.
FailureHeeded(o) ==
  /\ status[o] = "CANCELLED" => Compensated(o)
  /\ \A k \in FailureEvents : Sent(k, o) =>
       Compensated(o) \/ \E m \in About(<<"order.queue", k>>, o) : Untaken(m)

\* No failure finds its order without a row.
RowStored(o) == request[o] \in {"stored", "announced"} => status[o] # "none"

\* Every failure is on its way to the order service, or was compensated.
FailuresHeeded == \A o \in Orders : RowStored(o) /\ FailureHeeded(o)

-----------------------------------------------------------------------------
(* While nothing fails and no administrator interferes.                    *)

\* What was asked for is answered, or will be.
NotLost(b, o) ==
  Sent(b[2], o) => Answered(b, o) \/ \E m \in About(b, o) : Pending(m)

\* A payment that is declined, or not yet looked at, was not made.
Unpaid(o) ==
  \/ Sent("payment.failed", o)
  \/ \E m \in About(ForPayment, o) : Untaken(m)
  \/ \E t \in work : t.at = "declined" /\ t.msg.order = o

AtStage(stage, o) == \E t \in work : t.at = stage /\ t.msg.order = o

\* What is held is what was reserved and not released.
HeldExactly(o) ==
  held[o] = (IF Sent("inventory.reserved", o) \/ AtStage("reserved", o) THEN 1 ELSE 0)
          - (IF Sent("inventory.released", o) \/ AtStage("released", o) THEN 1 ELSE 0)

\* At every step the status of an order, what is reserved and charged for it
\* and the messages about it agree with each other.
Settling ==
  /\ CompensationsOK /\ FailuresHeeded
  /\ \A m \in queued : m.key = "order.created" => m.queue = Home(m)
  /\ \A o \in Orders :
       /\ request[o] = "announced" => Sent("order.created", o)
       /\ \A b \in {ForPayment, ForReservation, ForRelease} : NotLost(b, o)
       /\ Unpaid(o) => Charges(o) = 0
       /\ HeldExactly(o)
=============================================================================
