------------------------------ MODULE EventBus ------------------------------
(***************************************************************************)
(* The RabbitMQ broker as the three services set it up, and the            *)
(* acknowledgement discipline their consumers share.                       *)
(*                                                                         *)
(* The broker keeps a message until it is acknowledged or rejected, so     *)
(* `queued' holds the messages being handled as well as the waiting ones.  *)
(* A handler runs from one await to the next; how far it has got is a task *)
(* in `work', which lives in the memory of the consumer and dies with it.  *)
(* No consumer sets a prefetch limit, so tasks of one service interleave   *)
(* at every await, and messages are taken in any order.                    *)
(***************************************************************************)
EXTENDS Integers

CONSTANT Orders

VARIABLES
  queued,    \* the messages the broker holds
  work,      \* the handlers in progress
  published  \* history: messages published so far, by routing key and order

busVars == <<queued, work, published>>

MaxTries == 3

Keys == {"order.created", "inventory.reserved", "inventory.released",
         "inventory.failed", "inventory.release",
         "payment.success", "payment.failed", "payment.refund"}

Queues == {"order.queue", "inventory.queue", "user.queue",
           "user.retry", "user.dlq"}

\* What the queues are bound to on the exchange ecommerce.events.
Bindings ==
  {<<"order.queue", "inventory.failed">>,
   <<"order.queue", "payment.success">>,
   <<"order.queue", "payment.failed">>,
   <<"inventory.queue", "order.created">>,
   <<"inventory.queue", "inventory.release">>,
   <<"user.queue", "order.created">>,
   <<"user.queue", "payment.refund">>}

\* A message carries its order's data; `tries' is the header x-retry-count,
\* and `tag' tells apart the messages published with the same key for the
\* same order, which the code does not.
Message == [queue : Queues, key : Keys, order : Orders,
            tries : 0..MaxTries, tag : Nat]

\* The await a handler is suspended at; "done" is just before the ack.
Stages == {"cancelled", "reserved", "rejected", "released", "paying", "paid",
           "declined", "refunding", "failing", "done"}

\* `seen' is the wallet balance the handler read before it was suspended.
Task == [msg : Message, at : Stages, seen : Int]

BusTypeOK ==
  /\ queued \subseteq Message
  /\ work \subseteq Task
  /\ published \in [Keys -> [Orders -> Nat]]

BusInit ==
  /\ queued = {} /\ work = {}
  /\ published = [k \in Keys |-> [o \in Orders |-> 0]]

-----------------------------------------------------------------------------
Sent(key, o) == published[key][o] > 0

Routed(key, o) ==
  {[queue |-> b[1], key |-> key, order |-> o, tries |-> 0,
    tag |-> published[key][o]] : b \in {c \in Bindings : c[2] = key}}

Holding(m, q) == m \in queued /\ m.queue = q

\* No handler is working on the message.
Waiting(m, q) == Holding(m, q) /\ \A t \in work : t.msg # m

Publish(key, o) ==
  /\ queued' = queued \cup Routed(key, o)
  /\ published' = [published EXCEPT ![key][o] = @ + 1]

\* A new copy of a message, published straight to the queue it names.
Forward(m) ==
  /\ queued' = queued \cup {[m EXCEPT !.tag = published[m.key][m.order]]}
  /\ published' = [published EXCEPT ![m.key][m.order] = @ + 1]

Begin(m, stage, seen) ==
  /\ work' = work \cup {[msg |-> m, at |-> stage, seen |-> seen]}
  /\ UNCHANGED <<queued, published>>

Advance(t, stage) ==
  work' = (work \ {t}) \cup {[msg |-> t.msg, at |-> stage, seen |-> t.seen]}

\* The broker forgets the message: ack, or nack without requeue (there is no
\* dead-letter exchange on the consumers' queues).
Discard(m) == queued' = queued \ {m}

Drop(m) == Discard(m) /\ UNCHANGED <<work, published>>

Ack(t) ==
  /\ t.at = "done"
  /\ Discard(t.msg)
  /\ work' = work \ {t}
  /\ UNCHANGED published

TasksOf(q) == {t \in work : t.msg.queue = q}

\* The consumer of q dies: the broker redelivers what was not acknowledged.
LoseTasks(q) ==
  /\ work' = work \ TasksOf(q)
  /\ UNCHANGED <<queued, published>>
=============================================================================
