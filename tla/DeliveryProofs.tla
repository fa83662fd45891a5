--------------------------- MODULE DeliveryProofs ---------------------------
(***************************************************************************)
(* What becomes of messages, whatever fails: what each step of the system  *)
(* does to the broker, and that the broker keeps what is being handled.    *)
(***************************************************************************)
EXTENDS SagaInvariants, SagaProofs

-----------------------------------------------------------------------------
(* The steps of the system as the broker sees them.                        *)

\* A handler starts, goes on, or comes to an error it will report.
TakeUp(m, s) ==
  /\ Waiting(m, m.queue) /\ m.queue = Home(m) /\ s \in Awaits(m)
  /\ s = "done" => m.key = "payment.success"
  /\ \E n \in Int : Begin(m, s, n)

GoOn(t, s) ==
  /\ t.at # "done" /\ s \in Awaits(t.msg) /\ Advance(t, s)
  /\ s \in {"paid", "failing", "done"}
  /\ s = "done" => t.at = "refunding" /\ Refund(t)
  /\ UNCHANGED <<queued, published>>

\* A handler publishes its answer and comes to its acknowledgement.
Reply(t, k) ==
  /\ t.at \in {"cancelled"} \cup DOMAIN Outcome \cup DOMAIN Verdict
  /\ t.at \in DOMAIN Outcome => k = Outcome[t.at]
  /\ t.at \in DOMAIN Verdict => k = Verdict[t.at]
  /\ k \in Answers(<<Home(t.msg), t.msg.key>>)
  /\ Publish(k, t.msg.order) /\ Advance(t, "done")

PutOff(t) ==
  /\ t.at = "failing" /\ Advance(t, "done")
  /\ \E q \in {"user.retry", "user.dlq"}, n \in 0..MaxTries :
       Forward([t.msg EXCEPT !.queue = q, !.tries = n])

ComeBack(m) ==
  /\ m.queue = "user.retry"
  /\ queued' = (queued \ {m}) \cup {[m EXCEPT !.queue = "user.queue"]}
  /\ UNCHANGED <<work, published>>

Announce(o) ==
  /\ request[o] = "stored" /\ Publish("order.created", o) /\ UNCHANGED work

\* The order service's database does not fail.
OrderServed == MaxErrors = 0 \/ "order" \notin Flaky

\* Unless a database fails, only what asks to cancel an order twice.
GiveUp(m) ==
  /\ m.queue \notin UserQueues /\ Untaken(m) /\ Drop(m)
  /\ MaxErrors = 0 => m.queue = "order.queue"
  /\ OrderServed /\ m.queue = "order.queue" => ~ Cancellable(m.order)

BusStep ==
  \/ UNCHANGED busVars
  \/ \E o \in Orders : Announce(o)
  \/ \E m \in queued : ComeBack(m) \/ GiveUp(m) \/ \E s \in Stages : TakeUp(m, s)
  \/ \E t \in work :
       \/ Ack(t) \/ PutOff(t)
       \/ \E s \in Stages : GoOn(t, s)
       \/ \E k \in Keys : Reply(t, k)

-----------------------------------------------------------------------------
(* What each of them does.                                                 *)

\* A handler that is not at its acknowledgement is the only one at work on
\* its message.
LEMMA AtWork ==
  ASSUME Deliveries, NEW t \in work
  PROVE  Pending(t.msg) <=> t.at # "done"
BY DEF Deliveries, Attended, Pending

\* Where a message goes does not depend on anything but its queue and key.
LEMMA Filing ==
  ASSUME BusTypeOK, Deliveries
  PROVE  /\ \A m \in queued : /\ m \in Message /\ m.key \in Keys /\ m.order \in Orders
                              /\ published[m.key][m.order] \in Nat /\ m.tag \in Nat
         /\ \A t \in work : t \in Task /\ t.msg \in queued
BY DEF BusTypeOK, Message, Deliveries

\* A message that is taken up stays queued and has one handler.
LEMMA TakeUpEffect ==
  ASSUME BusTypeOK, Deliveries, NEW m \in queued, NEW s \in Stages, TakeUp(m, s)
  PROVE  /\ Deliveries' /\ UNCHANGED <<queued, published>>
         /\ \A x \in queued : Untaken(x)' <=> Untaken(x) /\ x # m
         /\ \A x \in queued : Pending(x)' <=> Pending(x) /\ (x = m => s # "done")
<1>1. PICK n \in Int : Begin(m, s, n)
  BY DEF TakeUp
<1>2. PICK t : t = [msg |-> m, at |-> s, seen |-> n]
  OBVIOUS
<1>3. /\ t.msg = m /\ t.at = s /\ work' = work \cup {t}
      /\ UNCHANGED <<queued, published>>
  BY <1>1, <1>2 DEF Begin
<1>4. /\ \A u \in work : u.msg # m
      /\ m.queue = Home(m) /\ s \in Awaits(m)
  BY DEF TakeUp, Waiting
<1>5. Filed' /\ Attended' /\ \A u \in work' : u.msg \in queued'
  BY <1>3, <1>4 DEF Deliveries, Filed, Attended
<1> QED
  BY <1>3, <1>4, <1>5 DEF Deliveries, Untaken, Pending

\* A handler that goes on keeps its message.
LEMMA GoOnEffect ==
  ASSUME BusTypeOK, Deliveries, NEW t \in work, NEW s \in Stages, GoOn(t, s)
  PROVE  /\ Deliveries' /\ UNCHANGED <<queued, published>>
         /\ \A x \in queued : Untaken(x)' <=> Untaken(x)
         /\ \A x \in queued : Pending(x)' <=> Pending(x) /\ (x = t.msg => s # "done")
<1>1. PICK u : u = [msg |-> t.msg, at |-> s, seen |-> t.seen]
  OBVIOUS
<1>2. /\ u.msg = t.msg /\ u.at = s /\ work' = (work \ {t}) \cup {u}
      /\ UNCHANGED <<queued, published>> /\ t.at # "done" /\ s \in Awaits(t.msg)
  BY <1>1 DEF GoOn, Advance
<1>3. Filed' /\ Attended' /\ \A v \in work' : v.msg \in queued'
  BY <1>2 DEF Deliveries, Filed, Attended
<1> QED
  BY <1>2, <1>3 DEF Deliveries, Attended, Untaken, Pending

\* A message is forgotten when it was handled or given up.
LEMMA DiscardEffect ==
  ASSUME BusTypeOK, Deliveries, NEW m \in queued,
         GiveUp(m) \/ \E t \in work : t.msg = m /\ Ack(t)
  PROVE  /\ Deliveries' /\ queued' = queued \ {m} /\ UNCHANGED published
         /\ \A x \in queued' : Untaken(x)' <=> Untaken(x)
         /\ \A x \in queued' : Pending(x)' <=> Pending(x)
<1>1. CASE GiveUp(m)
  BY <1>1 DEF GiveUp, Drop, Discard, Deliveries, Filed, Attended, Untaken, Pending
<1>2. ASSUME NEW t \in work, t.msg = m, Ack(t)
      PROVE  /\ Deliveries' /\ queued' = queued \ {m} /\ UNCHANGED published
             /\ \A x \in queued' : Untaken(x)' <=> Untaken(x)
         /\ \A x \in queued' : Pending(x)' <=> Pending(x)
  <2>1. queued' = queued \ {m} /\ work' = work \ {t} /\ UNCHANGED published
    BY <1>2 DEF Ack, Discard
  <2>2. \A u \in work' : u.msg # m
    BY <1>2, <2>1 DEF Deliveries, Attended
  <2> QED
    BY <1>2, <2>1, <2>2 DEF Deliveries, Filed, Attended, Untaken, Pending
<1> QED
  BY <1>1, <1>2

\* A new message with a fresh number is nobody's work yet.
LEMMA NewMessages ==
  ASSUME BusTypeOK, Deliveries, NEW k \in Keys, NEW o \in Orders, NEW S,
         queued' = queued \cup S,
         published' = [published EXCEPT ![k][o] = @ + 1],
         \A x \in S : /\ x.key = k /\ x.order = o /\ x.tag = published[k][o]
                      /\ <<Home(x), k>> \in Bindings,
         \A x, y \in S : Home(x) = Home(y) => x = y
  PROVE  Filed' /\ \A x \in S : x \notin queued /\ Untaken(x)
<1>1. \A l \in Keys, r \in Orders :
        /\ published[l][r] \in Nat
        /\ published'[l][r] = IF l = k /\ r = o THEN published[l][r] + 1
                                                ELSE published[l][r]
  BY DEF BusTypeOK
<1>2. \A x \in S, y \in queued : y.key = x.key /\ y.order = x.order => y.tag # x.tag
  <2> SUFFICES ASSUME NEW x \in S, NEW y \in queued, y.key = k, y.order = o
               PROVE  y.tag # x.tag
    OBVIOUS
  <2>1. y.tag < published[k][o] /\ y.tag \in Nat
    BY Filing DEF Deliveries, Filed
  <2>2. x.tag = published[k][o] /\ published[k][o] \in Nat
    BY <1>1
  <2> QED
    BY <2>1, <2>2
<1>3. \A x \in S : x \notin queued /\ Untaken(x)
  BY <1>2, Filing DEF Untaken
<1>4. \A x \in queued' : /\ <<Home(x), x.key>> \in Bindings
                         /\ x.tag < published'[x.key][x.order]
  <2>1. ASSUME NEW x \in queued
        PROVE  /\ <<Home(x), x.key>> \in Bindings
               /\ x.tag < published'[x.key][x.order]
    <3>1. x.tag < published[x.key][x.order] /\ x.tag \in Nat
      BY Filing DEF Deliveries, Filed
    <3>2. x.key \in Keys /\ x.order \in Orders
      BY Filing
    <3> QED
      BY <1>1, <3>1, <3>2 DEF Deliveries, Filed
  <2>2. ASSUME NEW x \in S
        PROVE  /\ <<Home(x), x.key>> \in Bindings
               /\ x.tag < published'[x.key][x.order]
    <3>1. x.key = k /\ x.order = o /\ x.tag = published[k][o] /\ <<Home(x), k>> \in Bindings
      OBVIOUS
    <3>2. published'[k][o] = published[k][o] + 1 /\ published[k][o] \in Nat
      BY <1>1
    <3> QED
      BY <3>1, <3>2
  <2> QED
    BY <2>1, <2>2
<1>5. \A m, n \in queued' :
        Home(m) = Home(n) /\ m.key = n.key /\ m.order = n.order /\ m.tag = n.tag
          => m = n
  BY <1>2 DEF Deliveries, Filed
<1> QED
  BY <1>3, <1>4, <1>5 DEF Filed

\* An event is routed once to each queue bound to its key.
LEMMA RoutedMessages ==
  ASSUME NEW k \in Keys, NEW o \in Orders
  PROVE  /\ \A x \in Routed(k, o) : x.key = k /\ x.order = o
         /\ \A x \in Routed(k, o) : x.tag = published[k][o] /\ x.queue = Home(x)
         /\ \A x \in Routed(k, o) : <<Home(x), k>> \in Bindings
         /\ \A x, y \in Routed(k, o) : Home(x) = Home(y) => x = y
         /\ \A b \in Bindings : b[2] = k => \E x \in Routed(k, o) : Home(x) = b[1]
<1>1. \A b \in Bindings : b[1] \in {"order.queue", "inventory.queue", "user.queue"} /\ b = <<b[1], b[2]>>
  BY DEF Bindings
<1>2. ASSUME NEW b \in Bindings, b[2] = k,
             NEW x, x = [queue |-> b[1], key |-> k, order |-> o, tries |-> 0,
                         tag |-> published[k][o]]
      PROVE  /\ x.key = k /\ x.order = o /\ x.tag = published[k][o] /\ x.queue = b[1]
             /\ Home(x) = b[1] /\ <<Home(x), k>> \in Bindings
  <2>1. Home(x) = b[1]
    BY <1>1, <1>2 DEF Home, UserQueues
  <2> QED
    BY <1>1, <1>2, <2>1
<1>3. \A x : x \in Routed(k, o) <=>
        \E b \in Bindings : /\ b[2] = k
                            /\ x = [queue |-> b[1], key |-> k, order |-> o, tries |-> 0,
                                    tag |-> published[k][o]]
  BY DEF Routed
<1>4. ASSUME NEW x \in Routed(k, o)
      PROVE  /\ x.key = k /\ x.order = o /\ x.tag = published[k][o]
             /\ x.queue = Home(x) /\ <<Home(x), k>> \in Bindings
  BY <1>2, <1>3
<1>5. ASSUME NEW x \in Routed(k, o), NEW y \in Routed(k, o), Home(x) = Home(y)
      PROVE  x = y
  <2>1. PICK b \in Bindings : b[2] = k /\ x = [queue |-> b[1], key |-> k, order |-> o,
                                            tries |-> 0, tag |-> published[k][o]]
    BY <1>3
  <2>2. PICK c \in Bindings : c[2] = k /\ y = [queue |-> c[1], key |-> k, order |-> o,
                                            tries |-> 0, tag |-> published[k][o]]
    BY <1>3
  <2>3. Home(x) = b[1] /\ Home(y) = c[1]
    BY <1>2, <2>1, <2>2
  <2> QED
    BY <1>5, <2>1, <2>2, <2>3
<1>6. ASSUME NEW b \in Bindings, b[2] = k
      PROVE  \E x \in Routed(k, o) : Home(x) = b[1]
  BY <1>2, <1>3, <1>6
<1> QED
  BY <1>4, <1>5, <1>6

\* Publishing keeps each message in its place, under a number of its own.
LEMMA PublishFiles ==
  ASSUME BusTypeOK, Deliveries, NEW k \in Keys, NEW o \in Orders, Publish(k, o)
  PROVE  Filed' /\ \A x \in Routed(k, o) : x \notin queued /\ Untaken(x)
<1>1. PICK S : S = Routed(k, o)
  OBVIOUS
<1>2. /\ queued' = queued \cup S /\ published' = [published EXCEPT ![k][o] = @ + 1]
      /\ \A x \in S : /\ x.key = k /\ x.order = o /\ x.tag = published[k][o]
                     /\ <<Home(x), k>> \in Bindings
      /\ \A x, y \in S : Home(x) = Home(y) => x = y
  BY <1>1, RoutedMessages DEF Publish
<1>3. Filed' /\ \A x \in S : x \notin queued /\ Untaken(x)
  BY <1>2, NewMessages
<1> QED
  BY <1>1, <1>3

\* What is published is waiting in every queue bound to its key, and the
\* other messages stay as they are.
LEMMA AnnounceEffect ==
  ASSUME BusTypeOK, Deliveries, NEW o \in Orders, Announce(o)
  PROVE  /\ Deliveries' /\ queued' = queued \cup Routed("order.created", o)
         /\ published' = [published EXCEPT !["order.created"][o] = @ + 1]
         /\ \A x \in queued : Untaken(x)' <=> Untaken(x)
         /\ \A x \in queued : Pending(x)' <=> Pending(x)
         /\ \A x \in Routed("order.created", o) : x \notin queued /\ Untaken(x)'
<1>1. /\ queued' = queued \cup Routed("order.created", o) /\ UNCHANGED work
      /\ published' = [published EXCEPT !["order.created"][o] = @ + 1]
  BY DEF Announce, Publish
<1>2. Filed' /\ \A x \in Routed("order.created", o) : x \notin queued /\ Untaken(x)
  BY PublishFiles DEF Announce, Keys
<1>3. Attended' /\ \A t \in work' : t.msg \in queued'
  BY <1>1 DEF Deliveries, Attended
<1> QED
  BY <1>1, <1>2, <1>3 DEF Deliveries, Untaken, Pending

\* A handler that answers keeps its message until the acknowledgement.
LEMMA ReplyEffect ==
  ASSUME BusTypeOK, Deliveries, NEW t \in work, NEW k \in Keys, Reply(t, k)
  PROVE  /\ Deliveries' /\ queued' = queued \cup Routed(k, t.msg.order)
         /\ published' = [published EXCEPT ![k][t.msg.order] = @ + 1]
         /\ Pending(t.msg) /\ ~ Untaken(t.msg)
         /\ \A x \in queued : Untaken(x)' <=> Untaken(x)
         /\ \A x \in queued : Pending(x)' <=> Pending(x) /\ x # t.msg
         /\ \A x \in Routed(k, t.msg.order) : x \notin queued /\ Untaken(x)'
<1>1. PICK u : u = [msg |-> t.msg, at |-> "done", seen |-> t.seen]
  OBVIOUS
<1>2. /\ u.msg = t.msg /\ u.at = "done" /\ work' = (work \ {t}) \cup {u}
      /\ queued' = queued \cup Routed(k, t.msg.order) /\ t.at # "done"
      /\ published' = [published EXCEPT ![k][t.msg.order] = @ + 1]
  BY <1>1 DEF Reply, Advance, Publish, Outcome, Verdict
<1>3. t.msg.order \in Orders /\ t.msg \in queued
  BY Filing
<1>4. Filed' /\ \A x \in Routed(k, t.msg.order) : x \notin queued /\ Untaken(x)
  BY <1>3, PublishFiles DEF Reply
<1>5. "done" \in Awaits(t.msg)
  BY DEF Awaits
<1>6. Attended' /\ \A v \in work' : v.msg \in queued'
  BY <1>2, <1>5 DEF Deliveries, Attended
<1>7. \A x \in Routed(k, t.msg.order) : Untaken(x)'
  BY <1>2, <1>3, <1>4 DEF Untaken
<1> QED
  BY <1>2, <1>4, <1>6, <1>7 DEF Deliveries, Attended, Untaken, Pending

\* A failed message is done with, and its copy is waiting in its stead.
LEMMA PutOffEffect ==
  ASSUME BusTypeOK, Deliveries, NEW t \in work, PutOff(t)
  PROVE  /\ Deliveries' /\ Pending(t.msg) /\ ~ Untaken(t.msg)
         /\ published' = [published EXCEPT ![t.msg.key][t.msg.order] = @ + 1]
         /\ \A x \in queued : Untaken(x)' <=> Untaken(x)
         /\ \A x \in queued : Pending(x)' <=> Pending(x) /\ x # t.msg
         /\ \E c : /\ queued' = queued \cup {c} /\ c \notin queued /\ Untaken(c)'
                  /\ Home(c) = Home(t.msg) /\ c.key = t.msg.key /\ c.order = t.msg.order
                  /\ c.queue \in {"user.retry", "user.dlq"}
<1>1. PICK u : u = [msg |-> t.msg, at |-> "done", seen |-> t.seen]
  OBVIOUS
<1>2. PICK q \in {"user.retry", "user.dlq"}, n \in 0..MaxTries :
        Forward([t.msg EXCEPT !.queue = q, !.tries = n])
  BY DEF PutOff
<1>3. /\ t.msg \in Message /\ t.msg \in queued /\ t.msg.key \in Keys /\ t.msg.order \in Orders
      /\ t.msg.queue = "user.queue" /\ t.at = "failing"
  <2>1. t.at \in Awaits(t.msg) /\ <<t.msg.queue, t.msg.key>> \in Bindings /\ t.at = "failing"
    BY DEF PutOff, Deliveries, Filed, Attended
  <2>2. t.msg.queue \in {"order.queue", "inventory.queue", "user.queue"}
    BY <2>1 DEF Bindings
  <2>3. t.msg.queue = "user.queue"
    BY <2>1, <2>2 DEF Awaits
  <2> QED
    BY <2>1, <2>3, Filing
<1>4. PICK c : c = [t.msg EXCEPT !.queue = q, !.tries = n, !.tag = published[t.msg.key][t.msg.order]]
  OBVIOUS
<1>5. /\ queued' = queued \cup {c}
      /\ published' = [published EXCEPT ![t.msg.key][t.msg.order] = @ + 1]
      /\ c.key = t.msg.key /\ c.order = t.msg.order /\ c.queue = q
      /\ c.tag = published[t.msg.key][t.msg.order]
  BY <1>2, <1>3, <1>4 DEF Forward, Message
<1>6. Home(c) = "user.queue" /\ Home(t.msg) = "user.queue"
  BY <1>3, <1>5 DEF Home, UserQueues
<1>7. <<Home(c), c.key>> \in Bindings
  BY <1>3, <1>5, <1>6 DEF Deliveries, Filed
<1>8. Filed' /\ c \notin queued /\ Untaken(c)
  <2>1. PICK S : S = {c}
    OBVIOUS
  <2>2. /\ queued' = queued \cup S
        /\ \A x \in S : /\ x.key = t.msg.key /\ x.order = t.msg.order
                       /\ x.tag = published[t.msg.key][t.msg.order]
                       /\ <<Home(x), t.msg.key>> \in Bindings
        /\ \A x, y \in S : Home(x) = Home(y) => x = y
    BY <1>5, <1>7, <2>1
  <2>3. Filed' /\ \A x \in S : x \notin queued /\ Untaken(x)
    BY <1>3, <1>5, <2>2, NewMessages
  <2> QED
    BY <2>1, <2>3
<1>9. u.msg = t.msg /\ u.at = "done" /\ work' = (work \ {t}) \cup {u}
  BY <1>1 DEF PutOff, Advance
<1>10. "done" \in Awaits(t.msg)
  BY DEF Awaits
<1>11. Attended' /\ \A v \in work' : v.msg \in queued'
  BY <1>3, <1>5, <1>9, <1>10 DEF Deliveries, Attended
<1>12. Untaken(c)'
  BY <1>3, <1>8, <1>9 DEF Untaken
<1>13. /\ \A x \in queued : Untaken(x)' <=> Untaken(x)
       /\ \A x \in queued : Pending(x)' <=> Pending(x) /\ x # t.msg
  BY <1>3, <1>9 DEF Deliveries, Attended, Untaken, Pending
<1>14. Pending(t.msg) /\ ~ Untaken(t.msg)
  BY <1>3, AtWork DEF Untaken
<1> QED
  BY <1>5, <1>6, <1>8, <1>11, <1>12, <1>13, <1>14 DEF Deliveries

\* A retry that is due waits in the consumer's queue instead.
LEMMA ComeBackEffect ==
  ASSUME BusTypeOK, Deliveries, NEW m \in queued, ComeBack(m)
  PROVE  /\ Deliveries' /\ UNCHANGED published /\ Untaken(m)
         /\ \A x \in queued : Untaken(x)' <=> Untaken(x)
         /\ \A x \in queued : Pending(x)' <=> Pending(x)
         /\ \E c : /\ queued' = (queued \ {m}) \cup {c} /\ c \notin queued /\ Untaken(c)'
                  /\ Home(c) = Home(m) /\ c.key = m.key /\ c.order = m.order
                  /\ c.queue = Home(c)
<1>1. PICK c : c = [m EXCEPT !.queue = "user.queue"]
  OBVIOUS
<1>2. /\ m \in Message /\ m.queue = "user.retry"
      /\ queued' = (queued \ {m}) \cup {c} /\ UNCHANGED <<work, published>>
  BY <1>1, Filing DEF ComeBack
<1>3. /\ c.queue = "user.queue" /\ c.key = m.key /\ c.order = m.order /\ c.tag = m.tag
      /\ Home(c) = "user.queue" /\ Home(m) = "user.queue"
  BY <1>1, <1>2 DEF Home, UserQueues, Message
<1>4. Untaken(m)
  BY <1>2, <1>3 DEF Deliveries, Attended, Untaken
<1>5. c \notin queued
  <2>1. c # m
    BY <1>2, <1>3
  <2> QED
    BY <1>3, <2>1 DEF Deliveries, Filed
<1>6. Untaken(c)
  BY <1>5 DEF Deliveries, Untaken
<1>7. Filed'
  <2>1. \A x \in queued' : /\ <<Home(x), x.key>> \in Bindings
                          /\ x.tag < published'[x.key][x.order]
    BY <1>2, <1>3 DEF Deliveries, Filed
  <2>2. \A x, y \in queued' :
          Home(x) = Home(y) /\ x.key = y.key /\ x.order = y.order /\ x.tag = y.tag
            => x = y
    BY <1>2, <1>3 DEF Deliveries, Filed
  <2> QED
    BY <2>1, <2>2 DEF Filed
<1>8. Attended' /\ \A t \in work' : t.msg \in queued'
  BY <1>2, <1>4 DEF Deliveries, Attended, Untaken
<1> QED
  BY <1>2, <1>3, <1>4, <1>5, <1>6, <1>7, <1>8 DEF Deliveries, Untaken, Pending

\* A crash only makes messages wait again.
LEMMA LossEffect ==
  ASSUME Deliveries, NEW q \in Queues, LoseTasks(q)
  PROVE  /\ Deliveries' /\ UNCHANGED <<queued, published>> /\ work' \subseteq work
         /\ \A x \in queued : Untaken(x) => Untaken(x)'
         /\ \A x \in queued : Pending(x) => Pending(x)'
BY DEF LoseTasks, TasksOf, Deliveries, Filed, Attended, Untaken, Pending

-----------------------------------------------------------------------------
(* Every step of the system is one of these.                               *)

\* The queue a handler's message lies in is bound to the message's key.
LEMMA OnBinding ==
  ASSUME Deliveries, NEW t \in work
  PROVE  /\ t.msg \in queued /\ t.msg.queue = Home(t.msg)
         /\ <<t.msg.queue, t.msg.key>> \in Bindings
         /\ t.at \in Awaits(t.msg)
BY DEF Deliveries, Filed, Attended

\* The order service's steps.
LEMMA OrderMoves ==
  ASSUME SafetyInv, Deliveries
  PROVE  /\ \A o \in Orders : AnnounceOrder(o) => Announce(o)
         /\ \A m \in queued :
              /\ CancelOrder(m) => TakeUp(m, "cancelled")
              /\ ConfirmOrder(m) => TakeUp(m, "done")
              /\ RejectCancel(m) => GiveUp(m)
              /\ \A applied \in BOOLEAN :
                   OrderHandlerFails(m, applied) /\ ~ OrderServed => GiveUp(m)
         /\ \A t \in TasksOf("order.queue") :
              /\ PublishCompensation(t) =>
                   Compensation[t.msg.key] \in Keys /\ Reply(t, Compensation[t.msg.key])
              /\ AckOrderEvent(t) => Ack(t)
<1>1. ASSUME NEW o \in Orders, AnnounceOrder(o)
      PROVE  Announce(o)
  BY <1>1 DEF AnnounceOrder, Announce
<1>2. ASSUME NEW m \in queued
      PROVE  /\ CancelOrder(m) => TakeUp(m, "cancelled")
             /\ ConfirmOrder(m) => TakeUp(m, "done")
  BY DEF CancelOrder, ConfirmOrder, TakeUp, Waiting, Holding, Home, UserQueues, Awaits
<1>3. ASSUME NEW m \in queued, NEW applied \in BOOLEAN
      PROVE  /\ RejectCancel(m) => GiveUp(m)
             /\ OrderHandlerFails(m, applied) /\ ~ OrderServed => GiveUp(m)
  BY DEF RejectCancel, OrderHandlerFails, GiveUp, Untaken, Waiting, Holding, UserQueues,
     OrderServed
<1>4. ASSUME NEW t \in work, t.msg.queue = "order.queue", PublishCompensation(t)
      PROVE  Compensation[t.msg.key] \in Keys /\ Reply(t, Compensation[t.msg.key])
  <2> DEFINE k == Compensation[t.msg.key]
  <2>1. t.msg.key \in FailureEvents
    BY <1>4 DEF PublishCompensation, SafetyInv, ServicesOK, HandlersOK, TaskOK
  <2>2. k \in Keys /\ k \in Answers(<<Home(t.msg), t.msg.key>>)
    BY <1>4, <2>1 DEF Compensation, FailureEvents, Keys, Answers, Home, UserQueues,
       ForPayment, ForReservation, ForRelease, ForRefund
  <2> QED
    BY <1>4, <2>2 DEF PublishCompensation, Reply, Outcome, Verdict
<1> QED
  BY <1>1, <1>2, <1>3, <1>4 DEF AckOrderEvent, TasksOf

\* The product service's.
LEMMA InventoryMoves ==
  ASSUME Deliveries
  PROVE  /\ \A m \in queued :
              /\ ReserveStock(m) => TakeUp(m, "reserved")
              /\ RejectReservation(m) => TakeUp(m, "rejected")
              /\ ReleaseStock(m) => TakeUp(m, "released")
              /\ \A applied \in BOOLEAN :
                   /\ ReservationFails(m, applied) => TakeUp(m, "rejected")
                   /\ ReleaseFails(m, applied) /\ MaxErrors # 0 => GiveUp(m)
         /\ \A t \in TasksOf("inventory.queue") :
              /\ PublishOutcome(t) => Outcome[t.at] \in Keys /\ Reply(t, Outcome[t.at])
              /\ AckInventoryEvent(t) => Ack(t)
<1>1. ASSUME NEW m \in queued, NEW applied \in BOOLEAN
      PROVE  /\ ReserveStock(m) => TakeUp(m, "reserved")
             /\ RejectReservation(m) => TakeUp(m, "rejected")
             /\ ReleaseStock(m) => TakeUp(m, "released")
             /\ ReservationFails(m, applied) => TakeUp(m, "rejected")
  BY DEF ReserveStock, RejectReservation, ReleaseStock, ReservationFails, TakeUp,
         Waiting, Holding, Home, UserQueues, Awaits
<1>2. ASSUME NEW m \in queued, NEW applied \in BOOLEAN
      PROVE  ReleaseFails(m, applied) /\ MaxErrors # 0 => GiveUp(m)
  BY DEF ReleaseFails, GiveUp, Untaken, Waiting, Holding, UserQueues
<1>3. ASSUME NEW t \in work, t.msg.queue = "inventory.queue", PublishOutcome(t)
      PROVE  Outcome[t.at] \in Keys /\ Reply(t, Outcome[t.at])
  <2> DEFINE k == Outcome[t.at]
  <2>1. t.msg.key \in {"order.created", "inventory.release"} /\ t.at \in Awaits(t.msg)
    BY <1>3, OnBinding DEF Bindings
  <2>2. k \in Keys /\ k \in Answers(<<Home(t.msg), t.msg.key>>)
    BY <1>3, <2>1 DEF PublishOutcome, Outcome, Keys, Answers, Home, UserQueues, Awaits,
       ForPayment, ForReservation, ForRelease, ForRefund
  <2> QED
    BY <1>3, <2>2 DEF PublishOutcome, Outcome, Verdict, Reply
<1> QED
  BY <1>1, <1>2, <1>3 DEF AckInventoryEvent, TasksOf

\* The user service's.
LEMMA WalletMoves ==
  ASSUME SafetyInv, Deliveries
  PROVE  /\ \A m \in queued :
              /\ ReadWallet(m) => TakeUp(m, "paying")
              /\ DeclinePayment(m) => TakeUp(m, "declined")
              /\ FindPayment(m) /\ charged[m.order] > 0 => TakeUp(m, "refunding")
              /\ FindPayment(m) /\ ~ (charged[m.order] > 0) => TakeUp(m, "failing")
              /\ WalletReadFails(m) => TakeUp(m, "failing")
              /\ RetryExpires(m) => ComeBack(m)
         /\ \A t \in TasksOf("user.queue") :
              /\ SaveWallet(t) => GoOn(t, "paid")
              /\ RefundWallet(t) => GoOn(t, "done")
              /\ \A applied \in BOOLEAN : WalletWriteFails(t, applied) => GoOn(t, "failing")
              /\ PublishVerdict(t) => Verdict[t.at] \in Keys /\ Reply(t, Verdict[t.at])
              /\ Reschedule(t) => PutOff(t)
              /\ AckUserEvent(t) => Ack(t)
<1>1. ASSUME NEW m \in queued
      PROVE  /\ ReadWallet(m) => TakeUp(m, "paying")
             /\ DeclinePayment(m) => TakeUp(m, "declined")
             /\ FindPayment(m) /\ charged[m.order] > 0 => TakeUp(m, "refunding")
             /\ FindPayment(m) /\ ~ (charged[m.order] > 0) => TakeUp(m, "failing")
             /\ WalletReadFails(m) => TakeUp(m, "failing")
  <2>1. m \in Message /\ <<Home(m), m.key>> \in Bindings
    BY DEF SafetyInv, ServicesOK, BusTypeOK, Deliveries, Filed
  <2>2. ASSUME Waiting(m, "user.queue")
        PROVE  /\ m.queue = "user.queue" /\ m.queue = Home(m) /\ Waiting(m, m.queue)
               /\ m.key = "order.created" \/ m.key = "payment.refund"
    <3>1. m.queue = "user.queue" /\ Home(m) = "user.queue"
      BY <2>2 DEF Waiting, Holding, Home, UserQueues
    <3> QED
      BY <2>1, <2>2, <3>1 DEF Bindings
  <2>3. ReadWallet(m) => TakeUp(m, "paying")
    <3> SUFFICES ASSUME ReadWallet(m)
                 PROVE  TakeUp(m, "paying")
      OBVIOUS
    <3>1. balance[Buyer[m.order]] \in Int
      BY DEF ReadWallet, Payable, SafetyInv, ServicesOK, WalletTypeOK
    <3> QED
      BY <2>2, <3>1 DEF ReadWallet, TakeUp, Awaits
  <2>4. DeclinePayment(m) => TakeUp(m, "declined")
    BY <2>2 DEF DeclinePayment, TakeUp, Awaits
  <2>5. /\ FindPayment(m) /\ charged[m.order] > 0 => TakeUp(m, "refunding")
        /\ FindPayment(m) /\ ~ (charged[m.order] > 0) => TakeUp(m, "failing")
    BY <2>2 DEF FindPayment, TakeUp, Awaits
  <2>6. WalletReadFails(m) => TakeUp(m, "failing")
    BY <2>2 DEF WalletReadFails, TakeUp, Awaits
  <2> QED
    BY <2>3, <2>4, <2>5, <2>6
<1>2. ASSUME NEW t \in work, t.msg.queue = "user.queue", NEW applied \in BOOLEAN
      PROVE  /\ SaveWallet(t) => GoOn(t, "paid")
             /\ RefundWallet(t) => GoOn(t, "done")
             /\ WalletWriteFails(t, applied) => GoOn(t, "failing")
  <2>1. /\ t.msg.key \in {"order.created", "payment.refund"} /\ t.at \in Awaits(t.msg)
    BY <1>2, OnBinding DEF Bindings
  <2> QED
    BY <1>2, <2>1 DEF SaveWallet, RefundWallet, WalletWriteFails, GoOn, Awaits
<1>3. ASSUME NEW t \in work, t.msg.queue = "user.queue", PublishVerdict(t)
      PROVE  Verdict[t.at] \in Keys /\ Reply(t, Verdict[t.at])
  <2> DEFINE k == Verdict[t.at]
  <2>1. t.msg.key \in {"order.created", "payment.refund"} /\ t.at \in Awaits(t.msg)
    BY <1>3, OnBinding DEF Bindings
  <2>2. t.msg.key = "order.created"
    BY <1>3, <2>1 DEF PublishVerdict, Verdict, Awaits
  <2>3. k \in Keys /\ k \in Answers(<<Home(t.msg), t.msg.key>>)
    <3>1. <<Home(t.msg), t.msg.key>> = ForPayment
      BY <1>3, <2>2 DEF Home, UserQueues, ForPayment
    <3>2. Answers(ForPayment) = {"payment.success", "payment.failed"}
      BY DEF Answers, ForPayment, ForReservation, ForRelease
    <3>3. k \in {"payment.success", "payment.failed"}
      BY <1>3 DEF PublishVerdict, Verdict
    <3> QED
      BY <3>1, <3>2, <3>3 DEF Keys
  <2> QED
    BY <1>3, <2>3 DEF PublishVerdict, Outcome, Verdict, Reply
<1>4. ASSUME NEW t \in work, Reschedule(t)
      PROVE  PutOff(t)
  <2>1. t.msg \in Message
    BY DEF SafetyInv, ServicesOK, BusTypeOK, Task
  <2>2. \E q \in {"user.retry", "user.dlq"}, n \in 0..MaxTries :
          Forward([t.msg EXCEPT !.queue = q, !.tries = n])
    <3>1. CASE t.msg.tries >= MaxTries
      <4>1. [t.msg EXCEPT !.queue = "user.dlq"]
              = [t.msg EXCEPT !.queue = "user.dlq", !.tries = t.msg.tries]
        BY <2>1 DEF Message
      <4> QED
        BY <1>4, <2>1, <3>1, <4>1 DEF Reschedule, Message
    <3>2. CASE ~ (t.msg.tries >= MaxTries)
      <4>1. t.msg.tries + 1 \in 0..MaxTries
        BY <2>1, <3>2 DEF Message, MaxTries
      <4> QED
        BY <1>4, <3>2, <4>1 DEF Reschedule, Again
    <3> QED
      BY <3>1, <3>2
  <2> QED
    BY <1>4, <2>2 DEF Reschedule, PutOff
<1>5. ASSUME NEW m \in queued, RetryExpires(m)
      PROVE  ComeBack(m)
  BY <1>5 DEF RetryExpires, ComeBack, Holding
<1> QED
  BY <1>1, <1>2, <1>3, <1>4, <1>5 DEF AckUserEvent, TasksOf

\* What the order service does at the broker.
LEMMA OrderBusStep ==
  ASSUME SafetyInv, Deliveries,
         \/ \E o \in Orders, p \in Products :
              CheckProduct(o, p, stock[p]) \/ RefuseOrder(o, p, stock[p])
         \/ \E o \in Orders : StoreOrder(o)
         \/ \E o \in Orders, s \in AdminStatuses : AdminUpdate(o, s)
         \/ OrderStep \/ (OrderFault /\ ~ OrderServed)
  PROVE  BusStep
<1>1. ASSUME UNCHANGED busVars
      PROVE  BusStep
  BY <1>1 DEF BusStep
<1> QED
  BY <1>1, OrderMoves
  DEF BusStep, OrderStep, OrderFault, TasksOf, Stages, CheckProduct, RefuseOrder,
      StoreOrder, AdminUpdate, OrderRequestFails

\* What the product service does at the broker.
LEMMA InventoryBusStep ==
  ASSUME Deliveries, InventoryStep \/ (InventoryFault /\ MaxErrors # 0)
  PROVE  BusStep
BY InventoryMoves DEF BusStep, InventoryStep, InventoryFault, TasksOf, Stages

\* What the user service and the retry queue do at the broker.
LEMMA WalletBusStep ==
  ASSUME SafetyInv, Deliveries,
         \/ \E u \in Wallets, amount \in TopUpAmounts : TopUp(u, amount)
         \/ \E m \in queued : RetryExpires(m)
         \/ WalletStep \/ WalletFault
  PROVE  BusStep
<1>1. ASSUME NEW u \in Wallets, NEW amount \in TopUpAmounts, TopUp(u, amount)
      PROVE  BusStep
  BY <1>1 DEF TopUp, BusStep
<1>2. ASSUME NEW m \in queued,
             \/ ReadWallet(m) \/ DeclinePayment(m) \/ FindPayment(m)
             \/ WalletReadFails(m) \/ RetryExpires(m)
      PROVE  BusStep
  <2>1. FindPayment(m) => TakeUp(m, "refunding") \/ TakeUp(m, "failing")
    BY WalletMoves
  <2>2. \/ TakeUp(m, "paying") \/ TakeUp(m, "declined") \/ TakeUp(m, "refunding")
        \/ TakeUp(m, "failing") \/ ComeBack(m)
    BY <1>2, <2>1, WalletMoves
  <2> QED
    BY <2>2 DEF BusStep, Stages
<1>3. ASSUME NEW t \in TasksOf("user.queue"), NEW applied \in BOOLEAN,
             \/ SaveWallet(t) \/ PublishVerdict(t) \/ RefundWallet(t)
             \/ Reschedule(t) \/ AckUserEvent(t) \/ WalletWriteFails(t, applied)
      PROVE  BusStep
  <2>1. \/ Ack(t) \/ PutOff(t) \/ \E s \in Stages : GoOn(t, s)
        \/ \E k \in Keys : Reply(t, k)
    BY <1>3, WalletMoves DEF Stages
  <2> QED
    BY <2>1 DEF BusStep, TasksOf
<1> QED
  BY <1>1, <1>2, <1>3 DEF WalletStep, WalletFault

\* The services' handlers, the retry queue and the failures of the databases
\* amount to nine kinds of steps at the broker, and a crash to a tenth.
LEMMA BusSteps ==
  ASSUME SafetyInv, Deliveries, [Next]_vars
  PROVE  BusStep \/ (MaxCrashes # 0 /\ \E q \in Queues : LoseTasks(q))
<1>1. CASE PlaceOrder \/ Order \/ Administrator
  BY <1>1, OrderBusStep DEF PlaceOrder, Order, Administrator
<1>2. CASE Inventory
  BY <1>2, InventoryBusStep DEF Inventory
<1>3. CASE Wallet \/ Broker \/ Customer
  BY <1>3, WalletBusStep DEF Wallet, Broker, Customer
<1>4. CASE DatabaseError
  <2>1. MaxErrors # 0
    BY <1>4 DEF DatabaseError, SafetyInv, TypeOK
  <2> QED
    BY <1>4, <2>1, OrderBusStep, InventoryBusStep, WalletBusStep DEF DatabaseError, OrderServed
<1>5. CASE Crash
  <2>1. MaxCrashes # 0
    BY <1>5 DEF Crash, SafetyInv, TypeOK
  <2>2. \E q \in Queues : LoseTasks(q)
    BY <1>5 DEF Crash, OrderCrash, InventoryCrash, WalletCrash, Queues
  <2> QED
    BY <2>1, <2>2
<1>6. CASE UNCHANGED vars
  BY <1>6 DEF vars, BusStep
<1> QED
  BY <1>1, <1>2, <1>3, <1>4, <1>5, <1>6 DEF Next

-----------------------------------------------------------------------------
\* Every step, of services, failures and crashes, keeps Deliveries.
LEMMA DeliveriesKept ==
  ASSUME SafetyInv, Deliveries, [Next]_vars
  PROVE  Deliveries'
<1> BusTypeOK
  BY DEF SafetyInv, ServicesOK
<1>1. CASE UNCHANGED busVars
  <2>1. UNCHANGED <<queued, work, published>>
    BY <1>1 DEF busVars
  <2> QED
    BY <2>1 DEF Deliveries, Filed, Attended
<1> QED
  BY <1>1, BusSteps, AnnounceEffect, ComeBackEffect, DiscardEffect, TakeUpEffect,
     PutOffEffect, GoOnEffect, ReplyEffect, LossEffect, Filing
  DEF BusStep, Ack

\* Whatever crashes and fails, a message is never handled twice at a time, and
\* one that is being handled, redelivered, retried or given up to the dead
\* letters is not lost: the broker has it until its handler is done with it.
THEOREM DeliveriesHold == Spec => []Deliveries
<1>1. Init => Deliveries
  BY DEF Init, BusInit, Deliveries, Filed, Attended
<1>2. SafetyInv /\ Deliveries /\ [Next]_vars => Deliveries'
  BY DeliveriesKept
<1> QED
  BY <1>1, <1>2, SafetyInvariant, PTL DEF Spec
\* What is pending stays so, or a copy of it does, until a handler is done with
\* it or gives it up.
LEMMA Survives ==
  ASSUME SafetyInv, Deliveries, [Next]_vars, NEW b, NEW o, NEW m \in About(b, o), Pending(m)
  PROVE  \/ \E n \in About(b, o)' : Pending(n)'
         \/ GiveUp(m) \/ TakeUp(m, "done")
         \/ \E t \in work : t.msg = m /\ (GoOn(t, "done") \/ \E k \in Keys : Reply(t, k))
<1> BusTypeOK /\ m \in queued
  BY DEF SafetyInv, ServicesOK, About
<1> USE DEF About
<1>1. ASSUME m \in queued', Pending(m)'
      PROVE  \E n \in About(b, o)' : Pending(n)'
  BY <1>1
<1>2. CASE UNCHANGED busVars
  BY <1>1, <1>2 DEF busVars, Pending
<1>3. ASSUME NEW r \in Orders, Announce(r)
      PROVE  m \in queued' /\ Pending(m)'
  BY <1>3, AnnounceEffect
<1>4. ASSUME NEW x \in queued, ComeBack(x)
      PROVE  \E n \in About(b, o)' : Pending(n)'
  <2>1. PICK c : /\ queued' = (queued \ {x}) \cup {c} /\ c \notin queued /\ Untaken(c)'
                 /\ Home(c) = Home(x) /\ c.key = x.key /\ c.order = x.order
                 /\ c.queue = Home(c)
    BY <1>4, ComeBackEffect
  <2>2. \A y \in queued : Pending(y)' <=> Pending(y)
    BY <1>4, ComeBackEffect
  <2>3. Pending(c)'
    BY <2>1 DEF Untaken, Pending
  <2> QED
    BY <1>1, <2>1, <2>2, <2>3
<1>5. ASSUME NEW x \in queued, x # m, GiveUp(x) \/ \E t \in work : t.msg = x /\ Ack(t)
      PROVE  m \in queued' /\ Pending(m)'
  <2>1. queued' = queued \ {x} /\ \A y \in queued' : Pending(y)' <=> Pending(y)
    BY <1>5, DiscardEffect
  <2> QED
    BY <1>5, <2>1
<1>6. ASSUME NEW t \in work, t.msg = m
      PROVE  ~ Ack(t)
  BY <1>6 DEF Ack, Pending
<1>7. ASSUME NEW x \in queued, NEW s \in Stages, TakeUp(x, s), ~ TakeUp(m, "done")
      PROVE  m \in queued' /\ Pending(m)'
  BY <1>7, TakeUpEffect
<1>8. ASSUME NEW t \in work, NEW s \in Stages, GoOn(t, s), t.msg = m => ~ GoOn(t, "done")
      PROVE  m \in queued' /\ Pending(m)'
  BY <1>8, GoOnEffect
<1>9. ASSUME NEW t \in work, NEW k \in Keys, Reply(t, k), t.msg # m
      PROVE  m \in queued' /\ Pending(m)'
  BY <1>9, ReplyEffect
<1>10. ASSUME NEW t \in work, PutOff(t)
       PROVE  \E n \in About(b, o)' : Pending(n)'
  <2>1. PICK c : /\ queued' = queued \cup {c} /\ c \notin queued /\ Untaken(c)'
                 /\ Home(c) = Home(t.msg) /\ c.key = t.msg.key /\ c.order = t.msg.order
                 /\ c.queue \in {"user.retry", "user.dlq"}
    BY <1>10, PutOffEffect
  <2>2. \A x \in queued : Pending(x)' <=> Pending(x) /\ x # t.msg
    BY <1>10, PutOffEffect
  <2>3. Pending(c)'
    BY <2>1 DEF Untaken, Pending
  <2> QED
    BY <1>1, <2>1, <2>2, <2>3
<1>11. ASSUME NEW q \in Queues, LoseTasks(q)
       PROVE  m \in queued' /\ Pending(m)'
  BY <1>11, LossEffect
<1>12. BusStep \/ \E q \in Queues : LoseTasks(q)
  BY BusSteps
<1>13. CASE \E q \in Queues : LoseTasks(q)
  BY <1>1, <1>11, <1>13
<1>14. CASE BusStep
  BY <1>1, <1>2, <1>3, <1>4, <1>5, <1>6, <1>7, <1>8, <1>9, <1>10, <1>14, Filing DEF BusStep
<1> QED
  BY <1>12, <1>13, <1>14

-----------------------------------------------------------------------------
(* While no process dies: nothing is done twice.                           *)

\* The events each handler may publish.
LEMMA AnswersAre ==
  /\ Answers(ForPayment) = {"payment.success", "payment.failed"}
  /\ Answers(ForReservation) = {"inventory.reserved", "inventory.failed"}
  /\ Answers(ForRelease) = {"inventory.released"}
  /\ Answers(ForRefund) = {}
  /\ Answers(<<"order.queue", "inventory.failed">>) = {"payment.refund"}
  /\ Answers(<<"order.queue", "payment.failed">>) = {"inventory.release"}
  /\ Answers(<<"order.queue", "payment.success">>) = {}
BY DEF Answers, ForPayment, ForReservation, ForRelease, ForRefund

\* An answer tells what it is the answer to; nothing answers with a new order.
LEMMA AnswersDiffer ==
  /\ \A b, c \in Bindings : \A k \in Answers(b) : k \in Answers(c) => b = c
  /\ \A b \in Bindings : \A k \in Answers(b) : k \in Keys /\ k # "order.created"
<1>1. \A b \in Bindings :
        \/ b = ForPayment /\ Answers(b) = {"payment.success", "payment.failed"}
        \/ b = ForReservation /\ Answers(b) = {"inventory.reserved", "inventory.failed"}
        \/ b = ForRelease /\ Answers(b) = {"inventory.released"}
        \/ b = <<"order.queue", "inventory.failed">> /\ Answers(b) = {"payment.refund"}
        \/ b = <<"order.queue", "payment.failed">> /\ Answers(b) = {"inventory.release"}
        \/ Answers(b) = {}
  BY AnswersAre DEF Bindings, ForPayment, ForReservation, ForRelease, ForRefund
<1> QED
  BY <1>1 DEF Keys

\* A step that sends nothing new, takes up no message again and puts at most
\* one in the place of another.
LEMMA NothingAdded ==
  ASSUME AnsweredOnce, Deliveries,
         \A k \in Keys, o \in Orders : Sent(k, o)' <=> Sent(k, o),
         NEW m \in queued, NEW c,
         Home(c) = Home(m) /\ c.key = m.key /\ c.order = m.order,
         \A x \in queued' : Pending(x)' =>
           (x \in queued /\ Pending(x)) \/ (x = c /\ Pending(m)),
         \A x \in queued' : Pending(x)' /\ c \in queued' /\ Pending(c)' /\ c # x => x # m,
         c # m => c \notin queued
  PROVE  AnsweredOnce'
<1> SUFFICES ASSUME NEW o \in Orders, NEW b \in Bindings
             PROVE  /\ OneAtATime(b, o)'
                    /\ Answered(b, o)' => Sent(b[2], o)' /\ \A x \in About(b, o)' : ~ Pending(x)'
                    /\ \A k, l \in Answers(b) : Sent(k, o)' /\ Sent(l, o)' => k = l
  BY DEF AnsweredOnce
<1>1. /\ OneAtATime(b, o)
      /\ Answered(b, o) => Sent(b[2], o) /\ \A x \in About(b, o) : ~ Pending(x)
      /\ \A k, l \in Answers(b) : Sent(k, o) /\ Sent(l, o) => k = l
  BY DEF AnsweredOnce
<1>2. b[2] \in Keys /\ \A k \in Answers(b) : k \in Keys
  BY AnswersDiffer DEF Bindings, Keys
<1>3. ASSUME NEW x \in About(b, o)', Pending(x)'
      PROVE  \E y \in About(b, o) : Pending(y) /\ (x = y \/ (x = c /\ y = m))
  BY <1>3 DEF About
<1>4. OneAtATime(b, o)'
  <2> SUFFICES ASSUME NEW x \in About(b, o)', NEW y \in About(b, o)', Pending(x)', Pending(y)'
               PROVE  x = y
    BY DEF OneAtATime
  <2>1. x \in queued' /\ y \in queued'
    BY DEF About
  <2> QED
    BY <1>1, <1>3, <2>1 DEF OneAtATime
<1>5. Answered(b, o)' <=> Answered(b, o)
  BY <1>2 DEF Answered
<1> QED
  BY <1>1, <1>2, <1>3, <1>4, <1>5

\* What a handler, or POST /orders, sends was not sent before.
LEMMA FreshKey ==
  ASSUME SafetyInv, Deliveries, AnsweredOnce, NEW k \in Keys, NEW r \in Orders,
         ~ Sent(k, r), published' = [published EXCEPT ![k][r] = @ + 1],
         queued' = queued \cup Routed(k, r)
  PROVE  /\ \A l \in Keys, o \in Orders :
              Sent(l, o)' <=> Sent(l, o) \/ (l = k /\ o = r)
         /\ \A b \in Bindings, o \in Orders :
              /\ b = <<b[1], b[2]>> /\ b[2] \in Keys
              /\ b[2] # k \/ o # r => About(b, o)' = About(b, o)
              /\ b[2] = k /\ o = r => \E x \in Routed(k, r) : About(b, o)' = {x}
<1>1. BusTypeOK /\ \A m \in queued : Sent(m.key, m.order)
  BY DEF SafetyInv, ServicesOK, HandlersOK
<1>2. \A l \in Keys, o \in Orders : Sent(l, o)' <=> Sent(l, o) \/ (l = k /\ o = r)
  BY <1>1, PublishEffect DEF Publish
<1>3. \A m \in queued : m.key # k \/ m.order # r
  BY <1>1
<1>4. ASSUME NEW b \in Bindings, NEW o \in Orders
      PROVE  /\ b = <<b[1], b[2]>> /\ b[2] \in Keys
             /\ b[2] # k \/ o # r => About(b, o)' = About(b, o)
             /\ b[2] = k /\ o = r => \E x \in Routed(k, r) : About(b, o)' = {x}
  <2>1. b = <<b[1], b[2]>> /\ b[2] \in Keys
    BY DEF Bindings, Keys
  <2>2. \A x \in Routed(k, r) : x.key = k /\ x.order = r
    BY RoutedMessages
  <2>3. ASSUME b[2] # k \/ o # r PROVE About(b, o)' = About(b, o)
    BY <2>1, <2>2, <2>3 DEF About
  <2>4. ASSUME b[2] = k, o = r PROVE \E x \in Routed(k, r) : About(b, o)' = {x}
    <3>1. PICK x \in Routed(k, r) : Home(x) = b[1]
      BY <2>4, RoutedMessages
    <3>2. \A y \in Routed(k, r) : Home(y) = b[1] => y = x
      BY <3>1, RoutedMessages
    <3>3. x.key = k /\ x.order = r
      BY <2>2
    <3>4. About(b, o)' = {x}
      BY <1>3, <2>1, <2>2, <2>4, <3>1, <3>2, <3>3 DEF About
    <3> QED
      BY <3>4
  <2> QED
    BY <2>1, <2>3, <2>4
<1> QED
  BY <1>2, <1>4

\* An answer is the first for its order, and no handler is left to give another.
LEMMA ReplyAnswersOnce ==
  ASSUME SafetyInv, Deliveries, AnsweredOnce, NEW t \in work, NEW k \in Keys, Reply(t, k)
  PROVE  AnsweredOnce' /\ ~ Sent(k, t.msg.order)
<1> DEFINE r == t.msg.order
           a == <<Home(t.msg), t.msg.key>>
<1>3. BusTypeOK
  BY DEF SafetyInv, ServicesOK
<1>4. /\ queued' = queued \cup Routed(k, r) /\ published' = [published EXCEPT ![k][r] = @ + 1]
      /\ Pending(t.msg)
      /\ \A x \in queued : Pending(x)' <=> Pending(x) /\ x # t.msg
  BY <1>3, ReplyEffect
<1>5. a \in Bindings /\ r \in Orders /\ t.msg \in About(a, r) /\ k \in Answers(a) /\ a[2] = t.msg.key
  BY <1>3, Filing DEF Reply, Deliveries, Filed, About
<1>6. \A l \in Answers(a) : ~ Sent(l, r)
  BY <1>4, <1>5 DEF AnsweredOnce, Answered
<1>7. Sent(a[2], r) /\ a[2] # k
  BY <1>5, <1>6 DEF SafetyInv, ServicesOK, HandlersOK, TaskOK
<1>8. /\ \A l \in Keys, o \in Orders :
           Sent(l, o)' <=> Sent(l, o) \/ (l = k /\ o = r)
      /\ \A b \in Bindings, o \in Orders :
           /\ b = <<b[1], b[2]>> /\ b[2] \in Keys
           /\ b[2] # k \/ o # r => About(b, o)' = About(b, o)
           /\ b[2] = k /\ o = r => \E x \in Routed(k, r) : About(b, o)' = {x}
  BY <1>4, <1>5, <1>6, FreshKey
<1>9. ASSUME NEW b \in Bindings, NEW o \in Orders
      PROVE  /\ OneAtATime(b, o)'
             /\ Answered(b, o)' => Sent(b[2], o)' /\ \A x \in About(b, o)' : ~ Pending(x)'
             /\ \A l, n \in Answers(b) : Sent(l, o)' /\ Sent(n, o)' => l = n
  <2>1. /\ OneAtATime(b, o)
        /\ Answered(b, o) => Sent(b[2], o) /\ \A x \in About(b, o) : ~ Pending(x)
        /\ \A l, n \in Answers(b) : Sent(l, o) /\ Sent(n, o) => l = n
    BY DEF AnsweredOnce
  <2>2. \A x \in About(b, o) : x \in queued /\ (Pending(x)' => Pending(x) /\ x # t.msg)
    BY <1>4 DEF About
  <2>3. \A l \in Answers(b) : l \in Keys
    BY AnswersDiffer
  <2>4. OneAtATime(b, o)'
    BY <1>8, <2>1, <2>2 DEF OneAtATime
  <2>5. CASE b = a /\ o = r
    <3>1. About(b, o)' = About(b, o) /\ Sent(b[2], o)'
      BY <1>5, <1>7, <1>8, <2>5
    <3>2. \A x \in About(b, o) : ~ Pending(x)'
      BY <1>4, <1>5, <2>1, <2>2, <2>5 DEF OneAtATime
    <3>3. \A l \in Answers(b) : Sent(l, o)' => l = k
      BY <1>6, <1>8, <2>3, <2>5
    <3> QED
      BY <2>4, <3>1, <3>2, <3>3
  <2>6. CASE b # a \/ o # r
    <3>1. \A l \in Answers(b) : Sent(l, o)' <=> Sent(l, o)
      BY <1>5, <1>8, <2>3, <2>6, AnswersDiffer
    <3>2. Answered(b, o)' <=> Answered(b, o)
      BY <3>1 DEF Answered
    <3>3. Answered(b, o) => b[2] # k \/ o # r
      BY <1>5, <1>6, <2>1
    <3> QED
      BY <1>8, <2>1, <2>2, <2>4, <3>1, <3>2, <3>3
  <2> QED
    BY <2>5, <2>6
<1> QED
  BY <1>5, <1>6, <1>9 DEF AnsweredOnce

\* The announcement of an order finds no answers to it.
LEMMA AnnounceAnswersOnce ==
  ASSUME SafetyInv, AnnouncedFirst, Deliveries, AnsweredOnce, NEW r \in Orders, Announce(r)
  PROVE  AnsweredOnce'
<1>1. PICK k : k = "order.created"
  OBVIOUS
<1>2. BusTypeOK /\ k \in Keys
  BY <1>1 DEF SafetyInv, ServicesOK, Keys
<1>3. \A l \in Keys : ~ Sent(l, r)
  BY DEF Announce, AnnouncedFirst
<1>4. /\ queued' = queued \cup Routed(k, r) /\ published' = [published EXCEPT ![k][r] = @ + 1]
      /\ \A x \in queued : Pending(x)' <=> Pending(x)
  BY <1>1, <1>2, AnnounceEffect
<1>5. /\ \A l \in Keys, o \in Orders :
           Sent(l, o)' <=> Sent(l, o) \/ (l = k /\ o = r)
      /\ \A b \in Bindings, o \in Orders :
           /\ b = <<b[1], b[2]>> /\ b[2] \in Keys
           /\ b[2] # k \/ o # r => About(b, o)' = About(b, o)
           /\ b[2] = k /\ o = r => \E x \in Routed(k, r) : About(b, o)' = {x}
  BY <1>2, <1>3, <1>4, FreshKey
<1>6. ASSUME NEW b \in Bindings, NEW o \in Orders
      PROVE  /\ OneAtATime(b, o)'
             /\ Answered(b, o)' => Sent(b[2], o)' /\ \A x \in About(b, o)' : ~ Pending(x)'
             /\ \A l, n \in Answers(b) : Sent(l, o)' /\ Sent(n, o)' => l = n
  <2>1. /\ OneAtATime(b, o)
        /\ Answered(b, o) => Sent(b[2], o) /\ \A x \in About(b, o) : ~ Pending(x)
        /\ \A l, n \in Answers(b) : Sent(l, o) /\ Sent(n, o) => l = n
    BY DEF AnsweredOnce
  <2>2. \A x \in About(b, o) : x \in queued /\ (Pending(x)' => Pending(x))
    BY <1>4 DEF About
  <2>3. \A l \in Answers(b) : l \in Keys /\ l # k
    BY <1>1, AnswersDiffer
  <2>4. OneAtATime(b, o)'
    BY <1>5, <2>1, <2>2 DEF OneAtATime
  <2>5. \A l \in Answers(b) : Sent(l, o)' <=> Sent(l, o)
    BY <1>5, <2>3
  <2>6. Answered(b, o)' <=> Answered(b, o)
    BY <2>5 DEF Answered
  <2>7. Answered(b, o) => b[2] # k \/ o # r
    BY <1>2, <1>3, <2>1
  <2> QED
    BY <1>5, <2>1, <2>2, <2>4, <2>5, <2>6, <2>7
<1> QED
  BY <1>6 DEF AnsweredOnce
\* A failed message counts as the copy that replaces it.
LEMMA OthersAnswerOnce ==
  ASSUME SafetyInv, Deliveries, AnsweredOnce, UNCHANGED published \/ \E t \in work : PutOff(t),
         \/ \E m \in queued : ComeBack(m) \/ GiveUp(m) \/ \E s \in Stages : TakeUp(m, s)
         \/ \E t \in work : Ack(t) \/ PutOff(t) \/ \E s \in Stages : GoOn(t, s)
  PROVE  AnsweredOnce'
<1> BusTypeOK
  BY DEF SafetyInv, ServicesOK
<1>1. ASSUME UNCHANGED published, NEW m \in queued,
             \A x \in queued' : Pending(x)' => x \in queued /\ Pending(x)
      PROVE  AnsweredOnce'
  BY <1>1, NothingAdded DEF Sent
<1>2. ASSUME NEW m \in queued, NEW c,
             \A k \in Keys, o \in Orders : Sent(k, o)' <=> Sent(k, o),
             Pending(m), c \notin queued,
             Home(c) = Home(m), c.key = m.key, c.order = m.order,
             \A x \in queued' : Pending(x)' => (x \in queued /\ Pending(x) /\ x # m) \/ x = c
      PROVE  AnsweredOnce'
  BY <1>2, NothingAdded
<1>3. ASSUME NEW m \in queued, ComeBack(m)
      PROVE  AnsweredOnce'
  <2>1. PICK c : /\ queued' = (queued \ {m}) \cup {c} /\ c \notin queued /\ Untaken(c)'
                 /\ Home(c) = Home(m) /\ c.key = m.key /\ c.order = m.order
                 /\ c.queue = Home(c)
    BY <1>3, ComeBackEffect
  <2>2. UNCHANGED published /\ Untaken(m) /\ \A x \in queued : Pending(x)' <=> Pending(x)
    BY <1>3, ComeBackEffect
  <2>3. \A k \in Keys, o \in Orders : Sent(k, o)' <=> Sent(k, o)
    BY <2>2 DEF Sent
  <2>4. Pending(m)
    BY <2>2 DEF Untaken, Pending
  <2>5. \A x \in queued' : Pending(x)' => (x \in queued /\ Pending(x) /\ x # m) \/ x = c
    BY <2>1, <2>2
  <2> QED
    BY <1>2, <2>1, <2>3, <2>4, <2>5
<1>4. ASSUME NEW t \in work, PutOff(t)
      PROVE  AnsweredOnce'
  <2>1. PICK c : /\ queued' = queued \cup {c} /\ c \notin queued /\ Untaken(c)'
                 /\ Home(c) = Home(t.msg) /\ c.key = t.msg.key /\ c.order = t.msg.order
                 /\ c.queue \in {"user.retry", "user.dlq"}
    BY <1>4, PutOffEffect
  <2>2. /\ Pending(t.msg)
        /\ published' = [published EXCEPT ![t.msg.key][t.msg.order] = @ + 1]
        /\ \A x \in queued : Pending(x)' <=> Pending(x) /\ x # t.msg
    BY <1>4, PutOffEffect
  <2>3. t.msg \in queued /\ t.msg.key \in Keys /\ t.msg.order \in Orders /\ Sent(t.msg.key, t.msg.order)
    BY Filing DEF SafetyInv, ServicesOK, HandlersOK
  <2>4. \A k \in Keys, o \in Orders : Sent(k, o)' <=> Sent(k, o)
    BY <2>2, <2>3 DEF BusTypeOK, Sent
  <2>5. \A x \in queued' : Pending(x)' => (x \in queued /\ Pending(x) /\ x # t.msg) \/ x = c
    BY <2>1, <2>2
  <2> QED
    BY <1>2, <2>1, <2>2, <2>3, <2>4, <2>5
<1>5. ASSUME NEW m \in queued, GiveUp(m) \/ \E t \in work : t.msg = m /\ Ack(t)
      PROVE  AnsweredOnce'
  <2>1. /\ queued' = queued \ {m} /\ UNCHANGED published
        /\ \A x \in queued' : Pending(x)' <=> Pending(x)
    BY <1>5, DiscardEffect
  <2> QED
    BY <1>1, <2>1
<1>6. ASSUME NEW m \in queued, NEW s \in Stages, TakeUp(m, s)
      PROVE  AnsweredOnce'
  <2>1. /\ UNCHANGED <<queued, published>>
        /\ \A x \in queued : Pending(x)' <=> Pending(x) /\ (x = m => s # "done")
    BY <1>6, TakeUpEffect
  <2> QED
    BY <1>1, <2>1
<1>7. ASSUME NEW t \in work, NEW s \in Stages, GoOn(t, s)
      PROVE  AnsweredOnce'
  <2>1. /\ UNCHANGED <<queued, published>>
        /\ \A x \in queued : Pending(x)' <=> Pending(x) /\ (x = t.msg => s # "done")
    BY <1>7, GoOnEffect
  <2>2. t.msg \in queued
    BY Filing
  <2> QED
    BY <1>1, <2>1, <2>2
<1> QED
  BY <1>3, <1>4, <1>5, <1>6, <1>7, Filing

\* As long as no process dies, each handler answers an order's event once,
\* also when MongoDB fails and the event is retried, and gives one answer.
THEOREM AnsweredOnceHolds ==
  ASSUME MaxCrashes = 0
  PROVE  Spec => []AnsweredOnce
<1>1. Init => AnsweredOnce
  BY AnswersDiffer DEF Init, BusInit, AnsweredOnce, OneAtATime, About, Answered, Sent
<1>2. ASSUME SafetyInv, AnnouncedFirst, Deliveries, AnsweredOnce, [Next]_vars
      PROVE  AnsweredOnce'
  <2>1. CASE UNCHANGED busVars
    BY <1>2, <2>1 DEF AnsweredOnce, OneAtATime, About, Answered, Sent, Pending, busVars
  <2>2. CASE \E o \in Orders : Announce(o)
    BY <1>2, <2>2, AnnounceAnswersOnce
  <2>3. CASE \E t \in work, k \in Keys : Reply(t, k)
    BY <1>2, <2>3, ReplyAnswersOnce
  <2>4. CASE \/ \E m \in queued : ComeBack(m) \/ GiveUp(m) \/ \E s \in Stages : TakeUp(m, s)
             \/ \E t \in work : Ack(t) \/ PutOff(t) \/ \E s \in Stages : GoOn(t, s)
    <3>1. UNCHANGED published \/ \E t \in work : PutOff(t)
      BY <2>4 DEF ComeBack, GiveUp, Drop, TakeUp, Begin, Ack, GoOn
    <3> QED
      BY <1>2, <2>4, <3>1, OthersAnswerOnce
  <2> QED
    BY <1>2, <2>1, <2>2, <2>3, <2>4, BusSteps DEF BusStep
<1> QED
  BY <1>1, <1>2, SafetyInvariant, AnnouncedFirstHolds, DeliveriesHold, PTL DEF Spec

\* As long as no process dies, an order's payment is not reported both as made
\* and as failed, nor its stock both as reserved and as refused, although a
\* failing payment is retried up to three times and a commit's answer may be
\* lost.
THEOREM OneVerdictHolds ==
  ASSUME MaxCrashes = 0
  PROVE  Spec => []OneVerdict
<1>1. AnsweredOnce => OneVerdict
  <2>1. ForPayment \in Bindings /\ ForReservation \in Bindings
    BY DEF ForPayment, ForReservation, Bindings
  <2> QED
    BY <2>1, AnswersAre DEF AnsweredOnce, OneVerdict
<1> QED
  BY <1>1, AnsweredOnceHolds, PTL
=============================================================================
