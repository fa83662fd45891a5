----------------------------- MODULE BusProofs ------------------------------
(* What the operations on the broker do, for every set of orders. *)
EXTENDS EventBus, TLAPS

\* Publishing routes well-formed messages to the bound queues and counts; no
\* other event becomes sent, and no event unsent.
LEMMA PublishEffect ==
  ASSUME BusTypeOK, NEW k \in Keys, NEW o \in Orders, Publish(k, o)
  PROVE  /\ queued' \subseteq Message
         /\ published' \in [Keys -> [Orders -> Nat]]
         /\ \A m \in queued' : m \in queued \/ (m.key = k /\ m.order = o)
         /\ \A l \in Keys, r \in Orders :
              Sent(l, r)' <=> Sent(l, r) \/ (l = k /\ r = o)
<1>1. /\ Routed(k, o) \subseteq Message
      /\ \A m \in Routed(k, o) : m.key = k /\ m.order = o
  <2> SUFFICES ASSUME NEW b \in Bindings, b[2] = k
               PROVE  [queue |-> b[1], key |-> k, order |-> o, tries |-> 0,
                       tag |-> published[k][o]] \in Message
    BY DEF Routed
  <2>1. b[1] \in Queues
    BY DEF Bindings, Queues
  <2>2. published[k][o] \in Nat
    BY DEF BusTypeOK
  <2> QED
    BY <2>1, <2>2 DEF Message, MaxTries
<1>2. \A l \in Keys, r \in Orders :
        published'[l][r] = IF l = k /\ r = o THEN published[l][r] + 1
                                             ELSE published[l][r]
  BY DEF Publish, BusTypeOK
<1>3. published' \in [Keys -> [Orders -> Nat]]
  BY DEF Publish, BusTypeOK
<1>4. \A l \in Keys, r \in Orders :
        Sent(l, r)' <=> Sent(l, r) \/ (l = k /\ r = o)
  BY <1>2 DEF Sent, BusTypeOK
<1> QED
  BY <1>1, <1>3, <1>4 DEF Publish, BusTypeOK

\* A forwarded copy has the key and the order of its original.
LEMMA ForwardEffect ==
  ASSUME BusTypeOK, NEW m \in Message, Sent(m.key, m.order), Forward(m)
  PROVE  /\ queued' \subseteq Message
         /\ published' \in [Keys -> [Orders -> Nat]]
         /\ \A n \in queued' : n \in queued \/ (n.key = m.key /\ n.order = m.order)
         /\ \A l \in Keys, r \in Orders : Sent(l, r)' <=> Sent(l, r)
<1>1. m.key \in Keys /\ m.order \in Orders
  BY DEF Message
<1>2. published[m.key][m.order] \in Nat
  BY <1>1 DEF BusTypeOK
<1>3. /\ [m EXCEPT !.tag = published[m.key][m.order]] \in Message
      /\ [m EXCEPT !.tag = published[m.key][m.order]].key = m.key
      /\ [m EXCEPT !.tag = published[m.key][m.order]].order = m.order
  BY <1>2 DEF Message
<1>4. \A l \in Keys, r \in Orders :
        published'[l][r] = IF l = m.key /\ r = m.order
                             THEN published[l][r] + 1 ELSE published[l][r]
  BY <1>1 DEF Forward, BusTypeOK
<1>5. published' \in [Keys -> [Orders -> Nat]]
  BY <1>1 DEF Forward, BusTypeOK
<1>6. \A l \in Keys, r \in Orders : Sent(l, r)' <=> Sent(l, r)
  BY <1>4 DEF Sent, BusTypeOK
<1> QED
  BY <1>3, <1>5, <1>6 DEF Forward, BusTypeOK

\* A handler that starts adds one well-formed task.
LEMMA BeginEffect ==
  ASSUME BusTypeOK, NEW m \in queued, NEW s \in Stages, NEW n \in Int,
         Begin(m, s, n)
  PROVE  /\ BusTypeOK'
         /\ UNCHANGED <<queued, published>>
         /\ \A t \in work' : t \in work \/ t = [msg |-> m, at |-> s, seen |-> n]
BY DEF BusTypeOK, Begin, Task

\* A handler that goes on to its next await changes its own task only.
LEMMA AdvanceEffect ==
  ASSUME BusTypeOK, NEW t \in work, NEW s \in Stages, Advance(t, s)
  PROVE  /\ work' \subseteq Task
         /\ \A x \in work' :
              x \in work \/ x = [msg |-> t.msg, at |-> s, seen |-> t.seen]
BY DEF BusTypeOK, Advance, Task

\* Acknowledging, dropping and crashing only remove messages and tasks.
LEMMA RemovalEffect ==
  ASSUME BusTypeOK,
         \/ \E m \in queued : Drop(m)
         \/ \E t \in work : Ack(t)
         \/ \E q \in Queues : LoseTasks(q)
  PROVE  /\ BusTypeOK'
         /\ queued' \subseteq queued /\ work' \subseteq work
         /\ UNCHANGED published
BY DEF BusTypeOK, Drop, Discard, Ack, LoseTasks, TasksOf
=============================================================================
