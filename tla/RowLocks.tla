------------------------------ MODULE RowLocks ------------------------------
(***************************************************************************)
(* handleOrderCreate and handleInventoryRelease row by row: what lies      *)
(* inside the transactions that InventoryService takes in one step.        *)
(*                                                                         *)
(* Each item is a SELECT ... FOR UPDATE, which waits while another         *)
(* transaction has the row, and a save of the quantity computed from it.   *)
(* What is saved is seen by nobody before the commit, so reading and       *)
(* saving a row are one step.  `stock' holds what is committed.            *)
(* PostgreSQL aborts one of the transactions that wait for each other.     *)
(***************************************************************************)
EXTENDS InventoryService, Sequences, FiniteSets

CONSTANTS
  Lines,    \* Lines[o]: the products of order o, in the order of its items
  Released, \* the orders whose release is asked for in this instance
  MaxFaults \* bound on crashes and lost connections in a behaviour

VARIABLES
  running,  \* the transactions in progress
  crashes, errors

faultVars == <<crashes, errors>>
serviceVars == <<inventoryVars, busVars>>
vars == <<serviceVars, running, faultVars>>

NoDuplicates(seq) == \A i, j \in DOMAIN seq : seq[i] = seq[j] => i = j

ASSUME LinesAssumption ==
  /\ Lines \in [Orders -> Seq(Products)]
  /\ \A o \in Orders :
       NoDuplicates(Lines[o]) /\ {Lines[o][i] : i \in DOMAIN Lines[o]} = Wanted(o)
  /\ Released \subseteq Orders /\ MaxFaults \in Nat

Handled == {"order.created", "inventory.release"}

\* `done' rows are locked and saved; `saved' is what they will hold.
Transaction == [msg : Message, done : Nat, saved : [Products -> Int]]

Init ==
  /\ BusInit /\ InventoryInit
  /\ running = {} /\ crashes = 0 /\ errors = 0

-----------------------------------------------------------------------------
\* Mutant: a release goes through the items backwards.
Rows_Backwards(t) ==
  LET items == Lines[t.msg.order]
  IN  IF t.msg.key = "order.created" THEN items
      ELSE [i \in DOMAIN items |-> items[Len(items) + 1 - i]]

Rows(t) == Lines[t.msg.order]

Locked(t) == {Rows(t)[i] : i \in 1..t.done}

More(t) == t.done < Len(Rows(t))

Row(t) == Rows(t)[t.done + 1]

\* t waits for a row that u has locked.
WaitsFor(t, u) == t # u /\ More(t) /\ Row(t) \in Locked(u)

Blocked(t) == \E u \in running : WaitsFor(t, u)

Reserves(t) == t.msg.key = "order.created"

Quantity(t, p) == IF Reserves(t) THEN stock[p] - Need[t.msg.order][p]
                                 ELSE stock[p] + Need[t.msg.order][p]

\* A set of transactions each of which waits for one of them, and is waited
\* for by one of them.
Deadlock(S) == S # {} /\ \A t \in S : /\ \E u \in S : WaitsFor(t, u)
                                      /\ \E u \in S : WaitsFor(u, t)

Start(m) ==
  /\ Waiting(m, "inventory.queue") /\ m.key \in Handled
  /\ \A t \in running : t.msg # m
  /\ running' = running \cup {[msg |-> m, done |-> 0, saved |-> [p \in Products |-> 0]]}
  /\ UNCHANGED <<serviceVars, faultVars>>

Save(t) ==
  running' = (running \ {t}) \cup
    {[msg |-> t.msg, done |-> t.done + 1,
      saved |-> [t.saved EXCEPT ![Row(t)] = Quantity(t, Row(t))]]}

\* Mutant: findOne without the lock.
SaveRow_NoLock(t) ==
  /\ More(t)
  /\ Reserves(t) => stock[Row(t)] >= Need[t.msg.order][Row(t)]
  /\ Save(t)
  /\ UNCHANGED <<serviceVars, faultVars>>

SaveRow(t) ==
  /\ More(t) /\ ~ Blocked(t)
  /\ Reserves(t) => stock[Row(t)] >= Need[t.msg.order][Row(t)]
  /\ Save(t)
  /\ UNCHANGED <<serviceVars, faultVars>>

\* A row that holds too little: everything is rolled back.
Short(t) ==
  /\ More(t) /\ ~ Blocked(t)
  /\ Reserves(t) /\ stock[Row(t)] < Need[t.msg.order][Row(t)]

\* What the rows of t hold once it is committed.
Written(t) == [p \in Products |-> IF p \in Locked(t) THEN t.saved[p] ELSE stock[p]]

Record(t) ==
  held' = [held EXCEPT ![t.msg.order] = @ + IF Reserves(t) THEN 1 ELSE -1]

End(t) == running' = running \ {t}

\* Mutant: no transaction around the loop.
RollBackShort_Kept(t) ==
  /\ Short(t) /\ End(t)
  /\ stock' = Written(t)
  /\ Begin(t.msg, "rejected", 0)
  /\ UNCHANGED <<held, faultVars>>

RollBackShort(t) ==
  /\ Short(t) /\ End(t)
  /\ Begin(t.msg, "rejected", 0)
  /\ UNCHANGED <<inventoryVars, faultVars>>

Commit(t) ==
  /\ ~ More(t) /\ End(t)
  /\ stock' = Written(t) /\ Record(t)
  /\ Begin(t.msg, IF Reserves(t) THEN "reserved" ELSE "released", 0)
  /\ UNCHANGED faultVars

\* Mutant: handleOrderCreate without its catch.
ReportError_Uncaught(t) == Drop(t.msg)

\* The transaction throws.  handleOrderCreate catches the error and reports
\* a failed reservation; handleInventoryRelease does not, and the consumer
\* rejects the message.
ReportError(t) ==
  IF Reserves(t) THEN Begin(t.msg, "rejected", 0) ELSE Drop(t.msg)

\* PostgreSQL picks a victim among the transactions of a deadlock.
AbortVictim(t) ==
  /\ \E S \in SUBSET running : t \in S /\ Deadlock(S)
  /\ End(t) /\ ReportError(t)
  /\ UNCHANGED <<inventoryVars, faultVars>>

\* The connection is lost; `applied' says whether during a commit that went
\* through.
LoseConnection(t, applied) ==
  /\ crashes + errors < MaxFaults /\ errors' = errors + 1
  /\ End(t) /\ ReportError(t)
  /\ IF applied THEN ~ More(t) /\ stock' = Written(t) /\ Record(t)
                ELSE UNCHANGED inventoryVars
  /\ UNCHANGED crashes

\* The process dies, its transactions with it.
Crash ==
  /\ crashes + errors < MaxFaults /\ crashes' = crashes + 1
  /\ running # {} \/ TasksOf("inventory.queue") # {}
  /\ running' = {}
  /\ InventoryCrash
  /\ UNCHANGED errors

Finish(t) ==
  /\ PublishOutcome(t) \/ AckInventoryEvent(t)
  /\ UNCHANGED <<running, faultVars>>

\* The order service announces an order once, and may ask for the release of
\* an order it has announced.
Request(o) ==
  /\ \/ ~ Sent("order.created", o) /\ Publish("order.created", o)
     \/ /\ o \in Released
        /\ Sent("order.created", o) /\ ~ Sent("inventory.release", o)
        /\ Publish("inventory.release", o)
  /\ UNCHANGED <<work, inventoryVars>>

-----------------------------------------------------------------------------
Transact ==
  \/ \E m \in queued : Start(m)
  \/ \E t \in running : SaveRow(t) \/ RollBackShort(t) \/ Commit(t) \/ AbortVictim(t)

Handle == Transact \/ \E t \in TasksOf("inventory.queue") : Finish(t)

Fault == Crash \/ \E t \in running, applied \in BOOLEAN : LoseConnection(t, applied)

Next == Handle \/ Fault \/ \E o \in Orders : Request(o) /\ UNCHANGED <<running, faultVars>>

Spec == Init /\ [][Next]_vars

\* The service goes on working; nobody has to ask anything of it.
FairSpec == Spec /\ WF_vars(Handle)
=============================================================================
