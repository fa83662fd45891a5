SPECIFICATION FairSpec
CONSTANTS
  o1 = o1
  o2 = o2
  p1 = p1
  p2 = p2
  Orders = {o1, o2}
  Products = {p1, p2}
  Need <- NeedItems
  Lines <- Items
  InitialStock <- StockUneven
  Released = {o1}
  MaxFaults = 2
INVARIANT RowsCurrent
INVARIANT DeadlockNeedsDisorder
INVARIANT RepeatedByCrashOnly
PROPERTY AtomicSpec
PROPERTY Answered
\* The service comes to rest when it has been asked for everything.
CHECK_DEADLOCK FALSE
