SPECIFICATION FairSpec
CONSTANTS
  p1 = p1
  p2 = p2
  Products = {p1, p2}
  Shelf <- ShelfHalf
  MaxLines = 2
  MaxQuantity = 1
  Tabs = {t1, t2}
  u1 = u1
  Accounts = {u1, u2}
  None = None
  Remembered = u1
  Lifetime = 1
  MaxCalls = 2
  MaxTime = 1
  MaxFaults = 1
INVARIANT TypeOK
INVARIANT OneOrderPerClick
INVARIANT ToldTheTruth
INVARIANT OwnAccount
INVARIANT MergeAddsUp
PROPERTY Answered
\* The bounds on calls and time end every behaviour.
CHECK_DEADLOCK FALSE
