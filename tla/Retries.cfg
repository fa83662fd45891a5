SPECIFICATION FairSpec
CONSTANTS
  o1 = o1
  o2 = o2
  p1 = p1
  u1 = u1
  u2 = u2
  Orders <- OneOrder
  Products = {p1}
  Need <- NeedOne
  InitialStock <- StockOne
  Users = {u1}
  Buyer <- BuyerOne
  Total <- TotalWhole
  OpeningBalance <- Opening
  TopUpAmounts = {100}
  AdminStatuses = {}
  MaxCrashes = 0
  MaxErrors = 3
  MaxTopUps = 0
  Flaky = {"user"}
PROPERTY LeavesPending
PROPERTY Drains
\* The system comes to rest when every order is settled.
CHECK_DEADLOCK FALSE
