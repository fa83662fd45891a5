SPECIFICATION Spec
CONSTANTS
  o1 = o1
  o2 = o2
  p1 = p1
  u1 = u1
  u2 = u2
  Orders <- TwoOrders
  Products = {p1}
  Need <- NeedOne
  InitialStock <- StockOne
  Users = {u1}
  Buyer <- BuyerOne
  Total <- TotalCents
  OpeningBalance <- Opening
  TopUpAmounts = {100}
  AdminStatuses = {}
  MaxCrashes = 0
  MaxErrors = 0
  MaxTopUps = 0
  Flaky = {}
PROPERTY ConfirmsPendingOnly
\* The system comes to rest when every order is settled.
CHECK_DEADLOCK FALSE
