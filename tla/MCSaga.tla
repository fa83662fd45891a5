------------------------------- MODULE MCSaga -------------------------------
(* Instances of Saga for TLC.                                              *)
EXTENDS SagaClaims, SagaInvariants

CONSTANTS o1, o2, p1, u1, u2

OneOrder == {o1}
TwoOrders == {o1, o2}

NeedOne == [o \in Orders |-> [p \in Products |-> 1]]
StockOne == [p \in Products |-> 1]

BuyerOne == [o \in Orders |-> u1]

\* A customer for each of two orders, so that no two debits share a wallet.
BuyerEach == [o \in Orders |-> IF o = o1 THEN u1 ELSE u2]

\* Two totals the opening balance covers one by one but not together; the
\* first has cents, which parseInt drops.
TotalCents == [o \in Orders |-> IF o = o1 THEN 150 ELSE 200]
TotalWhole == [o \in Orders |-> 100]

Opening == [u \in Users |-> 300]
=============================================================================
