----------------------------- MODULE MCBizSales -----------------------------
(* Small instances of BizSales: one product, one ingredient, two orders. *)
EXTENDS BizSales, TLC

CONSTANTS o1, o2, p1, p2, g1, ph1

TwoOrders == (o1 :> (p1 :> 1)) @@ (o2 :> (p1 :> 2))
SamePhone == [o \in Orders |-> ph1]
Paid == p1 :> 15
\* Two products, the second one free: for the day row that stays (README, findings).
OneEach == (o1 :> (p1 :> 1 @@ p2 :> 0)) @@ (o2 :> (p1 :> 0 @@ p2 :> 1))
FreeSecond == p1 :> 15 @@ p2 :> 0
=============================================================================
