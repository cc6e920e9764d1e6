--------------------------- MODULE MCFulfillment ---------------------------
EXTENDS Fulfillment, TLC

CONSTANTS o1, o2

TwoOrders == {o1, o2}
OneOrder  == {o1}
=============================================================================
