--------------------------- MODULE MCStorePayment ---------------------------
EXTENDS StorePayment
CONSTANTS o1, w1, w2, p1, p2
=============================================================================
