-------------------------- MODULE MCStoreCheckout --------------------------
(* Two buyers with two calls each; the first makes them in two tabs and does all a buyer *)
(* can do, the second, in one tab, puts units into the bag and pays for them.            *)
EXTENDS StoreCheckout

CONSTANTS b1, b2, c1, c2, t1, t2

MCTabOf == [b \in Buyers |-> [c \in Calls |-> IF b = b1 /\ c = c2 THEN t2 ELSE t1]]

\* The second buyer is there to take the last units from the first, also by paying twice.
MCNext ==
  \E c \in Calls :
    \/ Buyer(b1, c) \/ Handle(b1, c)
    \/ AddToCart(b2, c) \/ Submit(b2, c) \/ Handle(b2, c)

MCSpec == Init /\ [][MCNext]_vars
=============================================================================
