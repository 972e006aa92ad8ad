--------------------------- MODULE StoreOrderLife ---------------------------
(***************************************************************************)
(* What a storefront order promises the buyer and the ERP: it is open until *)
(* the payment provider says it was paid or has expired, and both are       *)
(* final; a paid order has one Sales Order, which appears in the step that  *)
(* makes it paid, and no other order has one.  The ERP may remove it, and then it   *)
(* does not come back.                                                      *)
(***************************************************************************)
EXTENDS Naturals

CONSTANT Orders

VARIABLES
  status,   \* "none", "open", "paid" or "expired", of each order
  sales     \* Sales Orders the ERP shows for each order

lifeVars == <<status, sales>>

LifeInit == status = [o \in Orders |-> "none"] /\ sales = [o \in Orders |-> 0]

Step(o, from, to, made) ==
  /\ status[o] = from
  /\ status' = [status EXCEPT ![o] = to]
  /\ sales' = [sales EXCEPT ![o] = made]

Place(o)   == Step(o, "none", "open", 0)
Confirm(o) == Step(o, "open", "paid", 1)
Expire(o)  == Step(o, "open", "expired", 0)
Remove(o)  == Step(o, "paid", "paid", 0)

LifeNext == \E o \in Orders : Place(o) \/ Confirm(o) \/ Expire(o) \/ Remove(o)

LifeSpec == LifeInit /\ [][LifeNext]_lifeVars
=============================================================================
