--------------------------- MODULE StoreCheckout ---------------------------
(***************************************************************************)
(* The bag and the checkout of the landing site: lib/commerce.tsx, which    *)
(* shows every change at once and takes it back when the call fails,        *)
(* routes/checkout.tsx, and the cart and order handlers of the store        *)
(* controller.  One product stands for all: the rows of a cart are changed  *)
(* one by one, and the stock of each product is guarded by itself.          *)
(*                                                                         *)
(* A buyer has several tabs and several calls under way.  The bag is React  *)
(* state of the CommerceProvider of each tab, and a tab is not told what    *)
(* another one did; the cart is one row of the buyer.  The handlers of all  *)
(* buyers interleave between their statements.  CreateOrder is a            *)
(* transaction that locks the buyer's cart rows from its first read to its  *)
(* end, over the call to Xendit.                                            *)
(***************************************************************************)
EXTENDS Integers, FiniteSets, FiniteSetsExt

CONSTANTS
  Buyers, Tabs,   \* tabs each buyer has open
  Calls,          \* calls a buyer can have under way at once
  TabOf,          \* [Buyers -> [Calls -> Tabs]]: the tab a call is made in
  Stock,          \* the stock of the product at first
  MaxQty,         \* bound: the largest quantity a buyer asks for at once
  MaxPut,         \* bound: units a buyer puts into the bag in all
  Overlap,        \* TRUE: a buyer does not wait for a change or a load of the bag
  None

ASSUME CheckoutAssumption ==
  /\ {Stock, MaxQty, MaxPut} \subseteq Nat /\ MaxQty <= MaxPut /\ Overlap \in BOOLEAN
  /\ IsFiniteSet(Buyers) /\ TabOf \in [Buyers -> [Calls -> Tabs]] /\ None \notin Calls \cup Nat

VARIABLES
  shown,    \* the quantity each tab of each buyer shows
  call,     \* the calls of each buyer
  cart,     \* quantity of the buyer's row in store_cart_items, 0 when there is none
  lock,     \* the call whose transaction holds the row
  stock,    \* store_products.stock
  ordered,  \* units in the orders of each buyer
  put,      \* history: units the buyer's answered changes have put into the cart
  stale     \* history: tabs whose bag may be out of date, since they last loaded it: another
            \* tab has changed the cart, or an answer did not arrive

vars == <<shown, call, cart, lock, stock, ordered, put, stale>>
database == <<cart, lock, stock, ordered, put>>

----------------------------------------------------------------------------
Changes == {"add", "set", "remove"}
Ops     == Changes \cup {"order", "load"}
Idle    == [op |-> "load", qty |-> 0, previous |-> 0, at |-> "idle", read |-> 0]

UnderWay(b) == {c \in Calls : call[b][c].at # "idle"}
Quiet(b)    == UnderWay(b) = {}

\* Buyers who wait, in all their tabs, for the answer to a change or to the first load of
\* a page before they do something else; two checkouts at once are always possible.
MayStart(b, op) ==
  Overlap \/ \A c \in UnderWay(b) : op = "order" /\ call[b][c].op = "order"

Init ==
  /\ shown = [b \in Buyers |-> [t \in Tabs |-> 0]]
  /\ call = [b \in Buyers |-> [c \in Calls |-> Idle]]
  /\ cart = [b \in Buyers |-> 0]
  /\ lock = [b \in Buyers |-> None]
  /\ stock = Stock
  /\ ordered = [b \in Buyers |-> 0]
  /\ put = [b \in Buyers |-> 0]
  /\ stale = [b \in Buyers |-> {}]

SetCall(b, c, value) == call' = [call EXCEPT ![b][c] = value]

\* What the tab of a call shows, and the tab showing something else.
Shows(b, c) == shown[b][TabOf[b][c]]
Show(b, c, value) == shown' = [shown EXCEPT ![b][TabOf[b][c]] = value]

\* Shown at once, then sent; "previous" is what a failure will put back.
Start(b, c, op, qty, at, display) ==
  /\ call[b][c].at = "idle" /\ MayStart(b, op)
  /\ SetCall(b, c, [op |-> op, qty |-> qty, previous |-> Shows(b, c), at |-> at, read |-> 0])
  /\ Show(b, c, display)
  /\ UNCHANGED <<database, stale>>

AddToCart(b, c) ==
  /\ Shows(b, c) < MaxQty /\ put[b] < MaxPut
  /\ Start(b, c, "add", 1, "sent", Shows(b, c) + 1)

UpdateQuantity(b, c, qty) ==
  /\ Shows(b, c) > 0 /\ qty > 0 /\ put[b] - cart[b] + qty <= MaxPut
  /\ Start(b, c, "set", qty, "sent", qty)

\* Also updateQuantity with nothing left.
RemoveFromCart(b, c) == Shows(b, c) > 0 /\ Start(b, c, "remove", 0, "sent", 0)

\* submit(): the profile is saved first; "qty" is what the page of this tab shows.
Submit(b, c) ==
  /\ Shows(b, c) > 0
  /\ Start(b, c, "order", Shows(b, c), "profile", Shows(b, c))

RefreshCommerce(b, c) == Start(b, c, "load", 0, "sent", Shows(b, c))

SaveProfile(b, c) ==
  /\ call[b][c].at = "profile"
  /\ \E at \in {"sent", "failed"} : SetCall(b, c, [call[b][c] EXCEPT !.at = at])
  /\ UNCHANGED <<shown, database, stale>>

----------------------------------------------------------------------------
(* The handlers of the cart *)

Handling(b, c, op, at) == call[b][c].op = op /\ call[b][c].at = at

\* Statements that write the row of the cart wait for the transaction that locks it.
Unlocked(b) == lock[b] = None

\* The cart is written: the other tabs are not told, and this one is when the answer
\* reaches it; the connection may break first.
Answered(b, c) ==
  \E arrives \in BOOLEAN :
    /\ SetCall(b, c, [call[b][c] EXCEPT !.at = IF arrives THEN "done" ELSE "failed"])
    /\ stale' = [stale EXCEPT ![b] = IF arrives THEN @ \cup (Tabs \ {TabOf[b][c]}) ELSE Tabs]

Failed(b, c) ==
  /\ SetCall(b, c, [call[b][c] EXCEPT !.at = "failed"])
  /\ UNCHANGED <<shown, database, stale>>

\* Mutant: the quantity is added to the one there was.
PutOnTop(b, qty) ==
  /\ cart' = [cart EXCEPT ![b] = @ + qty]
  /\ put' = [put EXCEPT ![b] = @ + qty]
  /\ UNCHANGED <<shown, lock, stock, ordered>>
Put(b, qty) ==
  /\ cart' = [cart EXCEPT ![b] = qty]
  /\ put' = [put EXCEPT ![b] = @ + qty - cart[b]]
  /\ UNCHANGED <<shown, lock, stock, ordered>>

AddRead(b, c) ==
  /\ Handling(b, c, "add", "sent")
  /\ SetCall(b, c, [call[b][c] EXCEPT !.at = "read", !.read = cart[b]])
  /\ UNCHANGED <<shown, database, stale>>

\* Create, or Save, which inserts the row again when it has gone meanwhile.  The
\* history counts the one unit that was asked for.
AddWrite(b, c) ==
  LET q == call[b][c] IN
  /\ Handling(b, c, "add", "read") /\ Unlocked(b)
  /\ q.read = 0 => cart[b] = 0
  /\ cart' = [cart EXCEPT ![b] = q.read + q.qty]
  /\ put' = [put EXCEPT ![b] = @ + q.qty]
  /\ Answered(b, c)
  /\ UNCHANGED <<shown, lock, stock, ordered>>

SetCart(b, c) ==
  /\ Handling(b, c, "set", "sent") /\ Unlocked(b) /\ cart[b] # 0
  /\ Put(b, call[b][c].qty)
  /\ Answered(b, c)

SetMissing(b, c) ==
  /\ Handling(b, c, "set", "sent") /\ Unlocked(b) /\ cart[b] = 0
  /\ Failed(b, c)

RemoveCart(b, c) ==
  /\ Handling(b, c, "remove", "sent") /\ Unlocked(b)
  /\ Put(b, 0)
  /\ Answered(b, c)

LoadCart(b, c) ==
  /\ Handling(b, c, "load", "sent")
  /\ SetCall(b, c, [call[b][c] EXCEPT !.at = "done", !.read = cart[b]])
  /\ UNCHANGED <<shown, database, stale>>

\* The request does not get through, the handler gives up before it writes, or the
\* unique index refuses a row that another call has created meanwhile.
Refused(b, c) ==
  /\ call[b][c].at \in {"sent", "read"}
  /\ Failed(b, c)

----------------------------------------------------------------------------
(* CreateOrder *)

\* Mutant: the cart is read without FOR UPDATE.
LocksNothing(b, c) == lock
LocksCart(b, c) == [lock EXCEPT ![b] = c]

\* Reads and locks the cart; the stock it reads here is looked at again by the update.
BeginOrder(b, c) ==
  /\ Handling(b, c, "order", "sent") /\ Unlocked(b)
  /\ cart[b] # 0 /\ stock >= cart[b]
  /\ lock' = LocksCart(b, c)
  /\ SetCall(b, c, [call[b][c] EXCEPT !.at = "invoice", !.read = cart[b]])
  /\ UNCHANGED <<shown, cart, stock, ordered, put, stale>>

RefuseOrder(b, c) ==
  /\ Handling(b, c, "order", "sent") /\ Unlocked(b)
  /\ cart[b] = 0 \/ stock < cart[b]
  /\ Failed(b, c)

Unlock(b, c) == [lock EXCEPT ![b] = IF @ = c THEN None ELSE @]

\* Mutants: the update has no condition on the stock; the cart is kept.
AlwaysEnough(qty) == TRUE
Enough(qty) == stock >= qty
KeepsCart(b) == cart
EmptiesCart(b) == [cart EXCEPT ![b] = 0]

CommitOrder(b, c) ==
  LET qty == call[b][c].read IN
  /\ Handling(b, c, "order", "invoice") /\ Enough(qty)
  /\ stock' = stock - qty
  /\ ordered' = [ordered EXCEPT ![b] = @ + qty]
  /\ cart' = EmptiesCart(b)
  /\ lock' = Unlock(b, c)
  /\ Answered(b, c)
  /\ UNCHANGED <<shown, put>>

\* Xendit fails, or other buyers took the stock: everything is rolled back.
RollbackOrder(b, c) ==
  /\ Handling(b, c, "order", "invoice")
  /\ lock' = Unlock(b, c)
  /\ SetCall(b, c, [call[b][c] EXCEPT !.at = "failed"])
  /\ UNCHANGED <<shown, cart, stock, ordered, put, stale>>

----------------------------------------------------------------------------
(* The browser when the answer has come *)

Display(b, c, value) ==
  /\ Show(b, c, value)
  /\ SetCall(b, c, Idle)
  /\ UNCHANGED database

\* Mutant: the bag is not emptied after the checkout.
ShownKept(b, c) == IF call[b][c].op = "load" THEN call[b][c].read ELSE Shows(b, c)
ShownAfter(b, c) ==
  LET q == call[b][c] IN
  CASE q.op = "order" -> 0 [] q.op = "load" -> q.read [] OTHER -> Shows(b, c)

Succeed(b, c) ==
  /\ call[b][c].at = "done"
  /\ Display(b, c, ShownAfter(b, c))
  /\ stale' = [stale EXCEPT ![b] =
                  IF call[b][c].op = "load" THEN @ \ {TabOf[b][c]} ELSE @]

\* Mutant: what was shown at once is not taken back.
NotTakenBack(b, c) == Shows(b, c)
TakenBack(b, c) ==
  LET q == call[b][c] IN
  CASE q.op \in Changes -> q.previous [] q.op = "load" -> 0 [] OTHER -> Shows(b, c)

\* A load that fails empties the bag that is shown.
Fail(b, c) ==
  /\ call[b][c].at = "failed"
  /\ Display(b, c, TakenBack(b, c))
  /\ stale' = [stale EXCEPT ![b] =
                  IF call[b][c].op = "load" THEN @ \cup {TabOf[b][c]} ELSE @]

Buyer(b, c) ==
  \/ AddToCart(b, c) \/ RemoveFromCart(b, c) \/ Submit(b, c) \/ RefreshCommerce(b, c)
  \/ \E qty \in 1..MaxQty : UpdateQuantity(b, c, qty)

Handle(b, c) ==
  \/ SaveProfile(b, c)
  \/ AddRead(b, c) \/ AddWrite(b, c)
  \/ SetCart(b, c) \/ SetMissing(b, c) \/ RemoveCart(b, c) \/ LoadCart(b, c) \/ Refused(b, c)
  \/ BeginOrder(b, c) \/ RefuseOrder(b, c) \/ CommitOrder(b, c) \/ RollbackOrder(b, c)
  \/ Succeed(b, c) \/ Fail(b, c)

Next == \E b \in Buyers, c \in Calls : Buyer(b, c) \/ Handle(b, c)

Spec == Init /\ [][Next]_vars

----------------------------------------------------------------------------
(* Properties *)

CallRecords == [op : Ops, qty : 0..MaxPut, previous : 0..MaxPut,
                at : {"idle", "profile", "sent", "read", "invoice", "done", "failed"},
                read : 0..MaxPut]

\* Quantities are what the code lets them be; a row of quantity 0 is no row.  A tab
\* shows more than the buyer can ask for at once after answers were lost.
TypeOK ==
  /\ shown \in [Buyers -> [Tabs -> 0..MaxPut]]
  /\ call \in [Buyers -> [Calls -> CallRecords]]
  /\ cart \in [Buyers -> 0..MaxPut]
  /\ lock \in [Buyers -> Calls \cup {None}]
  /\ stock \in 0..Stock
  /\ ordered \in [Buyers -> 0..Stock]
  /\ put \in [Buyers -> 0..MaxPut]
  /\ stale \in [Buyers -> SUBSET Tabs]

\* No unit is sold twice and none disappears: what is in stock and what was ordered
\* make up the stock there was, however many buyers pay at the same time for the last
\* units (store_controller.go:443-446, 500-510).
StockAccounted == stock >= 0 /\ stock + MapThenSumSet(LAMBDA b : ordered[b], Buyers) = Stock

\* What a buyer put into the bag is in the cart or was ordered, once: two checkouts of
\* one cart make one order, and a checkout leaves an empty cart
\* (store_controller.go:423-428, 511; "cart should be empty after checkout",
\* store_controller_test.go:124).
CartAccounted == \A b \in Buyers : cart[b] + ordered[b] = put[b]

\* When nothing is under way, a tab shows the cart the server would make an order of:
\* what it showed at once and took back, in any order of changes, failures, checkouts and
\* loads, adds up.  Not so a tab that has not loaded the bag since another tab changed the
\* cart or since an answer was lost (commerce.tsx:93, 136-182, 199-208).
ShownIsCart ==
  \A b \in Buyers, t \in Tabs : Quiet(b) /\ t \notin stale[b] => shown[b][t] = cart[b]

\* The order has the quantity the checkout page showed when "Bayar" was pressed in its
\* tab (checkout.tsx:22-31), when that bag was not out of date.  (Of the price nothing is
\* said: the handler takes the product's price of the moment.)
ChargedAsShown ==
  [][\A b \in Buyers, c \in Calls :
       ordered'[b] # ordered[b] /\ call'[b][c] # call[b][c] /\ TabOf[b][c] \notin stale[b]
         => ordered'[b] - ordered[b] = call[b][c].qty]_vars
=============================================================================
