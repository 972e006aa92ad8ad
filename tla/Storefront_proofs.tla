-------------------------- MODULE Storefront_proofs --------------------------
(***************************************************************************)
(* Proofs about the two parts of the storefront.                            *)
(*                                                                         *)
(* Cart and checkout (StoreCheckout): no unit of the stock is sold twice,   *)
(* for any number of buyers, tabs and calls, however their calls overlap;   *)
(* and when buyers wait for the answer to a change, what they put into the  *)
(* bag is in the cart or was ordered, a tab whose bag is not out of date    *)
(* shows the cart, and an order is what the page of such a tab showed.  The *)
(* argument (IInv): a call under way knows the cart it will change (the     *)
(* lock keeps it for a checkout, the waiting buyer for a change), and only  *)
(* the commit of an order touches stock and orders, by the same amount.     *)
(*                                                                         *)
(* Payment (StorePayment): the orders follow the money and live as          *)
(* StoreOrderLife says, for any number of orders, webhooks and requests of  *)
(* the page, when FAILED is only told of invoices that cannot be paid any   *)
(* more.  The argument (PaymentInv): everything that is under way -- a      *)
(* notification, a handler, an answer -- speaks the truth about its invoice *)
(* or its order, and what is final stays.                                  *)
(***************************************************************************)
EXTENDS StoreCheckout, StorePayment, FiniteSums

-----------------------------------------------------------------------------
(* Cart and checkout *)


\* What CallRecords says without the bounds.
Records == [op : Ops, qty : Nat, previous : Nat,
            at : {"idle", "profile", "sent", "read", "invoice", "done", "failed"},
            read : Nat]

\* The types without the bounds, which hold of buyers who do not wait, too.
Shape ==
  /\ shown \in [Buyers -> [Tabs -> Nat]]
  /\ call \in [Buyers -> [Calls -> Records]]
  /\ cart \in [Buyers -> Nat]
  /\ lock \in [Buyers -> Calls \cup {None}]
  /\ stock \in Nat
  /\ ordered \in [Buyers -> Nat]
  /\ put \in [Buyers -> Int]
  /\ stale \in [Buyers -> SUBSET Tabs]

\* A call is the only one under way, but for several checkouts.
Alone(b) ==
  \A c, d \in Calls :
    c # d /\ call[b][c].at # "idle" /\ call[b][d].at # "idle"
      => call[b][c].op = "order" /\ call[b][d].op = "order"

\* Where a call can be, and what it has read is still so.
CallOnItsWay(b, c) ==
  LET q == call[b][c] IN
  /\ q.at \in {"profile", "invoice"} => q.op = "order"
  /\ q.at = "read" => q.op = "add" /\ q.read = cart[b]
  /\ q.at = "invoice" => q.read = cart[b] /\ cart[b] # 0
  /\ q.at = "done" /\ q.op = "load" => q.read = cart[b]
  /\ q.at = "done" /\ q.op = "order" => cart[b] = 0
  /\ lock[b] = c <=> q.at = "invoice"

OnItsWay(b) == \A c \in Calls : CallOnItsWay(b, c)

\* The bounds on what a call asks for.
CallInBounds(b, c) ==
  LET q == call[b][c] IN
  /\ q.qty <= MaxPut /\ q.previous <= MaxPut /\ q.read <= MaxPut
  /\ q.op = "add" /\ q.at \in {"sent", "read"} => q.qty = 1 /\ put[b] < MaxPut
  /\ q.op = "set" /\ q.at = "sent" => q.qty > 0 /\ put[b] - cart[b] + q.qty <= MaxPut

InBounds(b) ==
  /\ put[b] <= MaxPut
  /\ \A t \in Tabs : shown[b][t] <= MaxPut
  /\ \A c \in Calls : CallInBounds(b, c)

\* What its tab shows of a call under way, and what it would put back.
CallShown(b, c) ==
  LET q == call[b][c] IN
  /\ q.op \in Changes /\ q.at \in {"sent", "read", "failed"} => q.previous = cart[b]
  /\ q.op = "add" /\ q.at \in {"sent", "read"} => Shows(b, c) = cart[b] + q.qty
  /\ q.op = "set" /\ q.at = "sent" => Shows(b, c) = q.qty
  /\ q.op = "remove" /\ q.at = "sent" => Shows(b, c) = 0
  /\ q.op = "order" /\ q.at \in {"profile", "sent", "invoice"} => q.qty = cart[b] \/ cart[b] = 0

CallsOf(b, t) == {c \in Calls : TabOf[b][c] = t}

\* The bag of the tab of a call is not out of date.
Fresh(b, c) == TabOf[b][c] \notin stale[b]

Changing(b, t) ==
  \E c \in CallsOf(b, t) : call[b][c].op \in Changes /\ call[b][c].at \notin {"idle", "done"}
Bought(b, t) ==
  cart[b] = 0 /\ \E c \in CallsOf(b, t) : call[b][c].op = "order" /\ call[b][c].at = "done"

\* What a tab shows while its bag is not out of date.
TabFits(b, t) ==
  t \notin stale[b] =>
    /\ \A c \in CallsOf(b, t) : CallShown(b, c)
    /\ shown[b][t] = cart[b] \/ Changing(b, t) \/ Bought(b, t)

ShownFits(b) == \A t \in Tabs : TabFits(b, t)

Fits(b) ==
  /\ cart[b] + ordered[b] = put[b]
  /\ Alone(b) /\ OnItsWay(b) /\ InBounds(b) /\ ShownFits(b)

InStock ==
  /\ stock <= Stock /\ stock + SumOver(ordered, Buyers) = Stock
  /\ \A b \in Buyers : ordered[b] + stock <= Stock

\* The stock is accounted for whatever buyers do; what fits of a buyer fits only while
\* nobody changes the bag with a change under way.
IInv == Shape /\ InStock /\ \A b \in Buyers : ~Overlap => Fits(b)

----------------------------------------------------------------------------
(* What a step of one call leaves alone *)

Others(b, c) ==
  /\ \A x \in Buyers \ {b} :
       /\ shown'[x] = shown[x] /\ call'[x] = call[x] /\ cart'[x] = cart[x] /\ lock'[x] = lock[x]
       /\ ordered'[x] = ordered[x] /\ put'[x] = put[x] /\ stale'[x] = stale[x]
  /\ \A d \in Calls \ {c} : call'[b][d] = call[b][d]

Keeps(b, c) == Shape' /\ Others(b, c) /\ (~Overlap /\ Fits(b) => Fits(b)')

LEMMA CallIs ==
  ASSUME Shape, NEW b \in Buyers, NEW c \in Calls, NEW v \in Records, SetCall(b, c, v)
  PROVE  /\ call' \in [Buyers -> [Calls -> Records]]
         /\ call'[b][c] = v
         /\ \A d \in Calls \ {c} : call'[b][d] = call[b][d]
         /\ \A x \in Buyers \ {b} : call'[x] = call[x]
  BY DEF SetCall, Shape

\* The call goes on to "at" and has read "read".
Now(b, c, at, read) ==
  /\ call' \in [Buyers -> [Calls -> Records]]
  /\ call'[b][c].op = call[b][c].op /\ call'[b][c].qty = call[b][c].qty
  /\ call'[b][c].previous = call[b][c].previous
  /\ call'[b][c].at = at /\ call'[b][c].read = read
  /\ \A d \in Calls \ {c} : call'[b][d] = call[b][d]
  /\ \A x \in Buyers \ {b} : call'[x] = call[x]

Ats == {"idle", "profile", "sent", "read", "invoice", "done", "failed"}

LEMMA Goes ==
  ASSUME Shape, NEW b \in Buyers, NEW c \in Calls, NEW at \in Ats,
         SetCall(b, c, [call[b][c] EXCEPT !.at = at])
  PROVE  Now(b, c, at, call[b][c].read)
  <1> DEFINE v == [call[b][c] EXCEPT !.at = at]
  <1>1. call[b][c] \in Records
    BY DEF Shape
  <1>2. /\ v \in Records /\ v.op = call[b][c].op /\ v.qty = call[b][c].qty
        /\ v.previous = call[b][c].previous /\ v.at = at /\ v.read = call[b][c].read
    BY <1>1 DEF Records, Ats
  <1> HIDE DEF v
  <1>3. SetCall(b, c, v)
    BY DEF v
  <1> QED BY <1>2, <1>3, CallIs DEF Now

LEMMA GoesReading ==
  ASSUME Shape, NEW b \in Buyers, NEW c \in Calls, NEW at \in Ats, NEW read \in Nat,
         SetCall(b, c, [call[b][c] EXCEPT !.at = at, !.read = read])
  PROVE  Now(b, c, at, read)
  <1> DEFINE v == [call[b][c] EXCEPT !.at = at, !.read = read]
  <1>1. call[b][c] \in Records
    BY DEF Shape
  <1>2. /\ v \in Records /\ v.op = call[b][c].op /\ v.qty = call[b][c].qty
        /\ v.previous = call[b][c].previous /\ v.at = at /\ v.read = read
    BY <1>1 DEF Records, Ats
  <1> HIDE DEF v
  <1>3. SetCall(b, c, v)
    BY DEF v
  <1> QED BY <1>2, <1>3, CallIs DEF Now

\* One tab shows something else.
ShowsOnly(b, c, value) ==
  /\ shown' \in [Buyers -> [Tabs -> Nat]]
  /\ shown'[b][TabOf[b][c]] = value
  /\ \A u \in Tabs \ {TabOf[b][c]} : shown'[b][u] = shown[b][u]
  /\ \A x \in Buyers \ {b} : shown'[x] = shown[x]

LEMMA ShowIs ==
  ASSUME Shape, NEW b \in Buyers, NEW c \in Calls, NEW value \in Nat, Show(b, c, value)
  PROVE  ShowsOnly(b, c, value)
  <1> DEFINE t == TabOf[b][c]
             row == [shown[b] EXCEPT ![t] = value]
  <1>1. t \in Tabs /\ shown \in [Buyers -> [Tabs -> Nat]]
    BY CheckoutAssumption DEF Shape
  <1>2. row \in [Tabs -> Nat] /\ row[t] = value /\ \A u \in Tabs \ {t} : row[u] = shown[b][u]
    BY <1>1
  <1>3. shown' = [shown EXCEPT ![b] = row]
    BY DEF Show
  <1> HIDE DEF row
  <1>4. /\ shown' \in [Buyers -> [Tabs -> Nat]] /\ shown'[b] = row
        /\ \A x \in Buyers \ {b} : shown'[x] = shown[x]
    BY <1>1, <1>2, <1>3
  <1> QED BY <1>2, <1>4 DEF ShowsOnly

\* What another tab shows when the cart stays as it is.
LEMMA OtherTabs ==
  ASSUME NEW b \in Buyers, NEW c \in Calls, NEW u \in Tabs \ {TabOf[b][c]}, TabFits(b, u),
         cart'[b] = cart[b], \A d \in Calls \ {c} : call'[b][d] = call[b][d],
         shown'[b][u] = shown[b][u], u \in stale[b] => u \in stale'[b]
  PROVE  TabFits(b, u)'
  <1> SUFFICES ASSUME u \notin stale'[b]
               PROVE  /\ \A d \in CallsOf(b, u) : CallShown(b, d)'
                      /\ shown'[b][u] = cart'[b] \/ Changing(b, u)' \/ Bought(b, u)'
    BY DEF TabFits, CallsOf
  <1>1. \A d \in CallsOf(b, u) : call'[b][d] = call[b][d] /\ TabOf[b][d] = u
    BY DEF CallsOf
  <1>2. /\ \A d \in CallsOf(b, u) : CallShown(b, d)
        /\ shown[b][u] = cart[b] \/ Changing(b, u) \/ Bought(b, u)
    BY DEF TabFits
  <1>3. \A d \in CallsOf(b, u) : CallShown(b, d)'
    BY <1>1, <1>2 DEF CallShown, Shows
  <1>4. (Changing(b, u) => Changing(b, u)') /\ (Bought(b, u) => Bought(b, u)')
    BY <1>1 DEF Changing, Bought, CallsOf
  <1> QED BY <1>2, <1>3, <1>4

----------------------------------------------------------------------------
(* The browser starts a call *)

Begun(b, c, op, qty, at, display) ==
  /\ ShowsOnly(b, c, display)
  /\ call' \in [Buyers -> [Calls -> Records]]
  /\ call[b][c].at = "idle" /\ (\A d \in Calls : call[b][d].at # "idle" => op = "order" /\ call[b][d].op = "order")
  /\ call'[b][c].op = op /\ call'[b][c].qty = qty /\ call'[b][c].previous = Shows(b, c)
  /\ call'[b][c].at = at /\ call'[b][c].read = 0
  /\ UNCHANGED <<cart, lock, stock, ordered, put, stale>>

LEMMA StartIs ==
  ASSUME Shape, NEW b \in Buyers, NEW c \in Calls, NEW op \in Ops, NEW qty \in Nat, NEW at \in Ats,
         NEW display \in Nat, Start(b, c, op, qty, at, display)
  PROVE  Shape' /\ Others(b, c) /\ (~Overlap => Begun(b, c, op, qty, at, display))
  <1> DEFINE v == [op |-> op, qty |-> qty, previous |-> Shows(b, c), at |-> at, read |-> 0]
  <1>1. /\ v \in Records /\ v.op = op /\ v.qty = qty /\ v.previous = Shows(b, c)
        /\ v.at = at /\ v.read = 0
    BY CheckoutAssumption DEF Shape, Records, Ats, Shows
  <1>2. SetCall(b, c, v)
    BY DEF Start
  <1> HIDE DEF v
  <1>3. /\ Show(b, c, display)
        /\ UNCHANGED <<cart, lock, stock, ordered, put, stale>>
    BY DEF Start, database
  <1>4. ShowsOnly(b, c, display)
    BY <1>3, ShowIs
  <1>5. /\ call' \in [Buyers -> [Calls -> Records]] /\ call'[b][c] = v
        /\ \A d \in Calls \ {c} : call'[b][d] = call[b][d]
        /\ \A x \in Buyers \ {b} : call'[x] = call[x]
    BY <1>1, <1>2, CallIs
  <1>6. /\ call[b][c].at = "idle"
        /\ ~Overlap => \A d \in Calls : call[b][d].at # "idle" => op = "order" /\ call[b][d].op = "order"
    BY DEF Start, MayStart, UnderWay
  <1>7. Shape'
    BY <1>3, <1>4, <1>5 DEF Shape, ShowsOnly
  <1>8. Others(b, c)
    BY <1>3, <1>4, <1>5 DEF Others, ShowsOnly
  <1> QED BY <1>1, <1>3, <1>4, <1>5, <1>6, <1>7, <1>8 DEF Begun

\* What the five calls of the browser ask for, and what it shows at once.
Asked(b, c, op, qty, at, display) ==
  /\ qty \in 0..MaxPut /\ display \in 0..MaxPut
  /\ \/ op = "add" /\ qty = 1 /\ at = "sent" /\ display = Shows(b, c) + 1 /\ put[b] < MaxPut
     \/ op = "set" /\ at = "sent" /\ display = qty /\ qty > 0 /\ put[b] - cart[b] + qty <= MaxPut
     \/ op = "remove" /\ at = "sent" /\ display = 0
     \/ op = "order" /\ at = "profile" /\ display = Shows(b, c) /\ qty = Shows(b, c)
     \/ op = "load" /\ at = "sent" /\ display = Shows(b, c)

LEMMA StartFits ==
  ASSUME Shape, Shape', ~Overlap, NEW b \in Buyers, NEW c \in Calls, NEW op, NEW qty, NEW at, NEW display,
         Fits(b), Asked(b, c, op, qty, at, display), Begun(b, c, op, qty, at, display), Others(b, c)
  PROVE  Fits(b)'
  <1>1. Alone(b)'
    BY DEF Alone, Begun, Others
  <1>2. OnItsWay(b)'
    BY DEF Fits, OnItsWay, CallOnItsWay, Begun, Others, Asked
  <1>3. InBounds(b)'
    <2>1. put'[b] <= MaxPut /\ \A t \in Tabs : shown'[b][t] <= MaxPut
      BY DEF Asked, Fits, InBounds, Begun, ShowsOnly
    <2>2. CallInBounds(b, c)'
      <3>1. Shows(b, c) <= MaxPut
        BY CheckoutAssumption DEF Fits, InBounds, Shows
      <3> QED BY <3>1, CheckoutAssumption DEF Asked, Fits, InBounds, CallInBounds, Begun, Shape
    <2>3. ASSUME NEW d \in Calls \ {c} PROVE CallInBounds(b, d)'
      BY DEF Fits, InBounds, CallInBounds, Begun, Others
    <2> QED BY <2>1, <2>2, <2>3 DEF InBounds
  <1> DEFINE t == TabOf[b][c]
  <1>4. ASSUME t \notin stale'[b]
        PROVE  /\ \A d \in CallsOf(b, t) : CallShown(b, d)'
               /\ shown'[b][t] = cart'[b] \/ Changing(b, t)' \/ Bought(b, t)'
    <2>0. t \in Tabs /\ shown[b][t] = Shows(b, c) /\ shown'[b][t] = display /\ Shows(b, c)' = display
      BY CheckoutAssumption DEF Shows, Begun, ShowsOnly
    <2>1. /\ \A d \in CallsOf(b, t) : CallShown(b, d)
          /\ shown[b][t] = cart[b] \/ Changing(b, t) \/ Bought(b, t)
      BY <1>4, <2>0 DEF Fits, ShownFits, TabFits, Begun
    <2>2. /\ op # "order" => shown[b][t] = cart[b]
          /\ op = "order" => shown[b][t] = cart[b] \/ cart[b] = 0
      BY <2>1 DEF Changing, Bought, Begun, Changes, CallsOf
    <2>3. CallShown(b, c)'
      BY <2>0, <2>2 DEF CallShown, Begun, Changes, Shape, Asked
    <2>4. ASSUME NEW d \in CallsOf(b, t) \ {c} PROVE CallShown(b, d)'
      BY <2>1 DEF CallShown, Begun, Others, Changes, CallsOf
    <2>5. CASE op \in {"order", "load"}
      <3>1. Bought(b, t) => Bought(b, t)'
        BY DEF Bought, Begun, Others, CallsOf
      <3>2. shown'[b][t] = cart'[b] \/ Bought(b, t)'
        BY <2>0, <2>1, <2>2, <2>5, <3>1 DEF Changing, Begun, Changes, Asked, CallsOf
      <3> QED BY <2>3, <2>4, <3>2
    <2>6. CASE op \in Changes
      <3>1. c \in CallsOf(b, t) /\ call'[b][c].op \in Changes /\ call'[b][c].at \notin {"idle", "done"}
        BY <2>6 DEF Begun, Changes, Asked, CallsOf
      <3> QED BY <2>3, <2>4, <3>1 DEF Changing, CallsOf
    <2> QED BY <2>5, <2>6 DEF Asked, Changes
  <1>5. ShownFits(b)'
    <2>1. TabFits(b, t)'
      BY <1>4 DEF TabFits, CallsOf
    <2>2. ASSUME NEW u \in Tabs \ {t} PROVE TabFits(b, u)'
      BY OtherTabs DEF Fits, ShownFits, Begun, ShowsOnly, Others
    <2> QED BY <2>1, <2>2 DEF ShownFits
  <1> QED BY <1>1, <1>2, <1>3, <1>5 DEF Fits, Begun

\* The browser starts only what keeps the bounds.
LEMMA BuyerKeeps ==
  ASSUME Shape, NEW b \in Buyers, NEW c \in Calls, Buyer(b, c)
  PROVE  Keeps(b, c)
  <1> USE CheckoutAssumption
  <1> DEFINE Fair(op, qty, at, display) ==
               /\ op \in Ops /\ qty \in Nat /\ at \in Ats /\ display \in Nat
               /\ Start(b, c, op, qty, at, display)
               /\ Fits(b) => Asked(b, c, op, qty, at, display)
  <1>1. \E op, qty, at, display : Fair(op, qty, at, display)
    <2>0. Shows(b, c) \in Nat /\ (Fits(b) => Shows(b, c) <= MaxPut)
      BY DEF Shape, Fits, InBounds, Shows
    <2>1. CASE AddToCart(b, c)
      <3>1. Fair("add", 1, "sent", Shows(b, c) + 1)
        BY <2>0, <2>1 DEF AddToCart, Shape, Ops, Changes, Ats, Asked
      <3> QED BY <3>1
    <2>2. ASSUME NEW qty \in 1..MaxQty, UpdateQuantity(b, c, qty)
          PROVE  \E op, n, at, display : Fair(op, n, at, display)
      <3>1. Fair("set", qty, "sent", qty)
        BY <2>2 DEF UpdateQuantity, Shape, Ops, Changes, Ats, Asked
      <3> QED BY <3>1
    <2>3. CASE RemoveFromCart(b, c)
      <3>1. Fair("remove", 0, "sent", 0)
        BY <2>3 DEF RemoveFromCart, Ops, Changes, Ats, Asked
      <3> QED BY <3>1
    <2>4. CASE Submit(b, c)
      <3>1. Fair("order", Shows(b, c), "profile", Shows(b, c))
        BY <2>0, <2>4 DEF Submit, Shape, Ops, Changes, Ats, Asked
      <3> QED BY <3>1
    <2>5. CASE RefreshCommerce(b, c)
      <3>1. Fair("load", 0, "sent", Shows(b, c))
        BY <2>0, <2>5 DEF RefreshCommerce, Shape, Ops, Changes, Ats, Asked
      <3> QED BY <3>1
    <2> QED BY <2>1, <2>2, <2>3, <2>4, <2>5 DEF Buyer
  <1>2. PICK op, qty, at, display : Fair(op, qty, at, display)
    BY <1>1
  <1>3. Shape' /\ Others(b, c) /\ (~Overlap => Begun(b, c, op, qty, at, display))
    BY <1>2, StartIs
  <1>4. ASSUME ~Overlap, Fits(b) PROVE Fits(b)'
    <2>1. Asked(b, c, op, qty, at, display)
      BY <1>2, <1>4
    <2>2. Begun(b, c, op, qty, at, display)
      BY <1>3, <1>4
    <2> QED BY <1>3, <1>4, <2>1, <2>2, StartFits
  <1> QED BY <1>3, <1>4 DEF Keeps

----------------------------------------------------------------------------
(* The server goes on with a call *)

\* Steps that change nothing but the call and the lock.
Advances(b, c, at, read) ==
  LET q == call[b][c] IN
  /\ UNCHANGED <<shown, cart, ordered, put, stale>>
  /\ lock'[b] = IF at = "invoice" THEN c ELSE IF lock[b] = c THEN None ELSE lock[b]
  /\ \/ q.at = "profile" /\ at \in {"sent", "failed"} /\ read = q.read
     \/ q.op = "add" /\ q.at = "sent" /\ at = "read" /\ read = cart[b]
     \/ q.op = "load" /\ q.at = "sent" /\ at = "done" /\ read = cart[b]
     \/ q.at \in {"sent", "read"} /\ at = "failed" /\ read = q.read
     \/ /\ q.op = "order" /\ q.at = "sent" /\ at = "invoice" /\ read = cart[b]
        /\ cart[b] # 0 /\ lock[b] = None
     \/ q.op = "order" /\ q.at = "invoice" /\ at = "failed" /\ read = q.read

LEMMA AdvanceFits ==
  ASSUME Shape, Shape', NEW b \in Buyers, NEW c \in Calls, NEW at, NEW read,
         Fits(b), Advances(b, c, at, read), Now(b, c, at, read), Others(b, c)
  PROVE  Fits(b)'
  <1>1. Alone(b)'
    BY DEF Fits, Alone, Now, Others, Advances
  <1>2. OnItsWay(b)'
    <2>2. CallOnItsWay(b, c)
      BY DEF Fits, OnItsWay
    <2>3. CallOnItsWay(b, c)'
      BY <2>2, CheckoutAssumption DEF CallOnItsWay, Now, Advances
    <2>4. ASSUME NEW d \in Calls \ {c} PROVE CallOnItsWay(b, d)'
      <3>1. CallOnItsWay(b, d) /\ (lock'[b] = d <=> lock[b] = d)
        BY <2>2, CheckoutAssumption DEF Fits, OnItsWay, CallOnItsWay, Advances
      <3> QED BY <3>1 DEF CallOnItsWay, Others, Advances
    <2> QED BY <2>3, <2>4 DEF OnItsWay
  <1>3. InBounds(b)'
    <2>1. CallInBounds(b, c)'
      <3>1. CallInBounds(b, c) /\ cart[b] <= MaxPut
        BY CheckoutAssumption DEF Fits, InBounds, Shape
      <3>2. call'[b][c].qty = call[b][c].qty /\ call'[b][c].previous = call[b][c].previous
        BY DEF Now
      <3>3. read <= MaxPut /\ UNCHANGED <<put, cart>>
        BY <3>1 DEF Advances, CallInBounds
      <3>4. call'[b][c].op = "add" /\ at \in {"sent", "read"} => call[b][c].op = "add" /\ call[b][c].at = "sent"
        BY DEF Advances, Now, Fits, OnItsWay, CallOnItsWay
      <3>5. call'[b][c].op = "set" /\ at = "sent" => call[b][c].op = "set" /\ call[b][c].at = "sent"
        BY DEF Advances, Now, Fits, OnItsWay, CallOnItsWay
      <3> QED BY <3>1, <3>2, <3>3, <3>4, <3>5 DEF CallInBounds, Now
    <2>2. ASSUME NEW d \in Calls \ {c} PROVE CallInBounds(b, d)'
      BY DEF Fits, InBounds, CallInBounds, Others, Advances
    <2> QED BY <2>1, <2>2 DEF Fits, InBounds, Advances
  <1>4. ShownFits(b)'
    <2> DEFINE t == TabOf[b][c]
    <2>1. TabFits(b, t)'
      <3> SUFFICES ASSUME t \notin stale'[b]
                   PROVE  /\ \A d \in CallsOf(b, t) : CallShown(b, d)'
                          /\ shown'[b][t] = cart'[b] \/ Changing(b, t)' \/ Bought(b, t)'
        BY DEF TabFits, CallsOf
      <3>1. /\ \A d \in CallsOf(b, t) : CallShown(b, d)
            /\ shown[b][t] = cart[b] \/ Changing(b, t) \/ Bought(b, t)
        BY CheckoutAssumption DEF Fits, ShownFits, TabFits, Advances
      <3>2. CallShown(b, c)'
        <4>1. CallShown(b, c) /\ CallOnItsWay(b, c)
          BY <3>1 DEF Fits, OnItsWay, CallsOf
        <4> QED BY <4>1 DEF CallShown, CallOnItsWay, Now, Changes, Advances, Shows
      <3>3. ASSUME NEW d \in CallsOf(b, t) \ {c} PROVE CallShown(b, d)'
        BY <3>1 DEF CallShown, Others, Changes, Advances, CallsOf, Shows
      <3>4. Changing(b, t) => Changing(b, t)'
        BY DEF Changing, Now, Others, Advances, Fits, OnItsWay, CallOnItsWay, Changes, CallsOf
      <3>5. Bought(b, t) => Bought(b, t)'
        BY DEF Bought, Now, Others, Advances, CallsOf
      <3> QED BY <3>1, <3>2, <3>3, <3>4, <3>5 DEF Advances
    <2>2. ASSUME NEW u \in Tabs \ {t} PROVE TabFits(b, u)'
      BY OtherTabs DEF Fits, ShownFits, Advances, Others
    <2> QED BY <2>1, <2>2 DEF ShownFits
  <1> QED BY <1>1, <1>2, <1>3, <1>4 DEF Fits, Advances

Unwritten == UNCHANGED <<shown, cart, stock, ordered, put, stale>>

\* A step that only moves the call keeps the types and the others.
LEMMA MovesOnly ==
  ASSUME Shape, NEW b \in Buyers, NEW c \in Calls, NEW at, NEW read, Now(b, c, at, read), Unwritten,
         lock' \in [Buyers -> Calls \cup {None}], \A x \in Buyers \ {b} : lock'[x] = lock[x]
  PROVE  Shape' /\ Others(b, c)
  BY DEF Shape, Others, Now, Unwritten

MovesOn(b, c) ==
  \/ SaveProfile(b, c) \/ AddRead(b, c) \/ LoadCart(b, c) \/ SetMissing(b, c) \/ Refused(b, c)
  \/ BeginOrder(b, c) \/ RefuseOrder(b, c) \/ RollbackOrder(b, c)

LEMMA MovesOnIs ==
  ASSUME Shape, NEW b \in Buyers, NEW c \in Calls, MovesOn(b, c)
  PROVE  \E at \in Ats, read \in Nat :
           Now(b, c, at, read) /\ Shape' /\ Others(b, c) /\ (Fits(b) => Advances(b, c, at, read))
  <1> USE DEF Ats, Handling, Failed, database, Unwritten
  <1> DEFINE q == call[b][c]
             Goal(at, read) == Now(b, c, at, read) /\ Shape' /\ Others(b, c)
                               /\ (Fits(b) => Advances(b, c, at, read))
  <1>1. cart[b] \in Nat /\ q.read \in Nat /\ q \in Records /\ lock[b] \in Calls \cup {None}
    BY DEF Shape, Records
  <1>2. Fits(b) => (lock[b] = c <=> q.at = "invoice")
    BY DEF Fits, OnItsWay, CallOnItsWay
  <1>3. UNCHANGED lock => lock' \in [Buyers -> Calls \cup {None}] /\ \A x \in Buyers : lock'[x] = lock[x]
    BY DEF Shape
  <1>4. CASE SaveProfile(b, c)
    <2>1. PICK at \in {"sent", "failed"} : SetCall(b, c, [call[b][c] EXCEPT !.at = at])
      BY <1>4 DEF SaveProfile
    <2>2. q.at = "profile" /\ Unwritten /\ UNCHANGED lock
      BY <1>4 DEF SaveProfile
    <2>3. Now(b, c, at, q.read)
      BY <2>1, Goes
    <2>4. Goal(at, q.read)
      BY <1>2, <1>3, <2>2, <2>3, MovesOnly DEF Advances
    <2> QED BY <1>1, <2>4
  <1>5. CASE AddRead(b, c)
    <2>1. q.op = "add" /\ q.at = "sent" /\ Unwritten /\ UNCHANGED lock
      BY <1>5 DEF AddRead
    <2>2. Now(b, c, "read", cart[b])
      BY <1>1, <1>5, GoesReading DEF AddRead
    <2>3. Goal("read", cart[b])
      BY <1>2, <1>3, <2>1, <2>2, MovesOnly DEF Advances
    <2> QED BY <1>1, <2>3
  <1>6. CASE LoadCart(b, c)
    <2>1. q.op = "load" /\ q.at = "sent" /\ Unwritten /\ UNCHANGED lock
      BY <1>6 DEF LoadCart
    <2>2. Now(b, c, "done", cart[b])
      BY <1>1, <1>6, GoesReading DEF LoadCart
    <2>3. Goal("done", cart[b])
      BY <1>2, <1>3, <2>1, <2>2, MovesOnly DEF Advances
    <2> QED BY <1>1, <2>3
  <1>7. CASE SetMissing(b, c)
    <2>1. q.at = "sent" /\ Unwritten /\ UNCHANGED lock
      BY <1>7 DEF SetMissing
    <2>2. Now(b, c, "failed", q.read)
      BY <1>1, <1>7, Goes DEF SetMissing
    <2>3. Goal("failed", q.read)
      BY <1>2, <1>3, <2>1, <2>2, MovesOnly DEF Advances
    <2> QED BY <1>1, <2>3
  <1>8. CASE Refused(b, c)
    <2>1. q.at \in {"sent", "read"} /\ Unwritten /\ UNCHANGED lock
      BY <1>8 DEF Refused
    <2>2. Now(b, c, "failed", q.read)
      BY <1>1, <1>8, Goes DEF Refused
    <2>3. Goal("failed", q.read)
      BY <1>2, <1>3, <2>1, <2>2, MovesOnly DEF Advances
    <2> QED BY <1>1, <2>3
  <1>9. CASE RefuseOrder(b, c)
    <2>1. q.at = "sent" /\ Unwritten /\ UNCHANGED lock
      BY <1>9 DEF RefuseOrder
    <2>2. Now(b, c, "failed", q.read)
      BY <1>1, <1>9, Goes DEF RefuseOrder
    <2>3. Goal("failed", q.read)
      BY <1>2, <1>3, <2>1, <2>2, MovesOnly DEF Advances
    <2> QED BY <1>1, <2>3
  <1>10. CASE BeginOrder(b, c)
    <2>1. /\ q.op = "order" /\ q.at = "sent" /\ lock[b] = None /\ cart[b] # 0 /\ Unwritten
          /\ lock' = [lock EXCEPT ![b] = c]
      BY <1>10 DEF BeginOrder, Unlocked, LocksCart
    <2>2. /\ lock' \in [Buyers -> Calls \cup {None}] /\ lock'[b] = c
          /\ \A x \in Buyers \ {b} : lock'[x] = lock[x]
      BY <2>1 DEF Shape
    <2>3. Now(b, c, "invoice", cart[b])
      BY <1>1, <1>10, GoesReading DEF BeginOrder
    <2>4. Goal("invoice", cart[b])
      BY <2>1, <2>2, <2>3, MovesOnly DEF Advances
    <2> QED BY <1>1, <2>4
  <1>11. CASE RollbackOrder(b, c)
    <2>1. /\ q.op = "order" /\ q.at = "invoice" /\ Unwritten
          /\ lock' = [lock EXCEPT ![b] = IF @ = c THEN None ELSE @]
      BY <1>11 DEF RollbackOrder, Unlock
    <2>2. /\ lock' \in [Buyers -> Calls \cup {None}] /\ lock'[b] = IF lock[b] = c THEN None ELSE lock[b]
          /\ \A x \in Buyers \ {b} : lock'[x] = lock[x]
      BY <2>1 DEF Shape
    <2>3. Now(b, c, "failed", q.read)
      BY <1>1, <1>11, Goes DEF RollbackOrder
    <2>4. Goal("failed", q.read)
      BY <2>1, <2>2, <2>3, MovesOnly DEF Advances
    <2> QED BY <1>1, <2>4
  <1> QED BY <1>4, <1>5, <1>6, <1>7, <1>8, <1>9, <1>10, <1>11 DEF MovesOn

LEMMA MovesOnKeeps ==
  ASSUME Shape, NEW b \in Buyers, NEW c \in Calls, MovesOn(b, c)
  PROVE  Keeps(b, c)
  BY MovesOnIs, AdvanceFits DEF Keeps

----------------------------------------------------------------------------
(* The answered changes of the cart *)

Replies(b, c) ==
  \E arrives \in BOOLEAN :
    /\ Now(b, c, IF arrives THEN "done" ELSE "failed", call[b][c].read)
    /\ stale' \in [Buyers -> SUBSET Tabs]
    /\ stale'[b] = IF arrives THEN stale[b] \cup (Tabs \ {TabOf[b][c]}) ELSE Tabs
    /\ \A x \in Buyers \ {b} : stale'[x] = stale[x]

LEMMA AnsweredIs ==
  ASSUME Shape, NEW b \in Buyers, NEW c \in Calls, Answered(b, c)
  PROVE  Replies(b, c)
  <1>1. PICK arrives \in BOOLEAN :
          /\ SetCall(b, c, [call[b][c] EXCEPT !.at = IF arrives THEN "done" ELSE "failed"])
          /\ stale' = [stale EXCEPT ![b] = IF arrives THEN @ \cup (Tabs \ {TabOf[b][c]}) ELSE Tabs]
    BY DEF Answered
  <1>2. Now(b, c, IF arrives THEN "done" ELSE "failed", call[b][c].read)
    <2>1. CASE arrives
      BY <1>1, <2>1, Goes DEF Ats
    <2>2. CASE ~arrives
      BY <1>1, <2>2, Goes DEF Ats
    <2> QED BY <2>1, <2>2
  <1>3. /\ stale' \in [Buyers -> SUBSET Tabs]
        /\ stale'[b] = IF arrives THEN stale[b] \cup (Tabs \ {TabOf[b][c]}) ELSE Tabs
        /\ \A x \in Buyers \ {b} : stale'[x] = stale[x]
    BY <1>1 DEF Shape
  <1> QED BY <1>2, <1>3 DEF Replies

LEMMA ChangeFits ==
  ASSUME Shape, Shape', NEW b \in Buyers, NEW c \in Calls, NEW new \in Nat, Fits(b),
         call[b][c].op \in Changes, call[b][c].at \in {"sent", "read"},
         cart'[b] = new, put'[b] = put[b] + new - cart[b], put'[b] <= MaxPut,
         Fresh(b, c) => Shows(b, c) = new,
         UNCHANGED <<shown, lock, ordered>>, Replies(b, c), Others(b, c)
  PROVE  Fits(b)'
  <1>1. PICK arrives \in BOOLEAN :
          /\ Now(b, c, IF arrives THEN "done" ELSE "failed", call[b][c].read)
          /\ stale'[b] = IF arrives THEN stale[b] \cup (Tabs \ {TabOf[b][c]}) ELSE Tabs
    BY DEF Replies
  <1>2. \A d \in Calls \ {c} : call[b][d].at = "idle" /\ call'[b][d] = call[b][d]
    BY DEF Fits, Alone, Changes, Others
  <1>3. /\ call'[b][c].op = call[b][c].op /\ call'[b][c].qty = call[b][c].qty
        /\ call'[b][c].previous = call[b][c].previous /\ call'[b][c].read = call[b][c].read
        /\ call'[b][c].at \in {"done", "failed"} /\ (stale'[b] # Tabs => call'[b][c].at = "done")
    BY <1>1 DEF Now
  <1>4. cart'[b] + ordered'[b] = put'[b]
    BY DEF Fits, Shape
  <1>5. Alone(b)'
    BY <1>2 DEF Alone
  <1>6. OnItsWay(b)'
    BY <1>2, <1>3 DEF Fits, OnItsWay, CallOnItsWay, Changes
  <1>7. InBounds(b)'
    BY <1>2, <1>3 DEF Fits, InBounds, CallInBounds
  <1>8. ShownFits(b)'
    <2> SUFFICES ASSUME NEW t \in Tabs, t \notin stale'[b]
                 PROVE  (\A d \in Calls : CallShown(b, d)') /\ shown'[b][t] = cart'[b]
      BY DEF ShownFits, TabFits, CallsOf
    <2>1. \A d \in Calls : call'[b][d].at \in {"idle", "done"}
      BY <1>2, <1>3
    <2>2. t = TabOf[b][c] /\ t \notin stale[b]
      BY <1>1
    <2> QED BY <2>1, <2>2 DEF CallShown, Shows, Fresh
  <1> QED BY <1>4, <1>5, <1>6, <1>7, <1>8 DEF Fits

\* The handlers that write the cart, each with the quantity it writes.
Changed(b, c, new, added) ==
  /\ call[b][c].op \in Changes /\ call[b][c].at \in {"sent", "read"}
  /\ cart' = [cart EXCEPT ![b] = new] /\ put' = [put EXCEPT ![b] = @ + added]
  /\ Answered(b, c) /\ UNCHANGED <<shown, lock, stock, ordered>>
  /\ Fits(b) => /\ added = new - cart[b] /\ put[b] + added <= MaxPut
                /\ Fresh(b, c) => Shows(b, c) = new

LEMMA ChangedKeeps ==
  ASSUME Shape, NEW b \in Buyers, NEW c \in Calls, NEW new \in Nat, NEW added \in Int,
         Changed(b, c, new, added)
  PROVE  Keeps(b, c)
  <1>1. Replies(b, c)
    BY AnsweredIs DEF Changed
  <1>2. /\ cart' \in [Buyers -> Nat] /\ cart'[b] = new /\ \A x \in Buyers \ {b} : cart'[x] = cart[x]
        /\ put' \in [Buyers -> Int] /\ put'[b] = put[b] + added /\ \A x \in Buyers \ {b} : put'[x] = put[x]
    BY DEF Changed, Shape
  <1>3. Shape' /\ Others(b, c)
    BY <1>1, <1>2 DEF Changed, Shape, Others, Replies, Now
  <1>4. ASSUME Fits(b) PROVE Fits(b)'
    <2>1. added = new - cart[b] /\ put[b] + added <= MaxPut /\ (Fresh(b, c) => Shows(b, c) = new)
      BY <1>4 DEF Changed
    <2>2. put'[b] = put[b] + new - cart[b] /\ put'[b] <= MaxPut
      BY <1>2, <2>1 DEF Shape
    <2> QED BY <1>1, <1>2, <1>3, <1>4, <2>1, <2>2, ChangeFits DEF Changed
  <1> QED BY <1>3, <1>4 DEF Keeps

LEMMA WriteKeeps ==
  ASSUME Shape, NEW b \in Buyers, NEW c \in Calls,
         AddWrite(b, c) \/ SetCart(b, c) \/ RemoveCart(b, c)
  PROVE  Keeps(b, c)
  <1> DEFINE q == call[b][c]
  <1>1. q.qty \in Nat /\ q.read \in Nat /\ cart[b] \in Nat /\ put[b] \in Int /\ ordered[b] \in Nat
    BY DEF Shape, Records
  <1>2. Fits(b) => /\ cart[b] + ordered[b] = put[b] /\ CallOnItsWay(b, c) /\ CallInBounds(b, c)
                   /\ put[b] <= MaxPut /\ (Fresh(b, c) => CallShown(b, c))
    BY CheckoutAssumption DEF Fits, OnItsWay, InBounds, ShownFits, TabFits, CallsOf, Fresh
  <1>3. CASE AddWrite(b, c)
    <2>1. Fits(b) => q.read = cart[b] /\ q.qty = 1 /\ put[b] < MaxPut /\ (Fresh(b, c) => Shows(b, c) = cart[b] + q.qty)
      BY <1>2, <1>3 DEF AddWrite, Handling, CallOnItsWay, CallInBounds, CallShown
    <2>2. Fits(b) => /\ q.qty = (q.read + q.qty) - cart[b] /\ put[b] + q.qty <= MaxPut
                     /\ Fresh(b, c) => Shows(b, c) = q.read + q.qty
      BY <1>1, <2>1, CheckoutAssumption
    <2>3. Changed(b, c, q.read + q.qty, q.qty)
      BY <1>1, <1>3, <2>2 DEF AddWrite, Handling, Changes, Changed
    <2>4. q.read + q.qty \in Nat /\ q.qty \in Int
      BY <1>1
    <2> HIDE DEF q
    <2> QED BY <2>3, <2>4, ChangedKeeps
  <1>4. CASE SetCart(b, c)
    <2>1. Fits(b) => put[b] - cart[b] + q.qty <= MaxPut /\ (Fresh(b, c) => Shows(b, c) = q.qty)
      BY <1>2, <1>4 DEF SetCart, Handling, CallInBounds, CallShown
    <2>2. put[b] + q.qty - cart[b] = put[b] + (q.qty - cart[b])
      BY <1>1
    <2>3. put[b] - cart[b] + q.qty = put[b] + (q.qty - cart[b])
      BY <1>1
    <2>4. put' = [put EXCEPT ![b] = @ + (q.qty - cart[b])]
      BY <1>4, <2>2 DEF SetCart, Put
    <2>5. Changed(b, c, q.qty, q.qty - cart[b])
      BY <1>4, <2>1, <2>3, <2>4 DEF SetCart, Put, Handling, Changes, Changed
    <2> QED BY <1>1, <2>5, ChangedKeeps
  <1>5. CASE RemoveCart(b, c)
    <2>1. Fits(b) /\ Fresh(b, c) => Shows(b, c) = 0
      BY <1>2, <1>5 DEF RemoveCart, Handling, CallShown
    <2>2. put[b] + 0 - cart[b] = put[b] + (0 - cart[b])
      BY <1>1
    <2>3. put' = [put EXCEPT ![b] = @ + (0 - cart[b])]
      BY <1>5, <2>2 DEF RemoveCart, Put
    <2>4. Fits(b) => put[b] + (0 - cart[b]) <= MaxPut
      BY <1>1, <1>2, CheckoutAssumption DEF Shape
    <2>5. Changed(b, c, 0, 0 - cart[b])
      BY <1>5, <2>1, <2>3, <2>4 DEF RemoveCart, Put, Handling, Changes, Changed
    <2>6. 0 \in Nat /\ 0 - cart[b] \in Int
      BY <1>1
    <2> HIDE DEF q
    <2> QED BY <2>5, <2>6, ChangedKeeps
  <1> QED BY <1>3, <1>4, <1>5

----------------------------------------------------------------------------
(* The commit of an order *)

LEMMA CommitFits ==
  ASSUME Shape, Shape', NEW b \in Buyers, NEW c \in Calls, Fits(b),
         call[b][c].op = "order", call[b][c].at = "invoice",
         cart'[b] = 0, ordered'[b] = ordered[b] + call[b][c].read,
         lock'[b] = IF lock[b] = c THEN None ELSE lock[b],
         UNCHANGED <<shown, put>>, Replies(b, c), Others(b, c)
  PROVE  Fits(b)'
  <1>1. PICK arrives \in BOOLEAN :
          /\ Now(b, c, IF arrives THEN "done" ELSE "failed", call[b][c].read)
          /\ stale'[b] = IF arrives THEN stale[b] \cup (Tabs \ {TabOf[b][c]}) ELSE Tabs
    BY DEF Replies
  <1>2. /\ call'[b][c].op = "order" /\ call'[b][c].qty = call[b][c].qty
        /\ call'[b][c].previous = call[b][c].previous /\ call'[b][c].read = call[b][c].read
        /\ call'[b][c].at \in {"done", "failed"} /\ (stale'[b] # Tabs => call'[b][c].at = "done")
    BY <1>1 DEF Now
  <1>3. call[b][c].read = cart[b] /\ lock[b] = c /\ lock'[b] = None
    BY DEF Fits, OnItsWay, CallOnItsWay
  <1>4. \A d \in Calls \ {c} :
          /\ call'[b][d] = call[b][d] /\ call[b][d].at # "invoice"
          /\ call[b][d].at # "idle" => call[b][d].op = "order"
    BY <1>3 DEF Fits, OnItsWay, CallOnItsWay, Alone, Others
  <1>5. cart'[b] + ordered'[b] = put'[b]
    BY <1>3 DEF Fits, Shape
  <1>6. Alone(b)'
    BY <1>2, <1>4 DEF Alone
  <1>7. OnItsWay(b)'
    BY <1>2, <1>3, <1>4, CheckoutAssumption DEF Fits, OnItsWay, CallOnItsWay
  <1>8. InBounds(b)'
    BY <1>2, <1>4 DEF Fits, InBounds, CallInBounds
  <1>9. ShownFits(b)'
    <2> SUFFICES ASSUME NEW t \in Tabs, t \notin stale'[b]
                 PROVE  (\A d \in CallsOf(b, t) : CallShown(b, d)') /\ Bought(b, t)'
      BY DEF ShownFits, TabFits, CallsOf
    <2>1. t = TabOf[b][c] /\ call'[b][c].at = "done"
      BY <1>1, <1>2
    <2>2. \A d \in CallsOf(b, t) : CallShown(b, d)'
      BY <1>2, <1>4 DEF CallShown, Changes, CallsOf
    <2> QED BY <1>2, <2>1, <2>2 DEF Bought, CallsOf
  <1> QED BY <1>5, <1>6, <1>7, <1>8, <1>9 DEF Fits

LEMMA CommitKeeps ==
  ASSUME Shape, NEW b \in Buyers, NEW c \in Calls, CommitOrder(b, c)
  PROVE  /\ Keeps(b, c)
         /\ call[b][c].read \in Nat /\ call[b][c].read <= stock
         /\ stock' = stock - call[b][c].read /\ ordered'[b] = ordered[b] + call[b][c].read
  <1> DEFINE read == call[b][c].read
  <1>1. read \in Nat /\ stock \in Nat /\ ordered[b] \in Nat /\ lock[b] \in Calls \cup {None}
    BY DEF Shape, Records
  <1>2. /\ call[b][c].op = "order" /\ call[b][c].at = "invoice" /\ stock >= read
        /\ stock' = stock - read /\ ordered' = [ordered EXCEPT ![b] = @ + read]
        /\ cart' = [cart EXCEPT ![b] = 0] /\ lock' = [lock EXCEPT ![b] = IF @ = c THEN None ELSE @]
        /\ UNCHANGED <<shown, put>>
    BY DEF CommitOrder, Handling, Enough, EmptiesCart, Unlock
  <1>3. Replies(b, c)
    BY AnsweredIs DEF CommitOrder
  <1> HIDE DEF read
  <1>4. ordered[b] + read \in Nat /\ stock - read \in Nat /\ read <= stock
    BY <1>1, <1>2
  <1>5. /\ ordered' \in [Buyers -> Nat] /\ ordered'[b] = ordered[b] + read
        /\ \A x \in Buyers \ {b} : ordered'[x] = ordered[x]
    BY <1>2, <1>4 DEF Shape
  <1>6. /\ cart' \in [Buyers -> Nat] /\ cart'[b] = 0 /\ \A x \in Buyers \ {b} : cart'[x] = cart[x]
    BY <1>2 DEF Shape
  <1>7. /\ lock' \in [Buyers -> Calls \cup {None}] /\ lock'[b] = IF lock[b] = c THEN None ELSE lock[b]
        /\ \A x \in Buyers \ {b} : lock'[x] = lock[x]
    BY <1>2 DEF Shape
  <1>8. Shape' /\ Others(b, c)
    BY <1>2, <1>3, <1>4, <1>5, <1>6, <1>7 DEF Shape, Others, Replies, Now
  <1>9. Fits(b) => Fits(b)'
    BY <1>2, <1>3, <1>5, <1>6, <1>7, <1>8, CommitFits DEF read
  <1> QED BY <1>1, <1>2, <1>4, <1>5, <1>8, <1>9 DEF Keeps, read

----------------------------------------------------------------------------
(* The browser when the answer has come *)

LEMMA BackFits ==
  ASSUME Shape, Shape', NEW b \in Buyers, NEW c \in Calls, Fits(b),
         call[b][c].at \in {"done", "failed"}, call'[b][c] = Idle, UNCHANGED database, Others(b, c),
         NEW value \in Nat, ShowsOnly(b, c, value), value <= MaxPut,
         stale'[b] \ {TabOf[b][c]} = stale[b] \ {TabOf[b][c]},
         Fresh(b, c)' => /\ Fresh(b, c) \/ call[b][c].op # "order"
                         /\ value = cart[b] \/ Bought(b, TabOf[b][c])'
  PROVE  Fits(b)'
  <1> USE DEF Idle, database
  <1> DEFINE t == TabOf[b][c]
  <1>0. t \in Tabs
    BY CheckoutAssumption
  <1>1. \A d \in Calls \ {c} :
          /\ call'[b][d] = call[b][d]
          /\ call[b][d].at # "idle" => call[b][c].op = "order" /\ call[b][d].op = "order"
    BY DEF Fits, Alone, Others
  <1>2. cart'[b] + ordered'[b] = put'[b]
    BY DEF Fits
  <1>3. Alone(b)'
    BY DEF Fits, Alone, Others
  <1>4. OnItsWay(b)'
    BY <1>1 DEF Fits, OnItsWay, CallOnItsWay
  <1>5. InBounds(b)'
    <2>1. put'[b] <= MaxPut /\ \A u \in Tabs : shown'[b][u] <= MaxPut
      BY DEF Fits, InBounds, ShowsOnly
    <2>2. \A d \in Calls : CallInBounds(b, d)'
      BY <1>1, CheckoutAssumption DEF Fits, InBounds, CallInBounds
    <2> QED BY <2>1, <2>2 DEF InBounds
  <1>6. TabFits(b, t)'
    <2> SUFFICES ASSUME Fresh(b, c)'
                 PROVE  /\ \A d \in CallsOf(b, t) : CallShown(b, d)'
                        /\ shown'[b][t] = cart'[b] \/ Bought(b, t)'
      BY DEF TabFits, CallsOf, Fresh
    <2>1. CallShown(b, c)'
      BY DEF CallShown, Changes
    <2>2. ASSUME NEW d \in CallsOf(b, t) \ {c} PROVE CallShown(b, d)'
      <3>1. call[b][d].at # "idle" => Fresh(b, c) /\ call[b][d].op = "order"
        BY <1>1 DEF CallsOf
      <3>2. CASE call[b][d].at = "idle"
        BY <1>1, <3>2 DEF CallShown, CallsOf
      <3>3. CASE call[b][d].at # "idle"
        <4>1. CallShown(b, d)
          BY <1>0, <3>1, <3>3 DEF Fits, ShownFits, TabFits, Fresh
        <4> QED BY <1>1, <3>1, <3>3, <4>1 DEF CallShown, CallsOf, Changes
      <3> QED BY <3>2, <3>3
    <2> QED BY <2>1, <2>2 DEF ShowsOnly
  <1>7. ASSUME NEW u \in Tabs \ {t} PROVE TabFits(b, u)'
    BY OtherTabs DEF Fits, ShownFits, ShowsOnly, Others
  <1>8. ShownFits(b)'
    BY <1>6, <1>7 DEF ShownFits
  <1> QED BY <1>2, <1>3, <1>4, <1>5, <1>8 DEF Fits

LEMMA BackKeeps ==
  ASSUME Shape, NEW b \in Buyers, NEW c \in Calls, Succeed(b, c) \/ Fail(b, c)
  PROVE  Keeps(b, c)
  <1> DEFINE q == call[b][c]
             t == TabOf[b][c]
  <1>0. t \in Tabs /\ Shows(b, c) = shown[b][t] /\ Shows(b, c) \in Nat
    BY CheckoutAssumption DEF Shape, Shows
  <1>1. /\ q.op \in Ops /\ q.read \in Nat /\ q.previous \in Nat
        /\ call' = [call EXCEPT ![b][c] = Idle] /\ UNCHANGED database
    BY DEF Succeed, Fail, Display, SetCall, Shape, Records
  <1>2. q.at \in {"done", "failed"}
    BY DEF Succeed, Fail
  <1>3. Idle \in Records
    BY DEF Idle, Records, Ops
  <1>4. /\ call' \in [Buyers -> [Calls -> Records]] /\ call'[b][c] = Idle
        /\ \A d \in Calls \ {c} : call'[b][d] = call[b][d]
        /\ \A x \in Buyers \ {b} : call'[x] = call[x]
    BY <1>1, <1>3, CallIs DEF SetCall
  <1>5. PICK value \in Nat :
          /\ Show(b, c, value)
          /\ q.at = "done" =>
               value = IF q.op = "order" THEN 0 ELSE IF q.op = "load" THEN q.read ELSE Shows(b, c)
          /\ q.at = "failed" =>
               value = IF q.op \in Changes THEN q.previous ELSE IF q.op = "load" THEN 0 ELSE Shows(b, c)
    <2>1. CASE Succeed(b, c)
      <3>1. Show(b, c, ShownAfter(b, c)) /\ q.at = "done"
        BY <2>1 DEF Succeed, Display
      <3>2. ShownAfter(b, c) =
              IF q.op = "order" THEN 0 ELSE IF q.op = "load" THEN q.read ELSE Shows(b, c)
        BY DEF ShownAfter
      <3> QED BY <1>0, <1>1, <3>1, <3>2
    <2>2. CASE Fail(b, c)
      <3>1. Show(b, c, TakenBack(b, c)) /\ q.at = "failed"
        BY <2>2 DEF Fail, Display
      <3>2. TakenBack(b, c) =
              IF q.op \in Changes THEN q.previous ELSE IF q.op = "load" THEN 0 ELSE Shows(b, c)
        BY DEF TakenBack, Changes
      <3> QED BY <1>0, <1>1, <3>1, <3>2
    <2> QED BY <2>1, <2>2
  <1>6. ShowsOnly(b, c, value)
    BY <1>5, ShowIs
  <1>7. /\ stale' \in [Buyers -> SUBSET Tabs] /\ \A x \in Buyers \ {b} : stale'[x] = stale[x]
        /\ stale'[b] \ {t} = stale[b] \ {t}
        /\ q.op # "load" => stale'[b] = stale[b]
        /\ q.at = "failed" /\ q.op = "load" => t \in stale'[b]
    <2>1. CASE Succeed(b, c)
      BY <1>0, <2>1 DEF Succeed, Shape
    <2>2. CASE Fail(b, c)
      BY <1>0, <2>2 DEF Fail, Shape
    <2> QED BY <2>1, <2>2
  <1>8. Shape' /\ Others(b, c)
    BY <1>1, <1>4, <1>6, <1>7 DEF Shape, Others, database, ShowsOnly
  <1>9. ASSUME Fits(b) PROVE Fits(b)'
    <2>1. /\ CallOnItsWay(b, c) /\ CallInBounds(b, c) /\ Shows(b, c) <= MaxPut
          /\ Fresh(b, c) => /\ CallShown(b, c)
                            /\ Shows(b, c) = cart[b] \/ Changing(b, t) \/ Bought(b, t)
      BY <1>0, <1>9 DEF Fits, OnItsWay, InBounds, ShownFits, TabFits, Fresh, CallsOf
    <2>2. value <= MaxPut
      BY <1>0, <1>1, <1>2, <1>5, <2>1, CheckoutAssumption DEF CallInBounds
    <2>3. ASSUME Fresh(b, c)', q.op # "load" PROVE Fresh(b, c)
      BY <1>7, <2>3 DEF Fresh
    <2>4. ASSUME Fresh(b, c)' PROVE value = cart[b] \/ Bought(b, t)'
      <3>1. CASE q.at = "done" /\ q.op \in {"order", "load"}
        BY <1>5, <2>1, <3>1 DEF CallOnItsWay
      <3>2. CASE q.at = "done" /\ q.op \in Changes
        <4>1. Fresh(b, c) /\ value = Shows(b, c)
          BY <1>5, <2>3, <2>4, <3>2 DEF Changes
        <4>2. \A d \in Calls \ {c} : call[b][d].at = "idle"
          BY <1>9, <3>2 DEF Fits, Alone, Changes
        <4> QED BY <2>1, <3>2, <4>1, <4>2 DEF Changing, Bought, Changes, CallsOf
      <3>3. CASE q.at = "failed" /\ q.op \in Changes
        <4>1. Fresh(b, c)
          BY <2>3, <2>4, <3>3 DEF Changes
        <4> QED BY <1>5, <2>1, <3>3, <4>1 DEF CallShown, Changes
      <3>4. CASE q.at = "failed" /\ q.op = "load"
        BY <1>7, <2>4, <3>4 DEF Fresh
      <3>5. CASE q.at = "failed" /\ q.op = "order"
        <4>1. Fresh(b, c) /\ value = Shows(b, c)
          BY <1>5, <2>3, <2>4, <3>5 DEF Changes
        <4>2. ~Changing(b, t)
          BY <1>9, <3>5 DEF Fits, Alone, Changing, Changes, CallsOf
        <4>3. Bought(b, t) => Bought(b, t)'
          BY <1>1, <1>4, <3>5 DEF Bought, database, CallsOf
        <4> QED BY <2>1, <4>1, <4>2, <4>3
      <3> QED BY <1>1, <1>2, <3>1, <3>2, <3>3, <3>4, <3>5 DEF Ops
    <2> QED BY <1>1, <1>2, <1>4, <1>6, <1>7, <1>8, <1>9, <2>2, <2>3, <2>4, BackFits
  <1> QED BY <1>8, <1>9 DEF Keeps

----------------------------------------------------------------------------
(* The invariant *)

LEMMA StepKeeps ==
  ASSUME Shape, NEW b \in Buyers, NEW c \in Calls, Buyer(b, c) \/ Handle(b, c)
  PROVE  Keeps(b, c)
  <1>1. CASE Buyer(b, c)
    BY <1>1, BuyerKeeps
  <1>2. CASE MovesOn(b, c)
    BY <1>2, MovesOnKeeps
  <1>3. CASE AddWrite(b, c) \/ SetCart(b, c) \/ RemoveCart(b, c)
    BY <1>3, WriteKeeps
  <1>4. CASE CommitOrder(b, c)
    BY <1>4, CommitKeeps
  <1>5. CASE Succeed(b, c) \/ Fail(b, c)
    BY <1>5, BackKeeps
  <1> QED BY <1>1, <1>2, <1>3, <1>4, <1>5 DEF Handle, MovesOn

\* Only the commit of an order touches the stock and the orders.
LEMMA OnlyCommitSells ==
  ASSUME NEW b \in Buyers, NEW c \in Calls, Buyer(b, c) \/ Handle(b, c), ~CommitOrder(b, c)
  PROVE  UNCHANGED <<stock, ordered>>
  <1>1. CASE Buyer(b, c)
    BY <1>1 DEF Buyer, AddToCart, UpdateQuantity, RemoveFromCart, Submit, RefreshCommerce, Start, database
  <1>2. CASE MovesOn(b, c)
    BY <1>2 DEF MovesOn, SaveProfile, AddRead, LoadCart, SetMissing, Refused, BeginOrder, RefuseOrder,
                RollbackOrder, Failed, database
  <1>3. CASE AddWrite(b, c) \/ SetCart(b, c) \/ RemoveCart(b, c)
    BY <1>3 DEF AddWrite, SetCart, RemoveCart, Put
  <1>4. CASE Succeed(b, c) \/ Fail(b, c)
    BY <1>4 DEF Succeed, Fail, Display, database
  <1> QED BY <1>1, <1>2, <1>3, <1>4 DEF Handle, MovesOn

LEMMA StockStep ==
  ASSUME Shape, Shape', InStock, NEW b \in Buyers, NEW c \in Calls, Buyer(b, c) \/ Handle(b, c)
  PROVE  InStock'
  <1> USE CheckoutAssumption
  <1>1. CASE UNCHANGED <<stock, ordered>>
    BY <1>1 DEF InStock
  <1>2. CASE CommitOrder(b, c)
    <2> DEFINE read == call[b][c].read
    <2>1. /\ Others(b, c) /\ read \in Nat /\ read <= stock
          /\ stock' = stock - read /\ ordered'[b] = ordered[b] + read
      BY <1>2, CommitKeeps DEF Keeps
    <2> HIDE DEF read
    <2>2. /\ Ints(ordered, Buyers) /\ ordered'[b] \in Int /\ ordered[b] \in Int /\ stock \in Nat
          /\ \A x \in Buyers \ {b} : ordered'[x] = ordered[x]
      BY <2>1 DEF Shape, Others, Ints
    <2>3. SumOver(ordered', Buyers) = SumOver(ordered, Buyers) - ordered[b] + ordered'[b]
      BY <2>2, SumChange
    <2>4. SumOver(ordered, Buyers) \in Int
      BY <2>2, SumType
    <2>5. stock' + SumOver(ordered', Buyers) = stock + SumOver(ordered, Buyers)
      BY <2>1, <2>2, <2>3, <2>4
    <2>6. stock' + SumOver(ordered', Buyers) = Stock
      BY <2>5 DEF InStock
    <2>7. ASSUME NEW x \in Buyers PROVE ordered'[x] + stock' <= Stock
      <3>1. ordered[x] \in Nat /\ ordered[x] + stock <= Stock /\ ordered[b] + stock <= Stock
        BY DEF InStock, Shape
      <3>2. ordered'[x] = IF x = b THEN ordered[b] + read ELSE ordered[x]
        BY <2>1, <2>2
      <3> QED BY <2>1, <2>2, <3>1, <3>2
    <2>8. stock' <= Stock
      BY <2>1, <2>2 DEF InStock
    <2> QED BY <2>6, <2>7, <2>8 DEF InStock
  <1> QED BY <1>1, <1>2, OnlyCommitSells

\* The buyers another buyer's step does not touch.
LEMMA OthersFit ==
  ASSUME NEW b \in Buyers, NEW c \in Calls, Others(b, c), NEW x \in Buyers \ {b}, Fits(x)
  PROVE  Fits(x)'
  <1>1. /\ shown'[x] = shown[x] /\ call'[x] = call[x] /\ cart'[x] = cart[x] /\ lock'[x] = lock[x]
        /\ ordered'[x] = ordered[x] /\ put'[x] = put[x] /\ stale'[x] = stale[x]
    BY DEF Others
  <1>2. Alone(x)'
    BY <1>1 DEF Fits, Alone
  <1>3. OnItsWay(x)'
    BY <1>1 DEF Fits, OnItsWay, CallOnItsWay
  <1>4. InBounds(x)'
    BY <1>1 DEF Fits, InBounds, CallInBounds
  <1>5. ShownFits(x)'
    BY <1>1 DEF Fits, ShownFits, TabFits, CallShown, Shows, Changing, Bought, CallsOf
  <1> QED BY <1>1, <1>2, <1>3, <1>4, <1>5 DEF Fits

LEMMA InitHolds == Init => IInv
  <1> SUFFICES ASSUME Init PROVE IInv
    OBVIOUS
  <1> USE CheckoutAssumption DEF Init
  <1>1. Shape
    BY DEF Shape, Records, Idle, Ops
  <1>2. InStock
    <2>1. /\ SumOver(ordered, Buyers) = 0 /\ \A b \in Buyers : ordered[b] = 0
      BY SumZero
    <2> QED BY <2>1 DEF InStock
  <1>3. ASSUME NEW b \in Buyers PROVE Fits(b)
    <2>1. \A c \in Calls : call[b][c] = Idle
      OBVIOUS
    <2>2. Alone(b)
      BY <2>1 DEF Alone, Idle
    <2>3. OnItsWay(b)
      BY <2>1 DEF OnItsWay, CallOnItsWay, Idle
    <2>4. InBounds(b)
      BY <2>1 DEF InBounds, CallInBounds, Idle
    <2>5. ShownFits(b)
      BY <2>1 DEF ShownFits, TabFits, CallShown, CallsOf, Idle, Changes
    <2> QED BY <2>2, <2>3, <2>4, <2>5 DEF Fits
  <1> QED BY <1>1, <1>2, <1>3 DEF IInv

LEMMA InductiveStep == IInv /\ [Next]_vars => IInv'
  <1> SUFFICES ASSUME IInv, [Next]_vars PROVE IInv'
    OBVIOUS
  <1>1. ASSUME NEW b \in Buyers, NEW c \in Calls, Buyer(b, c) \/ Handle(b, c) PROVE IInv'
    <2>1. Keeps(b, c)
      BY <1>1, StepKeeps DEF IInv
    <2>2. InStock'
      BY <1>1, <2>1, StockStep DEF IInv, Keeps
    <2>3. ASSUME NEW x \in Buyers, ~Overlap PROVE Fits(x)'
      BY <2>1, <2>3, OthersFit DEF IInv, Keeps
    <2> QED BY <2>1, <2>2, <2>3 DEF IInv, Keeps
  <1>2. CASE UNCHANGED vars
    BY <1>2 DEF vars, IInv, Shape, InStock, Fits, Alone, OnItsWay, CallOnItsWay, InBounds,
                CallInBounds, ShownFits, TabFits, CallShown, Shows, Changing, Bought, CallsOf
  <1> QED BY <1>1, <1>2 DEF Next

\* The invariant holds of every run, whether buyers wait for answers or not.
THEOREM Inductive == Spec => []IInv
<1> QED BY InitHolds, InductiveStep, PTL DEF Spec

\* No unit is sold twice and none disappears, whatever the buyers do: the update of the
\* stock has its condition with it (store_controller.go:500-510).
THEOREM NoUnitSoldTwice == Spec => []StockAccounted
  <1>1. IInv => StockAccounted
    BY DEF IInv, Shape, InStock, StockAccounted, SumOver
  <1> QED BY <1>1, Inductive, PTL

\* The quantities keep to their bounds when buyers wait for the answers to their changes.
THEOREM TypeCorrect == ASSUME ~Overlap PROVE Spec => []TypeOK
  <1>1. ASSUME IInv PROVE TypeOK
    <2> USE CheckoutAssumption DEF IInv
    <2>1. \A b \in Buyers :
            /\ cart[b] \in 0..MaxPut /\ ordered[b] \in 0..Stock /\ put[b] \in 0..MaxPut
            /\ \A t \in Tabs : shown[b][t] \in 0..MaxPut
      BY <1>1 DEF Shape, InStock, Fits, InBounds
    <2>2. stock \in 0..Stock
      BY <1>1 DEF Shape, InStock
    <2>3. ASSUME NEW b \in Buyers, NEW c \in Calls PROVE call[b][c] \in CallRecords
      <3>1. CallInBounds(b, c) /\ call[b][c] \in Records
        BY <1>1 DEF Shape, Fits, InBounds
      <3> QED BY <3>1 DEF CallInBounds, Records, CallRecords
    <2>4. call \in [Buyers -> [Calls -> CallRecords]]
      BY <1>1, <2>3 DEF Shape
    <2> QED BY <1>1, <2>1, <2>2, <2>4 DEF Shape, TypeOK
  <1> QED BY <1>1, Inductive, PTL

\* What a buyer put into the bag is in the cart or was ordered, once: CreateOrder holds
\* the lock of the cart's rows while it works (store_controller.go:423-428, 511).
THEOREM CartIsAccounted == ASSUME ~Overlap PROVE Spec => []CartAccounted
  <1>1. IInv => CartAccounted
    BY DEF IInv, Fits, CartAccounted
  <1> QED BY <1>1, Inductive, PTL

\* When a buyer waits for nothing, every tab whose bag is not out of date -- no other tab
\* has changed the cart since it loaded it, and no answer was lost -- shows the cart of the
\* server (commerce.tsx:93, 136-182, 199-208).
THEOREM TheBagIsTheCart == ASSUME ~Overlap PROVE Spec => []ShownIsCart
  <1>1. ASSUME IInv PROVE ShownIsCart
    BY <1>1 DEF IInv, Fits, ShownFits, TabFits, ShownIsCart, Quiet, UnderWay, Changing, Bought, CallsOf
  <1> QED BY <1>1, Inductive, PTL

\* The order a checkout commits has the quantity its page showed when the buyer paid,
\* when the bag of that tab is not out of date (checkout.tsx:22-31).
THEOREM ChargesWhatWasShown == ASSUME ~Overlap PROVE Spec => ChargedAsShown
  <1> DEFINE Charged(x, d) ==
        ordered'[x] # ordered[x] /\ call'[x][d] # call[x][d] /\ TabOf[x][d] \notin stale[x]
          => ordered'[x] - ordered[x] = call[x][d].qty
  <1>1. ASSUME IInv, Next, NEW x \in Buyers, NEW d \in Calls PROVE Charged(x, d)
    <2>1. PICK b \in Buyers, c \in Calls : Buyer(b, c) \/ Handle(b, c)
      BY <1>1 DEF Next
    <2>2. Keeps(b, c)
      BY <1>1, <2>1, StepKeeps DEF IInv
    <2>3. CASE ~CommitOrder(b, c) \/ x # b \/ d # c
      BY <2>1, <2>2, <2>3, OnlyCommitSells DEF Keeps, Others
    <2>4. CASE CommitOrder(b, c) /\ x = b /\ d = c
      <3>1. /\ call[b][c].read \in Nat /\ ordered[b] \in Nat
            /\ ordered'[b] = ordered[b] + call[b][c].read
        BY <1>1, <2>4, CommitKeeps DEF IInv, Shape
      <3>2. call[b][c].at = "invoice" /\ call[b][c].op = "order"
        BY <2>4 DEF CommitOrder, Handling
      <3>3. CallOnItsWay(b, c) /\ (TabOf[b][c] \notin stale[b] => CallShown(b, c))
        BY <1>1, CheckoutAssumption DEF IInv, Fits, OnItsWay, ShownFits, TabFits, CallsOf
      <3>4. TabOf[b][c] \notin stale[b] => call[b][c].read = call[b][c].qty
        BY <3>2, <3>3 DEF CallOnItsWay, CallShown
      <3>5. ordered'[b] - ordered[b] = call[b][c].read
        BY <3>1
      <3> QED BY <2>4, <3>4, <3>5
    <2> QED BY <2>3, <2>4
  <1>2. IInv /\ [Next]_vars =>
          [\A b \in Buyers, c \in Calls :
             ordered'[b] # ordered[b] /\ call'[b][c] # call[b][c] /\ TabOf[b][c] \notin stale[b]
               => ordered'[b] - ordered[b] = call[b][c].qty]_vars
    BY <1>1
  <1> QED BY <1>2, Inductive, PTL DEF Spec, ChargedAsShown

-----------------------------------------------------------------------------
(* Payment *)


\* A notification agrees with the invoice.
Agrees(e) ==
  invoice[e.o] = IF e.status = "PAID" THEN "PAID" ELSE "EXPIRED"

Told ==
  /\ \A e \in events : Agrees(e)
  /\ \A w \in Webhooks : webhook[w] # Nothing =>
       Agrees(webhook[w]) /\ order[webhook[w].o] # "none"

\* What a request of the page has seen is so.
Truthful(o, r) ==
  /\ order[o] # "none"
  /\ r.at \in {"apply", "seen"} => r.seen \in Final
  /\ r.at = "apply" => r.seen = invoice[o]
  /\ r.at \in {"seen", "answer"} /\ r.seen \in Final => r.seen = order[o]
Polled ==
  \A o \in Orders : \A p \in Polls :
    poll[o][p] # Nothing => Truthful(o, poll[o][p])

\* An order has its invoice.
Placed == \A o \in Orders : order[o] # "none" => invoice[o] # "none"

Opened == \A o \in Orders : page[o] # "closed" => order[o] # "none"

DeletedPaid == \A o \in Orders : sales[o].deleted => order[o] = "PAID"

PaymentInv ==
  /\ PaymentTypeOK
  /\ OrderFollowsInvoice
  /\ DeletedPaid
  /\ Told
  /\ Polled
  /\ Placed
  /\ Opened
  /\ PageTellsTruth

-----------------------------------------------------------------------------
\* Steps at Xendit: an invoice that is final stays, and what is told of it is so.
LEMMA XenditKeeps ==
  ASSUME ~EarlyFailures, PaymentInv, NEW o \in Orders,
         MakeInvoice(o) \/ Pay(o) \/ ExpireInvoice(o) \/ TellFailure(o)
  PROVE  PaymentInv'
<1> USE DEF PaymentInv
<1>0. UNCHANGED <<order, sales, webhook, page, poll, faults, conflict>>
  BY DEF MakeInvoice, Pay, ExpireInvoice, TellFailure
<1>1. /\ invoice' \in [Orders -> {"none", "PENDING"} \cup Final]
      /\ \A q \in Orders : invoice[q] \in Final => invoice'[q] = invoice[q]
      /\ \A q \in Orders : invoice[q] # "none" => invoice'[q] # "none"
  BY DEF MakeInvoice, Pay, ExpireInvoice, TellFailure, PaymentTypeOK, Final
<1>2. events' \subseteq Events /\ \A e \in events' : Agrees(e)'
  <2>1. CASE MakeInvoice(o)
    BY <1>1, <2>1 DEF MakeInvoice, PaymentTypeOK, Told, Agrees, Events, Final
  <2>2. CASE Pay(o)
    <3>1. invoice'[o] = "PAID" /\ events' = events \cup {[o |-> o, status |-> "PAID"]}
      BY <2>2 DEF Pay, Notify, PaymentTypeOK
    <3> QED
      BY <1>1, <3>1 DEF PaymentTypeOK, Told, Agrees, Events, Final
  <2>3. CASE ExpireInvoice(o)
    <3>1. invoice'[o] = "EXPIRED" /\ events' = events \cup {[o |-> o, status |-> "EXPIRED"]}
      BY <2>3 DEF ExpireInvoice, Notify, PaymentTypeOK
    <3> QED
      BY <1>1, <3>1 DEF PaymentTypeOK, Told, Agrees, Events, Final
  <2>4. CASE TellFailure(o)
    <3>1. invoice'[o] = "EXPIRED" /\ events' = events \cup {[o |-> o, status |-> "FAILED"]}
      BY <2>4 DEF TellFailure, Notify, PaymentTypeOK
    <3> QED
      BY <1>1, <3>1 DEF PaymentTypeOK, Told, Agrees, Events, Final
  <2> QED
    BY <2>1, <2>2, <2>3, <2>4
<1>3. PaymentTypeOK'
  BY <1>0, <1>1, <1>2 DEF PaymentTypeOK
<1>4. OrderFollowsInvoice' /\ DeletedPaid' /\ Placed' /\ Opened' /\ PageTellsTruth'
  BY <1>0, <1>1 DEF OrderFollowsInvoice, DeletedPaid, Placed, Opened, PageTellsTruth, Final
<1>5. Told'
  <2>1. \A w \in Webhooks : webhook[w] # Nothing => Agrees(webhook[w])'
    BY <1>0, <1>1 DEF Told, Agrees, PaymentTypeOK, Events, Final
  <2> QED
    BY <1>0, <1>2, <2>1 DEF Told
<1>6. Polled'
  BY <1>0, <1>1 DEF Polled, Truthful
<1> QED
  BY <1>3, <1>4, <1>5, <1>6

\* An event goes, or a webhook ends or takes one: less is under way, or the same.
LEMMA DeliveryKeeps ==
  ASSUME PaymentInv,
         UNCHANGED <<order, invoice, sales, page, poll>>,
         events' \subseteq events, faults' \in 0..MaxFaults, conflict' \in BOOLEAN,
         webhook' \in [Webhooks -> Events \cup {Nothing}],
         \A w \in Webhooks : webhook'[w] # Nothing =>
           \/ webhook'[w] = webhook[w]
           \/ webhook'[w] \in events /\ order[webhook'[w].o] # "none"
  PROVE  PaymentInv'
<1> USE DEF PaymentInv
<1>1. PaymentTypeOK'
  BY DEF PaymentTypeOK
<1>2. OrderFollowsInvoice' /\ DeletedPaid' /\ Placed' /\ Opened' /\ PageTellsTruth'
  BY DEF OrderFollowsInvoice, DeletedPaid, Placed, Opened, PageTellsTruth
<1>3. Told'
  BY DEF Told, Agrees
<1>4. Polled'
  BY DEF Polled, Truthful
<1> QED
  BY <1>1, <1>2, <1>3, <1>4

\* The page: it is opened, closed, asks, and shows answers.
LEMMA PageKeeps ==
  ASSUME PaymentInv, UNCHANGED <<order, invoice, sales, events, webhook>>,
         faults' \in 0..MaxFaults, conflict' \in BOOLEAN,
         page' \in [Orders -> {"closed", "loading", "PENDING"} \cup Final],
         poll' \in [Orders -> [Polls -> PollsOf \cup {Nothing}]],
         \A o \in Orders : page'[o] # page[o] =>
           /\ page'[o] # "closed" => order[o] # "none"
           /\ page'[o] \in Final => page'[o] = order[o],
         \A o \in Orders : \A p \in Polls :
           poll'[o][p] # poll[o][p] /\ poll'[o][p] # Nothing =>
             Truthful(o, poll'[o][p])
  PROVE  PaymentInv'
<1> USE DEF PaymentInv
<1>1. PaymentTypeOK'
  BY DEF PaymentTypeOK
<1>2. OrderFollowsInvoice' /\ DeletedPaid' /\ Told'
  BY DEF OrderFollowsInvoice, DeletedPaid, Told, Agrees
<1>3. Placed' /\ Opened' /\ PageTellsTruth'
  BY DEF Placed, Opened, PageTellsTruth
<1>4. Polled'
  BY DEF Polled, Truthful
<1> QED
  BY <1>1, <1>2, <1>3, <1>4

\* What a write of the order's status has to respect.
LEMMA StatusKeeps ==
  ASSUME PaymentInv, UNCHANGED <<invoice, page>>,
         events' \subseteq events, faults' \in 0..MaxFaults, conflict' \in BOOLEAN,
         order' \in [Orders -> {"none", "PENDING"} \cup Final],
         sales' \in [Orders -> [live : 0..1, deleted : BOOLEAN]],
         webhook' \in [Webhooks -> Events \cup {Nothing}],
         poll' \in [Orders -> [Polls -> PollsOf \cup {Nothing}]],
         \A o \in Orders : order[o] \in Final => order'[o] = order[o],
         \A o \in Orders : order[o] # "none" => order'[o] # "none",
         OrderFollowsInvoice', DeletedPaid', Placed',
         \A w \in Webhooks : webhook'[w] \in {webhook[w], Nothing},
         \A o \in Orders : \A p \in Polls :
           poll'[o][p] # poll[o][p] /\ poll'[o][p] # Nothing =>
             Truthful(o, poll[o][p])'
  PROVE  PaymentInv'
<1> USE DEF PaymentInv
<1>1. PaymentTypeOK'
  BY DEF PaymentTypeOK
<1>2. Told'
  <2> SUFFICES ASSUME NEW w \in Webhooks, webhook'[w] # Nothing
               PROVE  Agrees(webhook[w])' /\ order'[webhook'[w].o] # "none"
    BY DEF Told, Agrees
  <2>1. webhook'[w] = webhook[w] /\ webhook[w] \in Events
    BY DEF PaymentTypeOK
  <2>2. webhook[w].o \in Orders
    BY <2>1 DEF Events
  <2> QED
    BY <2>1, <2>2 DEF Told, Agrees
<1>3. Placed' /\ Opened' /\ PageTellsTruth'
  BY DEF Placed, Opened, PageTellsTruth
<1>4. Polled'
  <2> SUFFICES ASSUME NEW o \in Orders, NEW p \in Polls, poll'[o][p] # Nothing
               PROVE  Truthful(o, poll[o][p])'
    BY DEF Polled
  <2>1. CASE poll'[o][p] = poll[o][p]
    <3>1. Truthful(o, poll[o][p])
      BY <2>1 DEF Polled
    <3> QED
      BY <2>1, <3>1 DEF Truthful
  <2>2. CASE poll'[o][p] # poll[o][p]
    BY <2>2
  <2> QED
    BY <2>1, <2>2
<1> QED
  BY <1>1, <1>2, <1>3, <1>4

-----------------------------------------------------------------------------
LEMMA FailureBounds ==
  ASSUME PaymentTypeOK, NEW o, MarkPaidFails(o)
  PROVE  faults' \in 0..MaxFaults /\ conflict' \in BOOLEAN /\ UNCHANGED <<order, sales>>
<1>1. faults \in 0..MaxFaults
  BY DEF PaymentTypeOK
<1>2. conflict \in BOOLEAN
  BY DEF PaymentTypeOK
<1>3. faults' = faults \/ (faults < MaxFaults /\ faults' = faults + 1)
  BY DEF MarkPaidFails
<1>4. conflict' = TRUE \/ conflict' = conflict
  BY DEF MarkPaidFails
<1>5. faults' \in 0..MaxFaults
  BY <1>1, <1>3, PaymentAssumption
<1>6. conflict' \in BOOLEAN
  BY <1>2, <1>4
<1> QED
  BY <1>5, <1>6 DEF MarkPaidFails

\* Deliveries that change no order.
LEMMA DeliverySteps ==
  ASSUME PaymentInv,
         \/ LoseEvent
         \/ \E e \in events : IgnoreWebhook(e) \/ \E w \in Webhooks : ReadWebhook(w, e)
         \/ \E w \in Webhooks : WebhookFails(w)
  PROVE  PaymentInv'
<1>t. PaymentTypeOK
  BY DEF PaymentInv
<1>1. CASE LoseEvent
  BY <1>1, <1>t, DeliveryKeeps DEF LoseEvent, PaymentTypeOK
<1>2. ASSUME NEW e \in events, IgnoreWebhook(e) PROVE PaymentInv'
  BY <1>2, <1>t, DeliveryKeeps DEF IgnoreWebhook, PaymentTypeOK
<1>3. ASSUME NEW e \in events, NEW w \in Webhooks, ReadWebhook(w, e) PROVE PaymentInv'
  <2>1. /\ UNCHANGED <<order, invoice, sales, page, poll, events, faults, conflict>>
        /\ webhook' = [webhook EXCEPT ![w] = e]
        /\ order[e.o] # "none"
    BY <1>3 DEF ReadWebhook, atXendit
  <2>2. webhook' \in [Webhooks -> Events \cup {Nothing}]
    BY <2>1, <1>t DEF PaymentTypeOK
  <2>3. \A v \in Webhooks : webhook'[v] = (IF v = w THEN e ELSE webhook[v])
    BY <2>1, <1>t DEF PaymentTypeOK
  <2>4. faults' \in 0..MaxFaults /\ conflict' \in BOOLEAN
    BY <2>1, <1>t DEF PaymentTypeOK
  <2> QED
    BY <2>1, <2>2, <2>3, <2>4, DeliveryKeeps
<1>4. ASSUME NEW w \in Webhooks, WebhookFails(w) PROVE PaymentInv'
  <2>1. /\ UNCHANGED <<order, invoice, sales, page, poll, events>>
        /\ webhook' = [webhook EXCEPT ![w] = Nothing]
    BY <1>4 DEF WebhookFails, MarkPaidFails
  <2>2. webhook' \in [Webhooks -> Events \cup {Nothing}]
    BY <2>1, <1>t DEF PaymentTypeOK
  <2>3. \A v \in Webhooks : webhook'[v] = (IF v = w THEN Nothing ELSE webhook[v])
    BY <2>1, <1>t DEF PaymentTypeOK
  <2>4. faults' \in 0..MaxFaults /\ conflict' \in BOOLEAN
    BY <1>4, <1>t, FailureBounds DEF WebhookFails
  <2> QED
    BY <2>1, <2>2, <2>3, <2>4, DeliveryKeeps
<1> QED
  BY <1>1, <1>2, <1>3, <1>4

\* What the request of a page is set to, and that nothing else of poll changes.
LEMMA SetPollIs ==
  ASSUME PaymentTypeOK, NEW o \in Orders, NEW p \in Polls, NEW r \in PollsOf \cup {Nothing},
         SetPoll(o, p, r)
  PROVE  /\ poll' \in [Orders -> [Polls -> PollsOf \cup {Nothing}]]
         /\ poll'[o][p] = r
         /\ \A q \in Orders : \A s \in Polls : <<q, s>> # <<o, p>> => poll'[q][s] = poll[q][s]
<1>1. /\ poll \in [Orders -> [Polls -> PollsOf \cup {Nothing}]]
      /\ poll' = [poll EXCEPT ![o][p] = r]
  BY DEF PaymentTypeOK, SetPoll
<1>2. poll[o] \in [Polls -> PollsOf \cup {Nothing}]
  BY <1>1
<1>3. [poll[o] EXCEPT ![p] = r] \in [Polls -> PollsOf \cup {Nothing}]
  BY <1>2
<1>4. poll' = [poll EXCEPT ![o] = [poll[o] EXCEPT ![p] = r]]
  BY <1>1
<1>5. poll'[o] = [poll[o] EXCEPT ![p] = r] /\ \A q \in Orders \ {o} : poll'[q] = poll[q]
  BY <1>1, <1>4
<1>6. poll' \in [Orders -> [Polls -> PollsOf \cup {Nothing}]]
  BY <1>1, <1>3, <1>4
<1>7. poll'[o][p] = r /\ \A s \in Polls \ {p} : poll'[o][s] = poll[o][s]
  BY <1>2, <1>5
<1> QED
  BY <1>5, <1>6, <1>7

\* The page's own steps, and Xendit's answers to its requests.
LEMMA PageSteps ==
  ASSUME PaymentInv, NEW o \in Orders,
         \/ OpenPage(o) \/ ClosePage(o)
         \/ \E p \in Polls :
              BeginPoll(o, p) \/ XenditAnswers(o, p) \/ XenditUnreachable(o, p)
                \/ ShowStatus(o, p) \/ PollFails(o, p)
  PROVE  PaymentInv'
<1>t. PaymentTypeOK
  BY DEF PaymentInv
<1>a. Polled
  BY DEF PaymentInv
<1>b. poll \in [Orders -> [Polls -> PollsOf \cup {Nothing}]]
  BY <1>t DEF PaymentTypeOK
<1>c. page \in [Orders -> {"closed", "loading", "PENDING"} \cup Final]
  BY <1>t DEF PaymentTypeOK
<1>d. faults \in 0..MaxFaults /\ conflict \in BOOLEAN
  BY <1>t DEF PaymentTypeOK
<1>1. CASE OpenPage(o)
  <2>1. /\ UNCHANGED <<order, invoice, sales, events, webhook, poll, faults, conflict>>
        /\ page' = [page EXCEPT ![o] = "loading"]
        /\ order[o] # "none"
    BY <1>1 DEF OpenPage, atXendit
  <2>2. page' \in [Orders -> {"closed", "loading", "PENDING"} \cup Final]
    BY <2>1, <1>c
  <2>3. \A q \in Orders : page'[q] # page[q] => q = o /\ page'[q] = "loading"
    BY <2>1, <1>c
  <2>4. \A q \in Orders : page'[q] # page[q] =>
          (page'[q] # "closed" => order[q] # "none") /\ (page'[q] \in Final => page'[q] = order[q])
    BY <2>1, <2>3 DEF Final
  <2> QED
    BY <2>1, <2>2, <2>4, <1>b, <1>d, PageKeeps
<1>2. CASE ClosePage(o)
  <2>1. /\ UNCHANGED <<order, invoice, sales, events, webhook, faults, conflict>>
        /\ page' = [page EXCEPT ![o] = "closed"]
        /\ poll' = [poll EXCEPT ![o] = [p \in Polls |-> Nothing]]
    BY <1>2 DEF ClosePage, atXendit
  <2>2. page' \in [Orders -> {"closed", "loading", "PENDING"} \cup Final]
    BY <2>1, <1>c
  <2>3. \A q \in Orders : page'[q] # page[q] => page'[q] = "closed"
    BY <2>1, <1>c
  <2>4. \A q \in Orders : page'[q] # page[q] =>
          (page'[q] # "closed" => order[q] # "none") /\ (page'[q] \in Final => page'[q] = order[q])
    BY <2>3 DEF Final
  <2>5. [p \in Polls |-> Nothing] \in [Polls -> PollsOf \cup {Nothing}]
    OBVIOUS
  <2>6. poll' \in [Orders -> [Polls -> PollsOf \cup {Nothing}]]
    BY <2>1, <2>5, <1>b
  <2>7. \A q \in Orders : \A p \in Polls : poll'[q][p] = poll[q][p] \/ poll'[q][p] = Nothing
    BY <2>1, <1>b
  <2> QED
    BY <2>1, <2>2, <2>4, <2>6, <2>7, <1>d, PageKeeps
<1>3. ASSUME NEW p \in Polls, NEW r \in PollsOf \cup {Nothing}, SetPoll(o, p, r),
             r # Nothing => Truthful(o, r),
             UNCHANGED <<order, invoice, sales, events, webhook>>,
             faults' \in 0..MaxFaults, conflict' \in BOOLEAN,
             page' \in [Orders -> {"closed", "loading", "PENDING"} \cup Final],
             \A q \in Orders : page'[q] # page[q] => order[q] # "none" /\ (page'[q] \in Final => page'[q] = order[q])
      PROVE  PaymentInv'
  <2>1. /\ poll' \in [Orders -> [Polls -> PollsOf \cup {Nothing}]]
        /\ poll'[o][p] = r
        /\ \A q \in Orders : \A s \in Polls : <<q, s>> # <<o, p>> => poll'[q][s] = poll[q][s]
    BY <1>3, <1>t, SetPollIs
  <2>2. \A q \in Orders : \A s \in Polls :
          poll'[q][s] # poll[q][s] /\ poll'[q][s] # Nothing => Truthful(q, poll'[q][s])
    <3> SUFFICES ASSUME NEW q \in Orders, NEW s \in Polls,
                        poll'[q][s] # poll[q][s], poll'[q][s] # Nothing
                 PROVE  Truthful(q, poll'[q][s])
      OBVIOUS
    <3>1. q = o /\ s = p
      BY <2>1
    <3>2. poll'[q][s] = r /\ r # Nothing
      BY <2>1, <3>1
    <3>3. Truthful(o, r)
      BY <1>3, <3>2
    <3> QED
      BY <3>1, <3>2, <3>3
  <2> QED
    BY <1>3, <2>1, <2>2, PageKeeps
<1>4. ASSUME NEW p \in Polls, BeginPoll(o, p) PROVE PaymentInv'
  <2> DEFINE r == [at |-> IF order[o] = "PENDING" THEN "ask" ELSE "seen", seen |-> order[o]]
  <2>1. /\ UNCHANGED <<order, invoice, sales, events, webhook, page, faults, conflict>>
        /\ SetPoll(o, p, r)
        /\ page[o] # "closed"
    BY <1>4 DEF BeginPoll, atXendit, AsksWhile
  <2>2. order[o] # "none" /\ order[o] \in {"none", "PENDING"} \cup Final
    BY <2>1, <1>t DEF PaymentInv, Opened, PaymentTypeOK
  <2>3. r \in PollsOf
    BY <2>2 DEF PollsOf
  <2>4. Truthful(o, r)
    BY <2>2 DEF Truthful, Final
  <2> HIDE DEF r
  <2>5. faults' \in 0..MaxFaults /\ conflict' \in BOOLEAN
    BY <2>1, <1>d
  <2>6. page' = page
    BY <2>1
  <2> QED
    BY <2>1, <2>3, <2>4, <2>5, <2>6, <1>c, <1>3
<1>5. ASSUME NEW p \in Polls, XenditAnswers(o, p) \/ XenditUnreachable(o, p) PROVE PaymentInv'
  <2>1. PICK remote : remote \in {invoice[o], "PENDING"} /\ AskXendit(o, p, remote)
    BY <1>5 DEF XenditAnswers, XenditUnreachable
  <2> DEFINE r == IF remote = "PENDING" THEN [at |-> "answer", seen |-> "PENDING"]
                  ELSE [at |-> "apply", seen |-> remote]
  <2>2. /\ UNCHANGED <<order, invoice, sales, events, webhook, page, faults, conflict>>
        /\ SetPoll(o, p, r)
        /\ poll[o][p] # Nothing
    BY <2>1 DEF AskXendit, atXendit
  <2>3. order[o] # "none"
    BY <2>2, <1>a DEF Polled, Truthful
  <2>4. invoice[o] # "none" /\ invoice[o] \in {"PENDING"} \cup Final
    BY <2>3, <1>t DEF PaymentInv, Placed, PaymentTypeOK
  <2>5. r \in PollsOf
    BY <2>1, <2>4 DEF PollsOf
  <2>6. Truthful(o, r)
    BY <2>1, <2>3, <2>4 DEF Truthful, Final
  <2> HIDE DEF r
  <2>7. faults' \in 0..MaxFaults /\ conflict' \in BOOLEAN
    BY <2>2, <1>d
  <2>8. page' = page
    BY <2>2
  <2> QED
    BY <2>2, <2>5, <2>6, <2>7, <2>8, <1>c, <1>3
<1>6. ASSUME NEW p \in Polls, ShowStatus(o, p) PROVE PaymentInv'
  <2>1. /\ UNCHANGED <<order, invoice, sales, events, webhook, faults, conflict>>
        /\ SetPoll(o, p, Nothing)
        /\ page' = [page EXCEPT ![o] = poll[o][p].seen]
        /\ poll[o][p] # Nothing
        /\ poll[o][p].at \in {"seen", "answer"}
    BY <1>6 DEF ShowStatus, atXendit
  <2>2. Truthful(o, poll[o][p]) /\ poll[o][p] \in PollsOf
    BY <2>1, <1>a, <1>b DEF Polled
  <2>3. /\ order[o] # "none"
        /\ poll[o][p].seen \in {"PENDING"} \cup Final
        /\ poll[o][p].seen \in Final => poll[o][p].seen = order[o]
    BY <2>1, <2>2 DEF Truthful, PollsOf
  <2>4. page' \in [Orders -> {"closed", "loading", "PENDING"} \cup Final]
    BY <2>1, <2>3, <1>c
  <2>5. \A q \in Orders : page'[q] # page[q] => q = o /\ page'[q] = poll[o][p].seen
    BY <2>1, <1>c
  <2>6. \A q \in Orders : page'[q] # page[q] => order[q] # "none" /\ (page'[q] \in Final => page'[q] = order[q])
    BY <2>3, <2>5
  <2>7. faults' \in 0..MaxFaults /\ conflict' \in BOOLEAN
    BY <2>1, <1>d
  <2> QED
    BY <2>1, <2>4, <2>6, <2>7, <1>3
<1>7. ASSUME NEW p \in Polls, PollFails(o, p) PROVE PaymentInv'
  <2>1. /\ UNCHANGED <<invoice, events, webhook, page>>
        /\ SetPoll(o, p, Nothing)
        /\ MarkPaidFails(o)
    BY <1>7 DEF PollFails, atXendit
  <2>2. faults' \in 0..MaxFaults /\ conflict' \in BOOLEAN /\ UNCHANGED <<order, sales>>
    BY <2>1, <1>t, FailureBounds
  <2>3. page' = page
    BY <2>1
  <2> QED
    BY <2>1, <2>2, <2>3, <1>c, <1>3
<1> QED
  BY <1>1, <1>2, <1>4, <1>5, <1>6, <1>7

-----------------------------------------------------------------------------
(* The writes of an order's status *)

LEMMA PlaceKeeps == ASSUME PaymentInv, NEW o \in Orders, PlaceOrder(o) PROVE PaymentInv'
<1>t. PaymentTypeOK
  BY DEF PaymentInv
<1>1. /\ UNCHANGED <<invoice, sales, events, webhook, page, poll, faults, conflict>>
      /\ order' = [order EXCEPT ![o] = "PENDING"]
      /\ invoice[o] # "none" /\ order[o] = "none"
  BY DEF PlaceOrder
<1>2. order' \in [Orders -> {"none", "PENDING"} \cup Final]
  BY <1>1, <1>t DEF PaymentTypeOK
<1>3. order'[o] = "PENDING" /\ \A q \in Orders \ {o} : order'[q] = order[q]
  BY <1>1, <1>t DEF PaymentTypeOK
<1>4. \A q \in Orders : order[q] # "none" => order'[q] = order[q]
  BY <1>1, <1>3
<1>5. OrderFollowsInvoice'
  BY <1>1, <1>3 DEF PaymentInv, OrderFollowsInvoice, Final
<1>6. DeletedPaid' /\ Placed'
  BY <1>1, <1>3 DEF PaymentInv, DeletedPaid, Placed
<1>7. faults' \in 0..MaxFaults /\ conflict' \in BOOLEAN
  BY <1>1, <1>t DEF PaymentTypeOK
<1>8. /\ sales' \in [Orders -> [live : 0..1, deleted : BOOLEAN]]
      /\ webhook' \in [Webhooks -> Events \cup {Nothing}]
      /\ poll' \in [Orders -> [Polls -> PollsOf \cup {Nothing}]]
  BY <1>1, <1>t DEF PaymentTypeOK
<1>9. \A q \in Orders : (order[q] \in Final => order'[q] = order[q]) /\ (order[q] # "none" => order'[q] # "none")
  BY <1>4 DEF Final
<1> QED
  BY <1>1, <1>2, <1>5, <1>6, <1>7, <1>8, <1>9, StatusKeeps

\* A paid invoice's order is paid and has its one Sales Order, again or for the first time.
LEMMA MarkPaidDoes ==
  ASSUME PaymentInv, NEW o \in Orders, MarkPaid(o), invoice' = invoice,
         invoice[o] = "PAID", order[o] # "none"
  PROVE  /\ order' \in [Orders -> {"none", "PENDING"} \cup Final]
         /\ order'[o] = "PAID" /\ \A q \in Orders \ {o} : order'[q] = order[q]
         /\ sales' \in [Orders -> [live : 0..1, deleted : BOOLEAN]]
         /\ \A q \in Orders : (order[q] \in Final => order'[q] = order[q]) /\ (order[q] # "none" => order'[q] # "none")
         /\ faults' \in 0..MaxFaults /\ conflict' \in BOOLEAN
         /\ OrderFollowsInvoice' /\ DeletedPaid' /\ Placed'
<1>t. PaymentTypeOK
  BY DEF PaymentInv
<1>1. /\ order' = [order EXCEPT ![o] = "PAID"]
      /\ sales' = [sales EXCEPT ![o] = SalesOf(o)]
      /\ UNCHANGED <<faults, conflict>>
      /\ ~Conflicts(o)
  BY DEF MarkPaid
<1>2. order' \in [Orders -> {"none", "PENDING"} \cup Final]
  BY <1>1, <1>t DEF PaymentTypeOK, Final
<1>3. order'[o] = "PAID" /\ \A q \in Orders \ {o} : order'[q] = order[q]
  BY <1>1, <1>t DEF PaymentTypeOK
<1>4. sales[o] \in [live : 0..1, deleted : BOOLEAN]
  BY <1>t DEF PaymentTypeOK
<1>5. /\ SalesOf(o) \in [live : 0..1, deleted : BOOLEAN]
      /\ SalesOf(o).deleted = sales[o].deleted
      /\ SalesOf(o).live = 1
  BY <1>4 DEF SalesOf
<1>6. sales' \in [Orders -> [live : 0..1, deleted : BOOLEAN]]
  BY <1>1, <1>5, <1>t DEF PaymentTypeOK
<1>7. sales'[o] = SalesOf(o) /\ \A q \in Orders \ {o} : sales'[q] = sales[q]
  BY <1>1, <1>t DEF PaymentTypeOK
<1>8. order[o] \in Final => order[o] = "PAID"
  BY DEF PaymentInv, OrderFollowsInvoice
<1>9. ~SalesOf(o).deleted
  <2>1. CASE sales[o].live = 0
    BY <1>1, <1>5, <2>1 DEF Conflicts
  <2>2. CASE sales[o].live # 0
    <3>1. order[o] = "PAID" /\ ~sales[o].deleted
      BY <1>4, <2>2 DEF PaymentInv, OrderFollowsInvoice
    <3> QED
      BY <1>5, <3>1
  <2> QED
    BY <2>1, <2>2
<1>10. OrderFollowsInvoice'
  BY <1>3, <1>5, <1>7, <1>9 DEF PaymentInv, OrderFollowsInvoice
<1>11. DeletedPaid' /\ Placed'
  BY <1>3, <1>7, <1>9 DEF PaymentInv, DeletedPaid, Placed
<1>12. faults' \in 0..MaxFaults /\ conflict' \in BOOLEAN
  BY <1>1, <1>t DEF PaymentTypeOK
<1>13. \A q \in Orders : (order[q] \in Final => order'[q] = order[q]) /\ (order[q] # "none" => order'[q] # "none")
  BY <1>3, <1>8
<1> QED
  BY <1>2, <1>3, <1>6, <1>10, <1>11, <1>12, <1>13

\* An expired invoice's order is expired.
LEMMA MarkExpiredDoes ==
  ASSUME PaymentInv, NEW o \in Orders, MarkExpired(o), invoice' = invoice,
         invoice[o] = "EXPIRED", order[o] # "none"
  PROVE  /\ order' \in [Orders -> {"none", "PENDING"} \cup Final]
         /\ order'[o] = "EXPIRED" /\ \A q \in Orders \ {o} : order'[q] = order[q]
         /\ sales' \in [Orders -> [live : 0..1, deleted : BOOLEAN]]
         /\ \A q \in Orders : (order[q] \in Final => order'[q] = order[q]) /\ (order[q] # "none" => order'[q] # "none")
         /\ faults' \in 0..MaxFaults /\ conflict' \in BOOLEAN
         /\ OrderFollowsInvoice' /\ DeletedPaid' /\ Placed'
<1>t. PaymentTypeOK
  BY DEF PaymentInv
<1>1. /\ order' = [order EXCEPT ![o] = "EXPIRED"]
      /\ UNCHANGED <<sales, faults, conflict>>
  BY DEF MarkExpired
<1>2. order' \in [Orders -> {"none", "PENDING"} \cup Final]
  BY <1>1, <1>t DEF PaymentTypeOK, Final
<1>3. order'[o] = "EXPIRED" /\ \A q \in Orders \ {o} : order'[q] = order[q]
  BY <1>1, <1>t DEF PaymentTypeOK
<1>4. order[o] # "PAID" /\ (order[o] \in Final => order[o] = "EXPIRED")
  BY DEF PaymentInv, OrderFollowsInvoice, Final
<1>5. OrderFollowsInvoice'
  BY <1>1, <1>3, <1>4 DEF PaymentInv, OrderFollowsInvoice
<1>6. DeletedPaid' /\ Placed'
  BY <1>1, <1>3, <1>4 DEF PaymentInv, DeletedPaid, Placed
<1>7. /\ sales' \in [Orders -> [live : 0..1, deleted : BOOLEAN]]
      /\ faults' \in 0..MaxFaults /\ conflict' \in BOOLEAN
  BY <1>1, <1>t DEF PaymentTypeOK
<1>8. \A q \in Orders : (order[q] \in Final => order'[q] = order[q]) /\ (order[q] # "none" => order'[q] # "none")
  BY <1>3, <1>4
<1> QED
  BY <1>2, <1>3, <1>5, <1>6, <1>7, <1>8

\* A webhook speaks of the order it was read for, and ends with its answer.
LEMMA WebhookKeeps ==
  ASSUME PaymentInv, NEW w \in Webhooks, WebhookPaid(w) \/ WebhookExpired(w)
  PROVE  PaymentInv'
<1>t. PaymentTypeOK
  BY DEF PaymentInv
<1> DEFINE o == webhook[w].o
<1>1. webhook[w] # Nothing /\ AnswerWebhook(w)
  BY DEF WebhookPaid, WebhookExpired
<1>2. o \in Orders /\ Agrees(webhook[w]) /\ order[o] # "none"
  BY <1>1, <1>t DEF PaymentTypeOK, Events, PaymentInv, Told
<1>3. /\ webhook' = [webhook EXCEPT ![w] = Nothing]
      /\ events' \subseteq events
      /\ UNCHANGED <<invoice, page, poll>>
  BY <1>1 DEF AnswerWebhook
<1>4. /\ webhook' \in [Webhooks -> Events \cup {Nothing}]
      /\ \A v \in Webhooks : webhook'[v] \in {webhook[v], Nothing}
  BY <1>3, <1>t DEF PaymentTypeOK
<1>5. poll' \in [Orders -> [Polls -> PollsOf \cup {Nothing}]]
  BY <1>3, <1>t DEF PaymentTypeOK
<1>6. CASE WebhookPaid(w)
  <2>1. MarkPaid(o) /\ invoice[o] = "PAID"
    BY <1>2, <1>6 DEF WebhookPaid, Agrees
  <2>2. invoice' = invoice
    BY <1>3
  <2> HIDE DEF o
  <2> QED
    BY <1>2, <1>3, <1>4, <1>5, <2>1, <2>2, MarkPaidDoes, StatusKeeps
<1>7. CASE WebhookExpired(w)
  <2>1. MarkExpired(o) /\ invoice[o] = "EXPIRED"
    BY <1>2, <1>7 DEF WebhookExpired, Agrees
  <2>2. invoice' = invoice
    BY <1>3
  <2> HIDE DEF o
  <2> QED
    BY <1>2, <1>3, <1>4, <1>5, <2>1, <2>2, MarkExpiredDoes, StatusKeeps
<1> QED
  BY <1>6, <1>7

\* A request of the page records what it has seen, of an order it agrees with.
LEMMA PollKeeps ==
  ASSUME PaymentInv, NEW o \in Orders, NEW p \in Polls, PollPaid(o, p) \/ PollExpired(o, p)
  PROVE  PaymentInv'
<1>t. PaymentTypeOK
  BY DEF PaymentInv
<1>1. poll[o][p] # Nothing /\ UNCHANGED <<invoice, events, webhook, page>>
  BY DEF PollPaid, PollExpired, Confirming, atXendit
<1>2. Truthful(o, poll[o][p]) /\ poll[o][p] \in PollsOf
  BY <1>1, <1>t DEF PaymentTypeOK, PaymentInv, Polled
<1>3. order[o] # "none" /\ invoice' = invoice
  BY <1>1, <1>2 DEF Truthful
<1>4. webhook' \in [Webhooks -> Events \cup {Nothing}] /\ \A v \in Webhooks : webhook'[v] \in {webhook[v], Nothing}
  BY <1>1, <1>t DEF PaymentTypeOK
<1>5. ASSUME NEW r \in PollsOf, SetPoll(o, p, r), r.at \in {"seen", "answer"}, r.seen = order'[o],
             order'[o] \in Final
      PROVE  /\ poll' \in [Orders -> [Polls -> PollsOf \cup {Nothing}]]
             /\ \A q \in Orders : \A s \in Polls :
                  poll'[q][s] # poll[q][s] /\ poll'[q][s] # Nothing => Truthful(q, poll[q][s])'
  <2>1. /\ poll' \in [Orders -> [Polls -> PollsOf \cup {Nothing}]]
        /\ poll'[o][p] = r
        /\ \A q \in Orders : \A s \in Polls : <<q, s>> # <<o, p>> => poll'[q][s] = poll[q][s]
    BY <1>5, <1>t, SetPollIs
  <2>2. Truthful(o, poll[o][p])'
    BY <1>5, <2>1 DEF Truthful, Final
  <2>3. ASSUME NEW q \in Orders, NEW s \in Polls, poll'[q][s] # poll[q][s]
        PROVE  Truthful(q, poll[q][s])'
    <3>1. q = o /\ s = p
      BY <2>1, <2>3
    <3> QED
      BY <2>2, <3>1
  <2> QED
    BY <2>1, <2>3
<1>6. CASE PollPaid(o, p)
  <2> DEFINE r == [at |-> IF poll[o][p].at = "apply" THEN "seen" ELSE "answer", seen |-> "PAID"]
  <2>1. MarkPaid(o) /\ SetPoll(o, p, r)
    BY <1>6 DEF PollPaid
  <2>2. invoice[o] = "PAID"
    BY <1>2, <1>6 DEF PollPaid, Confirming, Truthful, PaymentInv, OrderFollowsInvoice, Final
  <2>3. r \in PollsOf /\ r.at \in {"seen", "answer"} /\ r.seen = "PAID"
    BY DEF PollsOf, Final
  <2> HIDE DEF r
  <2>4. /\ order' \in [Orders -> {"none", "PENDING"} \cup Final]
        /\ order'[o] = "PAID"
        /\ sales' \in [Orders -> [live : 0..1, deleted : BOOLEAN]]
        /\ \A q \in Orders : (order[q] \in Final => order'[q] = order[q]) /\ (order[q] # "none" => order'[q] # "none")
        /\ faults' \in 0..MaxFaults /\ conflict' \in BOOLEAN
        /\ OrderFollowsInvoice' /\ DeletedPaid' /\ Placed'
    BY <1>3, <2>1, <2>2, MarkPaidDoes
  <2>5. /\ poll' \in [Orders -> [Polls -> PollsOf \cup {Nothing}]]
        /\ \A q \in Orders : \A s \in Polls :
             poll'[q][s] # poll[q][s] /\ poll'[q][s] # Nothing => Truthful(q, poll[q][s])'
    BY <1>5, <2>1, <2>3, <2>4 DEF Final
  <2> QED
    BY <1>1, <1>4, <2>4, <2>5, StatusKeeps
<1>7. CASE PollExpired(o, p)
  <2> DEFINE r == [at |-> "answer", seen |-> "EXPIRED"]
  <2>1. MarkExpired(o) /\ SetPoll(o, p, r)
    BY <1>7 DEF PollExpired
  <2>2. invoice[o] = "EXPIRED"
    BY <1>2, <1>7 DEF PollExpired, Truthful
  <2>3. r \in PollsOf /\ r.at \in {"seen", "answer"} /\ r.seen = "EXPIRED"
    BY DEF PollsOf, Final
  <2> HIDE DEF r
  <2>4. /\ order' \in [Orders -> {"none", "PENDING"} \cup Final]
        /\ order'[o] = "EXPIRED"
        /\ sales' \in [Orders -> [live : 0..1, deleted : BOOLEAN]]
        /\ \A q \in Orders : (order[q] \in Final => order'[q] = order[q]) /\ (order[q] # "none" => order'[q] # "none")
        /\ faults' \in 0..MaxFaults /\ conflict' \in BOOLEAN
        /\ OrderFollowsInvoice' /\ DeletedPaid' /\ Placed'
    BY <1>3, <2>1, <2>2, MarkExpiredDoes
  <2>5. /\ poll' \in [Orders -> [Polls -> PollsOf \cup {Nothing}]]
        /\ \A q \in Orders : \A s \in Polls :
             poll'[q][s] # poll[q][s] /\ poll'[q][s] # Nothing => Truthful(q, poll[q][s])'
    BY <1>5, <2>1, <2>3, <2>4 DEF Final
  <2> QED
    BY <1>1, <1>4, <2>4, <2>5, StatusKeeps
<1> QED
  BY <1>6, <1>7

\* The ERP deletes the one Sales Order a paid order has.
LEMMA DeleteDoes ==
  ASSUME PaymentInv, NEW o \in Orders, DeleteSalesOrder(o)
  PROVE  /\ order[o] = "PAID" /\ sales[o].live = 1
         /\ sales' \in [Orders -> [live : 0..1, deleted : BOOLEAN]]
         /\ sales'[o] = [live |-> 0, deleted |-> TRUE]
         /\ \A q \in Orders \ {o} : sales'[q] = sales[q]
<1>1. sales \in [Orders -> [live : 0..1, deleted : BOOLEAN]]
  BY DEF PaymentInv, PaymentTypeOK
<1>2. sales[o].live \in 0..1 /\ sales[o].live > 0
  BY <1>1 DEF DeleteSalesOrder
<1>3. sales[o].live = 1
  BY <1>2
<1>4. order[o] = "PAID"
  BY <1>3 DEF PaymentInv, OrderFollowsInvoice
<1>5. sales' = [sales EXCEPT ![o] = [live |-> 0, deleted |-> TRUE]]
  BY <1>3 DEF DeleteSalesOrder
<1>6. [live |-> 0, deleted |-> TRUE] \in [live : 0..1, deleted : BOOLEAN]
  OBVIOUS
<1> QED
  BY <1>1, <1>3, <1>4, <1>5, <1>6

LEMMA DeleteKeeps == ASSUME PaymentInv, NEW o \in Orders, DeleteSalesOrder(o) PROVE PaymentInv'
<1>t. PaymentTypeOK
  BY DEF PaymentInv
<1>1. UNCHANGED <<order, invoice, events, webhook, page, poll, faults, conflict>>
  BY DEF DeleteSalesOrder, atXendit
<1>2. /\ order[o] = "PAID" /\ sales[o].live = 1
      /\ sales' \in [Orders -> [live : 0..1, deleted : BOOLEAN]]
      /\ sales'[o] = [live |-> 0, deleted |-> TRUE]
      /\ \A q \in Orders \ {o} : sales'[q] = sales[q]
  BY DeleteDoes
<1>3. OrderFollowsInvoice' /\ DeletedPaid' /\ Placed'
  BY <1>1, <1>2 DEF PaymentInv, OrderFollowsInvoice, DeletedPaid, Placed
<1>4. /\ order' \in [Orders -> {"none", "PENDING"} \cup Final]
      /\ webhook' \in [Webhooks -> Events \cup {Nothing}]
      /\ poll' \in [Orders -> [Polls -> PollsOf \cup {Nothing}]]
  BY <1>1, <1>t DEF PaymentTypeOK
<1>5. faults' \in 0..MaxFaults /\ conflict' \in BOOLEAN
  BY <1>1, <1>t DEF PaymentTypeOK
<1> QED
  BY <1>1, <1>2, <1>3, <1>4, <1>5, StatusKeeps

-----------------------------------------------------------------------------
LEMMA PaymentInitHolds == PaymentInit => PaymentInv
<1> SUFFICES ASSUME PaymentInit PROVE PaymentInv
  OBVIOUS
<1>1. PaymentTypeOK
  <2>1. /\ order \in [Orders -> {"none", "PENDING"} \cup Final]
        /\ invoice \in [Orders -> {"none", "PENDING"} \cup Final]
        /\ page \in [Orders -> {"closed", "loading", "PENDING"} \cup Final]
    BY DEF PaymentInit
  <2>2. [live |-> 0, deleted |-> FALSE] \in [live : 0..1, deleted : BOOLEAN]
    OBVIOUS
  <2>3. sales \in [Orders -> [live : 0..1, deleted : BOOLEAN]]
    BY <2>2 DEF PaymentInit
  <2>4. events \subseteq Events /\ webhook \in [Webhooks -> Events \cup {Nothing}]
    BY DEF PaymentInit
  <2>5. [p \in Polls |-> Nothing] \in [Polls -> PollsOf \cup {Nothing}]
    OBVIOUS
  <2>6. poll \in [Orders -> [Polls -> PollsOf \cup {Nothing}]]
    BY <2>5 DEF PaymentInit
  <2>7. faults \in 0..MaxFaults
    BY PaymentAssumption DEF PaymentInit
  <2>8. conflict \in BOOLEAN
    BY DEF PaymentInit
  <2> QED
    BY <2>1, <2>3, <2>4, <2>6, <2>7, <2>8 DEF PaymentTypeOK
<1>2. OrderFollowsInvoice /\ DeletedPaid /\ PageTellsTruth /\ Placed /\ Opened
  BY DEF PaymentInit, OrderFollowsInvoice, DeletedPaid, PageTellsTruth, Placed, Opened, Final
<1>3. Told /\ Polled
  BY DEF PaymentInit, Told, Polled
<1> QED
  BY <1>1, <1>2, <1>3 DEF PaymentInv

LEMMA PaymentNextKeeps == ASSUME ~EarlyFailures, PaymentInv, [PaymentNext]_paymentVars PROVE PaymentInv'
<1>1. CASE UNCHANGED paymentVars
  BY <1>1 DEF paymentVars, PaymentInv, PaymentTypeOK, OrderFollowsInvoice, DeletedPaid, Told, Agrees,
              Polled, Truthful, Placed, Opened, PageTellsTruth
<1>2. ASSUME NEW o \in Orders,
             \/ MakeInvoice(o) \/ PlaceOrder(o)
             \/ Pay(o) \/ ExpireInvoice(o) \/ TellFailure(o)
             \/ OpenPage(o) \/ ClosePage(o) \/ DeleteSalesOrder(o)
      PROVE  PaymentInv'
  BY <1>2, XenditKeeps, PlaceKeeps, PageSteps, DeleteKeeps
<1>3. ASSUME NEW o \in Orders, NEW p \in Polls,
             BeginPoll(o, p) \/ HandlePoll(o, p) \/ ShowStatus(o, p)
      PROVE  PaymentInv'
  BY <1>3, PageSteps, PollKeeps DEF HandlePoll
<1>4. CASE LoseEvent \/ \E e \in events : IgnoreWebhook(e) \/ \E w \in Webhooks : ReadWebhook(w, e)
  BY <1>4, DeliverySteps
<1>5. ASSUME NEW w \in Webhooks, HandleWebhook(w) PROVE PaymentInv'
  BY <1>5, DeliverySteps, WebhookKeeps DEF HandleWebhook
<1> QED
  BY <1>1, <1>2, <1>3, <1>4, <1>5 DEF PaymentNext

\* The inductive invariant: what is under way speaks the truth about its invoice
\* or its order, and what is final stays.
THEOREM PaymentInductive == ASSUME ~EarlyFailures PROVE PaymentSpec => []PaymentInv
<1>1. PaymentInit => PaymentInv
  BY PaymentInitHolds
<1>2. PaymentInv /\ [PaymentNext]_paymentVars => PaymentInv'
  BY PaymentNextKeeps
<1> QED
  BY <1>1, <1>2, PTL DEF PaymentSpec

\* The payment fields, the invoice, the page and its requests stay what they are.
THEOREM PaymentTypeCorrect == ASSUME ~EarlyFailures PROVE PaymentSpec => []PaymentTypeOK
<1>1. PaymentInv => PaymentTypeOK
  BY DEF PaymentInv
<1> QED
  BY <1>1, PaymentInductive, PTL

\* However often and by whichever handler an order is confirmed, it is paid only when
\* its invoice was, with one Sales Order (order_sync.go:19-33, 76-132).
THEOREM OrdersFollowTheMoney == ASSUME ~EarlyFailures PROVE PaymentSpec => []OrderFollowsInvoice
<1>1. PaymentInv => OrderFollowsInvoice
  BY DEF PaymentInv
<1> QED
  BY <1>1, PaymentInductive, PTL

\* The page says paid or expired only of an order that is, whatever the order of its
\* answers (routes/payments/index.tsx:57-72).
THEOREM BuyersAreToldTheTruth == ASSUME ~EarlyFailures PROVE PaymentSpec => []PageTellsTruth
<1>1. PaymentInv => PageTellsTruth
  BY DEF PaymentInv
<1> QED
  BY <1>1, PaymentInductive, PTL

-----------------------------------------------------------------------------
(* Storefront orders live as StoreOrderLife says *)

\* A step of one order, seen from StoreOrderLife.
LEMMA LifeStep ==
  ASSUME NEW o \in Orders, NEW from, NEW to, NEW made,
         LivesAs[order[o]] = from, LivesAs[order'[o]] = to,
         sales'[o].live = made,
         \A q \in Orders \ {o} : order'[q] = order[q] /\ sales'[q] = sales[q]
  PROVE  Life!Step(o, from, to, made)
  BY DEF Life!Step

\* What a step does to the orders and their Sales Orders.
LEMMA StepMaps == ASSUME PaymentInv, [PaymentNext]_paymentVars PROVE [Life!LifeNext]_Life!lifeVars
<1>t. order \in [Orders -> {"none", "PENDING"} \cup Final]
  BY DEF PaymentInv, PaymentTypeOK
<1>s. sales \in [Orders -> [live : 0..1, deleted : BOOLEAN]]
  BY DEF PaymentInv, PaymentTypeOK
<1>1. CASE UNCHANGED <<order, sales>>
  BY <1>1 DEF Life!lifeVars
<1>2. ASSUME NEW o \in Orders, PlaceOrder(o) PROVE Life!LifeNext
  <2>1. order[o] = "none" /\ sales' = sales /\ order' = [order EXCEPT ![o] = "PENDING"]
    BY <1>2 DEF PlaceOrder
  <2>2. sales[o].live = 0
    BY <2>1, <1>s DEF PaymentInv, OrderFollowsInvoice
  <2>3. Life!Step(o, "none", "open", 0)
    <3>1. order'[o] = "PENDING" /\ \A q \in Orders \ {o} : order'[q] = order[q]
      BY <2>1, <1>t
    <3>2. LivesAs[order[o]] = "none" /\ LivesAs[order'[o]] = "open"
      BY <2>1, <3>1 DEF LivesAs
    <3> QED
      BY <2>1, <2>2, <3>1, <3>2, LifeStep
  <2> QED
    BY <2>3 DEF Life!LifeNext, Life!Place
<1>3. ASSUME NEW o \in Orders, MarkPaid(o), invoice' = invoice, invoice[o] = "PAID", order[o] # "none"
      PROVE  [Life!LifeNext]_Life!lifeVars
  <2>1. order' = [order EXCEPT ![o] = "PAID"] /\ sales' = [sales EXCEPT ![o] = SalesOf(o)] /\ ~Conflicts(o)
    BY <1>3 DEF MarkPaid
  <2>2. order[o] \in {"PENDING", "PAID"}
    BY <1>3, <1>t DEF PaymentInv, OrderFollowsInvoice, Final
  <2>3. CASE order[o] = "PAID"
    <3>1. sales[o].live = 1
      BY <2>1, <2>3, <1>s DEF PaymentInv, OrderFollowsInvoice, Conflicts
    <3>2. SalesOf(o) = sales[o]
      BY <3>1 DEF SalesOf
    <3> QED
      BY <2>1, <2>3, <3>2, <1>t, <1>s, <1>1
  <2>4. CASE order[o] = "PENDING"
    <3>1. order'[o] = "PAID" /\ \A q \in Orders \ {o} : order'[q] = order[q]
      BY <2>1, <1>t
    <3>2. sales'[o] = SalesOf(o) /\ \A q \in Orders \ {o} : sales'[q] = sales[q]
      BY <2>1, <1>s
    <3>3. sales[o].live = 0
      BY <2>4, <1>s DEF PaymentInv, OrderFollowsInvoice
    <3>4. SalesOf(o).live = 1
      BY <3>3, <1>s DEF SalesOf
    <3>5. LivesAs[order[o]] = "open" /\ LivesAs[order'[o]] = "paid"
      BY <2>4, <3>1 DEF LivesAs
    <3>6. Life!Step(o, "open", "paid", 1)
      BY <3>1, <3>2, <3>4, <3>5, LifeStep
    <3> QED
      BY <3>6 DEF Life!LifeNext, Life!Confirm
  <2> QED
    BY <2>2, <2>3, <2>4
<1>4. ASSUME NEW o \in Orders, MarkExpired(o), invoice' = invoice, invoice[o] = "EXPIRED", order[o] # "none"
      PROVE  [Life!LifeNext]_Life!lifeVars
  <2>1. order' = [order EXCEPT ![o] = "EXPIRED"] /\ sales' = sales
    BY <1>4 DEF MarkExpired
  <2>2. order[o] \in {"PENDING", "EXPIRED"}
    BY <1>4, <1>t DEF PaymentInv, OrderFollowsInvoice, Final
  <2>3. CASE order[o] = "EXPIRED"
    BY <2>1, <2>3, <1>t, <1>1
  <2>4. CASE order[o] = "PENDING"
    <3>1. order'[o] = "EXPIRED" /\ \A q \in Orders \ {o} : order'[q] = order[q]
      BY <2>1, <1>t
    <3>2. sales[o].live = 0
      BY <2>4, <1>s DEF PaymentInv, OrderFollowsInvoice
    <3>3. LivesAs[order[o]] = "open" /\ LivesAs[order'[o]] = "expired"
      BY <2>4, <3>1 DEF LivesAs
    <3>4. Life!Step(o, "open", "expired", 0)
      BY <2>1, <3>1, <3>2, <3>3, LifeStep
    <3> QED
      BY <3>4 DEF Life!LifeNext, Life!Expire
  <2> QED
    BY <2>2, <2>3, <2>4
<1>5. ASSUME NEW o \in Orders, DeleteSalesOrder(o) PROVE Life!LifeNext
  <2>1. /\ order[o] = "PAID" /\ order' = order
        /\ sales'[o] = [live |-> 0, deleted |-> TRUE]
        /\ \A q \in Orders \ {o} : sales'[q] = sales[q]
    BY <1>5, DeleteDoes DEF DeleteSalesOrder
  <2>2. LivesAs[order[o]] = "paid" /\ LivesAs[order'[o]] = "paid"
    BY <2>1 DEF LivesAs
  <2>3. Life!Step(o, "paid", "paid", 0)
    BY <2>1, <2>2, LifeStep
  <2> QED
    BY <2>3 DEF Life!LifeNext, Life!Remove
<1>6. ASSUME NEW w \in Webhooks, HandleWebhook(w) PROVE [Life!LifeNext]_Life!lifeVars
  <2>1. CASE WebhookFails(w)
    BY <2>1, <1>1 DEF WebhookFails, MarkPaidFails
  <2>2. CASE WebhookPaid(w) \/ WebhookExpired(w)
    <3>1. webhook[w] # Nothing /\ webhook[w] \in Events /\ invoice' = invoice
      BY <2>2 DEF WebhookPaid, WebhookExpired, AnswerWebhook, PaymentInv, PaymentTypeOK
    <3>2. webhook[w].o \in Orders /\ Agrees(webhook[w]) /\ order[webhook[w].o] # "none"
      BY <3>1 DEF PaymentInv, Told, Events
    <3>3. CASE WebhookPaid(w)
      BY <3>1, <3>2, <3>3, <1>3 DEF WebhookPaid, Agrees
    <3>4. CASE WebhookExpired(w)
      BY <3>1, <3>2, <3>4, <1>4 DEF WebhookExpired, Agrees
    <3> QED
      BY <2>2, <3>3, <3>4
  <2> QED
    BY <1>6, <2>1, <2>2 DEF HandleWebhook
<1>7. ASSUME NEW o \in Orders, NEW p \in Polls, HandlePoll(o, p) PROVE [Life!LifeNext]_Life!lifeVars
  <2>1. CASE XenditAnswers(o, p) \/ XenditUnreachable(o, p) \/ PollFails(o, p)
    BY <2>1, <1>1 DEF XenditAnswers, XenditUnreachable, AskXendit, PollFails, MarkPaidFails
  <2>2. CASE PollPaid(o, p) \/ PollExpired(o, p)
    <3>1. poll[o][p] # Nothing /\ invoice' = invoice
      BY <2>2 DEF PollPaid, PollExpired, Confirming, atXendit
    <3>2. Truthful(o, poll[o][p])
      BY <3>1 DEF PaymentInv, Polled
    <3>3. CASE PollPaid(o, p)
      <4>1. invoice[o] = "PAID" /\ order[o] # "none" /\ MarkPaid(o)
        BY <3>2, <3>3 DEF PollPaid, Confirming, Truthful, PaymentInv, OrderFollowsInvoice, Final
      <4> QED
        BY <3>1, <4>1, <1>3
    <3>4. CASE PollExpired(o, p)
      <4>1. invoice[o] = "EXPIRED" /\ order[o] # "none" /\ MarkExpired(o)
        BY <3>2, <3>4 DEF PollExpired, Truthful
      <4> QED
        BY <3>1, <4>1, <1>4
    <3> QED
      BY <2>2, <3>3, <3>4
  <2> QED
    BY <1>7, <2>1, <2>2 DEF HandlePoll
<1>8. CASE UNCHANGED paymentVars
  BY <1>8, <1>1 DEF paymentVars
<1>9. ASSUME NEW o \in Orders,
             \/ MakeInvoice(o) \/ Pay(o) \/ ExpireInvoice(o) \/ TellFailure(o)
             \/ OpenPage(o) \/ ClosePage(o)
             \/ \E p \in Polls : BeginPoll(o, p) \/ ShowStatus(o, p)
      PROVE  UNCHANGED <<order, sales>>
  BY <1>9 DEF MakeInvoice, Pay, ExpireInvoice, TellFailure, OpenPage, ClosePage, BeginPoll, ShowStatus
<1>10. CASE LoseEvent \/ \E e \in events : IgnoreWebhook(e) \/ \E w \in Webhooks : ReadWebhook(w, e)
  BY <1>10, <1>1 DEF LoseEvent, IgnoreWebhook, ReadWebhook
<1> QED
  BY <1>1, <1>2, <1>5, <1>6, <1>7, <1>8, <1>9, <1>10 DEF PaymentNext

\* Storefront orders live as StoreOrderLife says: paid and expired are final, and the
\* Sales Order comes in the step that makes the order paid (order_sync.go:19-33).
THEOREM OrdersLive == ASSUME ~EarlyFailures PROVE PaymentSpec => ImplementsLife
<1>1. PaymentInit => Life!LifeInit
  BY DEF PaymentInit, Life!LifeInit, LivesAs
<1>2. PaymentInv /\ [PaymentNext]_paymentVars => [Life!LifeNext]_Life!lifeVars
  BY StepMaps
<1> QED
  BY <1>1, <1>2, PaymentInductive, PTL DEF PaymentSpec, ImplementsLife, Life!LifeSpec
=============================================================================
