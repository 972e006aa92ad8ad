---------------------------- MODULE StorePayment ----------------------------
(***************************************************************************)
(* How a storefront order comes to be paid: the invoice at Xendit, the      *)
(* webhook that tells of it, the payment page of the landing site that asks *)
(* every four seconds, and the two handlers of the backend, both of which   *)
(* end in MarkStoreOrderPaid.                                               *)
(*                                                                         *)
(* A handler reads the order first and acts on what it read later; other    *)
(* handlers, of the same order too, run in between.  MarkStoreOrderPaid is  *)
(* one step: its first statement updates the row of the order, which later  *)
(* transactions on the order wait for until it has committed.               *)
(*                                                                         *)
(* Webhooks are delivered at least once while the backend answers with an   *)
(* error, can be repeated, reordered and lost; answers to the page can      *)
(* overtake each other.                                                     *)
(***************************************************************************)
EXTENDS Naturals, FiniteSets

CONSTANTS
  Orders,         \* storefront orders paid through Xendit
  Webhooks,       \* deliveries the backend can be handling at once
  Polls,          \* payment-status requests a page can have under way at once
  Nothing,
  EarlyFailures,  \* TRUE: FAILED and VOIDED may be told of an invoice that can still be paid
  MaxFaults       \* bound: database errors in MarkStoreOrderPaid

ASSUME PaymentAssumption ==
  /\ EarlyFailures \in BOOLEAN /\ MaxFaults \in Nat
  /\ Nothing \notin Orders

VARIABLES
  order,    \* payment_status of each store order, "none" before it is committed
  invoice,  \* the invoice at Xendit
  sales,    \* the Sales Orders of each order: live ones, and whether one was soft-deleted
  events,   \* notifications Xendit has still to deliver
  webhook,  \* deliveries being handled
  page,     \* the payment page of each order
  poll,     \* payment-status requests of each page
  faults,
  conflict  \* history: MarkStoreOrderPaid failed on the unique index of store_order_id

paymentVars == <<order, invoice, sales, events, webhook, page, poll, faults, conflict>>
atXendit == <<invoice, events>>

----------------------------------------------------------------------------
Final == {"PAID", "EXPIRED"}

PaymentInit ==
  /\ order = [o \in Orders |-> "none"]
  /\ invoice = [o \in Orders |-> "none"]
  /\ sales = [o \in Orders |-> [live |-> 0, deleted |-> FALSE]]
  /\ events = {}
  /\ webhook = [w \in Webhooks |-> Nothing]
  /\ page = [o \in Orders |-> "closed"]
  /\ poll = [o \in Orders |-> [p \in Polls |-> Nothing]]
  /\ faults = 0
  /\ conflict = FALSE

(* Checkout: the invoice is made inside the transaction of the order, and    *)
(* stays behind when that is rolled back; only an answered checkout sends    *)
(* the buyer to it.                                                          *)
MakeInvoice(o) ==
  /\ invoice[o] = "none"
  /\ invoice' = [invoice EXCEPT ![o] = "PENDING"]
  /\ UNCHANGED <<order, sales, events, webhook, page, poll, faults, conflict>>

PlaceOrder(o) ==
  /\ invoice[o] # "none" /\ order[o] = "none"
  /\ order' = [order EXCEPT ![o] = "PENDING"]
  /\ UNCHANGED <<invoice, sales, events, webhook, page, poll, faults, conflict>>

(* Xendit *)

Notify(o, status) == events' = events \cup {[o |-> o, status |-> status]}

Pay(o) ==
  /\ invoice[o] = "PENDING" /\ order[o] # "none"
  /\ invoice' = [invoice EXCEPT ![o] = "PAID"]
  /\ Notify(o, "PAID")
  /\ UNCHANGED <<order, sales, webhook, page, poll, faults, conflict>>

ExpireInvoice(o) ==
  /\ invoice[o] = "PENDING"
  /\ invoice' = [invoice EXCEPT ![o] = "EXPIRED"]
  /\ Notify(o, "EXPIRED")
  /\ UNCHANGED <<order, sales, webhook, page, poll, faults, conflict>>

\* FAILED and VOIDED, which the webhook takes for the end of the invoice.
TellFailure(o) ==
  /\ invoice[o] = "EXPIRED" \/ (EarlyFailures /\ invoice[o] = "PENDING")
  /\ Notify(o, "FAILED")
  /\ UNCHANGED <<order, invoice, sales, webhook, page, poll, faults, conflict>>

LoseEvent ==
  /\ \E e \in events : events' = events \ {e}
  /\ UNCHANGED <<order, invoice, sales, webhook, page, poll, faults, conflict>>

----------------------------------------------------------------------------
(* MarkStoreOrderPaid and EnsureERPSalesOrder, in one transaction *)

\* Mutant: the projection is inserted without looking for it, and nothing keeps it unique.
SalesAlwaysInserted(o) == [sales[o] EXCEPT !.live = @ + 1]
SalesOf(o) == IF sales[o].live > 0 THEN sales[o] ELSE [sales[o] EXCEPT !.live = 1]

\* The unique index holds soft-deleted rows, the lookup does not see them.
Conflicts(o) == sales[o].live = 0 /\ sales[o].deleted

\* Mutant: the Sales Order is left to a later confirmation.
MarkPaidOnly(o) ==
  /\ ~Conflicts(o)
  /\ order' = [order EXCEPT ![o] = "PAID"]
  /\ UNCHANGED <<sales, faults, conflict>>
MarkPaid(o) ==
  /\ ~Conflicts(o)
  /\ order' = [order EXCEPT ![o] = "PAID"]
  /\ sales' = [sales EXCEPT ![o] = SalesOf(o)]
  /\ UNCHANGED <<faults, conflict>>

MarkPaidFails(o) ==
  /\ \/ Conflicts(o) /\ conflict' = TRUE /\ faults' = faults
     \/ ~Conflicts(o) /\ faults < MaxFaults /\ faults' = faults + 1 /\ conflict' = conflict
  /\ UNCHANGED <<order, sales>>

MarkExpired(o) ==
  /\ order' = [order EXCEPT ![o] = "EXPIRED"]
  /\ UNCHANGED <<sales, faults, conflict>>

----------------------------------------------------------------------------
(* handleStorePaymentWebhook *)

\* An order that is not there is acknowledged and forgotten.
IgnoreWebhook(e) ==
  /\ e \in events /\ order[e.o] = "none"
  /\ events' = events \ {e}
  /\ UNCHANGED <<order, invoice, sales, webhook, page, poll, faults, conflict>>

ReadWebhook(w, e) ==
  /\ webhook[w] = Nothing
  /\ e \in events /\ order[e.o] # "none"
  /\ webhook' = [webhook EXCEPT ![w] = e]
  /\ UNCHANGED <<order, atXendit, sales, page, poll, faults, conflict>>

\* Acknowledged, unless the answer does not reach Xendit.
AnswerWebhook(w) ==
  /\ webhook' = [webhook EXCEPT ![w] = Nothing]
  /\ events' \in {events, events \ {webhook[w]}}
  /\ UNCHANGED <<invoice, page, poll>>

WebhookPaid(w) ==
  /\ webhook[w] # Nothing /\ webhook[w].status = "PAID"
  /\ MarkPaid(webhook[w].o)
  /\ AnswerWebhook(w)

\* Answered with 500: Xendit delivers it again.
WebhookFails(w) ==
  /\ webhook[w] # Nothing /\ webhook[w].status = "PAID"
  /\ MarkPaidFails(webhook[w].o)
  /\ webhook' = [webhook EXCEPT ![w] = Nothing]
  /\ UNCHANGED <<invoice, events, page, poll>>

WebhookExpired(w) ==
  /\ webhook[w] # Nothing /\ webhook[w].status \in {"EXPIRED", "FAILED"}
  /\ MarkExpired(webhook[w].o)
  /\ AnswerWebhook(w)

----------------------------------------------------------------------------
(* The payment page (routes/payments/index.tsx) and OrderPaymentStatus *)

OpenPage(o) ==
  /\ page[o] = "closed" /\ order[o] # "none"
  /\ page' = [page EXCEPT ![o] = "loading"]
  /\ UNCHANGED <<order, atXendit, sales, webhook, poll, faults, conflict>>

ClosePage(o) ==
  /\ page[o] # "closed"
  /\ page' = [page EXCEPT ![o] = "closed"]
  /\ poll' = [poll EXCEPT ![o] = [p \in Polls |-> Nothing]]
  /\ UNCHANGED <<order, atXendit, sales, webhook, faults, conflict>>

\* Mutant: the page stops asking at the first answer.
AsksUntilAnswered == {"loading"}
\* The interval is cleared only by a final status.
AsksWhile == {"loading", "PENDING"}

SetPoll(o, p, value) == poll' = [poll EXCEPT ![o][p] = value]

\* The request reaches the handler, which reads the order.
BeginPoll(o, p) ==
  /\ page[o] \in AsksWhile /\ poll[o][p] = Nothing
  /\ SetPoll(o, p, [at |-> IF order[o] = "PENDING" THEN "ask" ELSE "seen", seen |-> order[o]])
  /\ UNCHANGED <<order, atXendit, sales, webhook, page, faults, conflict>>

\* Mutant: what Xendit says is passed on and not recorded.
AskXenditUnrecorded(o, p, remote) ==
  /\ poll[o][p] # Nothing /\ poll[o][p].at = "ask"
  /\ SetPoll(o, p, [at |-> "answer", seen |-> remote])
  /\ UNCHANGED <<order, atXendit, sales, webhook, page, faults, conflict>>
AskXendit(o, p, remote) ==
  /\ poll[o][p] # Nothing /\ poll[o][p].at = "ask"
  /\ SetPoll(o, p, IF remote = "PENDING" THEN [at |-> "answer", seen |-> "PENDING"]
                   ELSE [at |-> "apply", seen |-> remote])
  /\ UNCHANGED <<order, atXendit, sales, webhook, page, faults, conflict>>

\* An error of Xendit's counts as no news.
XenditAnswers(o, p)    == AskXendit(o, p, invoice[o])
XenditUnreachable(o, p) == AskXendit(o, p, "PENDING")

\* A paid order is confirmed when Xendit says so, and again because it now is paid.
Confirming(o, p) ==
  poll[o][p] # Nothing /\ poll[o][p].at \in {"apply", "seen"} /\ poll[o][p].seen = "PAID"

PollPaid(o, p) ==
  /\ Confirming(o, p)
  /\ MarkPaid(o)
  /\ SetPoll(o, p, [at |-> IF poll[o][p].at = "apply" THEN "seen" ELSE "answer", seen |-> "PAID"])
  /\ UNCHANGED <<atXendit, webhook, page>>

\* Answered with 500, which leaves on the page what it showed.
PollFails(o, p) ==
  /\ Confirming(o, p)
  /\ MarkPaidFails(o)
  /\ SetPoll(o, p, Nothing)
  /\ UNCHANGED <<atXendit, webhook, page>>

PollExpired(o, p) ==
  /\ poll[o][p] # Nothing /\ poll[o][p] = [at |-> "apply", seen |-> "EXPIRED"]
  /\ MarkExpired(o)
  /\ SetPoll(o, p, [at |-> "answer", seen |-> "EXPIRED"])
  /\ UNCHANGED <<atXendit, webhook, page>>

\* The answers arrive in any order, and each is shown.
ShowStatus(o, p) ==
  /\ poll[o][p] # Nothing
  /\ poll[o][p].at = "answer" \/ poll[o][p] = [at |-> "seen", seen |-> "EXPIRED"]
  /\ page' = [page EXCEPT ![o] = poll[o][p].seen]
  /\ SetPoll(o, p, Nothing)
  /\ UNCHANGED <<order, atXendit, sales, webhook, faults, conflict>>

----------------------------------------------------------------------------
(* The ERP: DELETE /crm/sales-orders/:id is a soft delete *)
DeleteSalesOrder(o) ==
  /\ sales[o].live > 0
  /\ sales' = [sales EXCEPT ![o] = [live |-> @.live - 1, deleted |-> TRUE]]
  /\ UNCHANGED <<order, atXendit, webhook, page, poll, faults, conflict>>

HandleWebhook(w) == WebhookPaid(w) \/ WebhookFails(w) \/ WebhookExpired(w)
HandlePoll(o, p) == XenditAnswers(o, p) \/ XenditUnreachable(o, p) \/ PollPaid(o, p) \/ PollFails(o, p) \/ PollExpired(o, p)

PaymentNext ==
  \/ \E o \in Orders :
       \/ MakeInvoice(o) \/ PlaceOrder(o)
       \/ Pay(o) \/ ExpireInvoice(o) \/ TellFailure(o)
       \/ OpenPage(o) \/ ClosePage(o) \/ DeleteSalesOrder(o)
       \/ \E p \in Polls : BeginPoll(o, p) \/ HandlePoll(o, p) \/ ShowStatus(o, p)
  \/ LoseEvent
  \/ \E e \in events : IgnoreWebhook(e) \/ \E w \in Webhooks : ReadWebhook(w, e)
  \/ \E w \in Webhooks : HandleWebhook(w)

\* Handlers finish, the timer of an open page keeps firing, and Xendit is not
\* unreachable for ever.  Nothing is assumed of the webhook, which may be lost.
Fairness ==
  /\ \A w \in Webhooks : WF_paymentVars(HandleWebhook(w))
  /\ \A o \in Orders, p \in Polls :
       /\ WF_paymentVars(BeginPoll(o, p))
       /\ WF_paymentVars(HandlePoll(o, p))
       /\ WF_paymentVars(ShowStatus(o, p))
       /\ SF_paymentVars(XenditAnswers(o, p))

PaymentSpec == PaymentInit /\ [][PaymentNext]_paymentVars /\ Fairness

----------------------------------------------------------------------------
(* Properties *)

Events  == [o : Orders, status : {"PAID", "EXPIRED", "FAILED"}]
PollsOf == [at : {"ask", "apply", "seen", "answer"}, seen : {"PENDING"} \cup Final]

\* The payment fields of store_orders, the invoice and the page as the code spells them.
PaymentTypeOK ==
  /\ order \in [Orders -> {"none", "PENDING"} \cup Final]
  /\ invoice \in [Orders -> {"none", "PENDING"} \cup Final]
  /\ sales \in [Orders -> [live : 0..1, deleted : BOOLEAN]]
  /\ events \subseteq Events
  /\ webhook \in [Webhooks -> Events \cup {Nothing}]
  /\ page \in [Orders -> {"closed", "loading", "PENDING"} \cup Final]
  /\ poll \in [Orders -> [Polls -> PollsOf \cup {Nothing}]]
  /\ faults \in 0..MaxFaults
  /\ conflict \in BOOLEAN

\* The storefront and the ERP follow the money: an order is PAID only when its invoice
\* was paid and then has exactly one Sales Order, unless the ERP deleted it, an order that
\* is not PAID has none, and only an invoice that expired makes an order EXPIRED -- however often and by
\* whichever handler it is confirmed (order_sync.go:19-33, 76-132).
OrderFollowsInvoice ==
  \A o \in Orders :
    /\ order[o] \in Final => order[o] = invoice[o]
    /\ sales[o].live = (IF order[o] = "PAID" /\ ~sales[o].deleted THEN 1 ELSE 0)

\* What the buyer is told is so: the page says "Pembayaran berhasil" or "kedaluwarsa"
\* (routes/payments/index.tsx:72) only of an order that is PAID or EXPIRED, also when
\* its answers overtake each other.
PageTellsTruth == \A o \in Orders : page[o] \in Final => page[o] = order[o]

\* Storefront orders live as StoreOrderLife says.
LivesAs == [none |-> "none", PENDING |-> "open", PAID |-> "paid", EXPIRED |-> "expired"]
Life == INSTANCE StoreOrderLife WITH
  status <- [o \in Orders |-> LivesAs[order[o]]],
  sales  <- [o \in Orders |-> sales[o].live]

\* Paid and expired are final, and the Sales Order comes with the payment and in the
\* same step (MarkStoreOrderPaid, "in one transaction").
ImplementsLife == Life!LifeSpec

\* A payment is recorded and shown while its page is open, even when every webhook is
\* lost and the database fails now and then: the page keeps asking
\* (routes/payments/index.tsx:57-61, store_controller.go:540-560).  Only a Sales Order
\* deleted before the page has asked keeps it from being shown (see RepeatIsSafe).
PaymentShown == \A o \in Orders : invoice[o] = "PAID" /\ page[o] # "closed"
                                   ~> page[o] \in {"PAID", "closed"} \/ sales[o].deleted

\* "Calling it repeatedly is safe" (order_sync.go:17): MarkStoreOrderPaid never fails
\* because of an earlier call.  The unique index on (tenant, store order) makes it fail
\* for ever once the Sales Order was deleted in the ERP.
RepeatIsSafe == ~conflict
=============================================================================
