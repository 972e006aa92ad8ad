---------------------------- MODULE SalesInvoice ----------------------------
(***************************************************************************)
(* Sales Invoices and their Credit Notes: the controller that creates,      *)
(* submits, cancels, settles and refunds them, and the page of the admin    *)
(* application that calls it and amends a cancelled invoice by creating it  *)
(* anew from what it shows.                                                 *)
(*                                                                         *)
(* Every handler loads the document and checks it, and changes the database *)
(* later: in one transaction (Submit, Update, Refund) or one statement.     *)
(* Requests of several users interleave between the two.  Save writes the   *)
(* whole row as it was loaded.                                              *)
(*                                                                         *)
(* Amounts are counted in units: one item, no tax, advance or discount.  An *)
(* invoice is owed, paid, set off and refunded by the unit.  In money these *)
(* differ: an invoice is paid with its rounded total, while a Credit Note   *)
(* sets off and pays back its grand total, without the invoice's discount.  *)
(***************************************************************************)
EXTENDS Naturals, FiniteSets, FiniteSetsExt

CONSTANTS
  Docs,           \* documents that can be created
  Clients,        \* requests handled at once
  None,
  MaxQty,         \* bound: the quantity of an invoice
  Overlap,        \* TRUE: two requests may change one document at the same time
  CancelSettled   \* TRUE: documents are cancelled after they were paid, refunded or set off

ASSUME InvoiceAssumption ==
  /\ MaxQty \in Nat /\ {Overlap, CancelSettled} \subseteq BOOLEAN
  /\ None \notin Docs /\ IsFiniteSet(Docs)

VARIABLES
  row,       \* the row of each document
  posted,    \* postings of its Submit in selling_ledger_entries
  refunds,   \* postings of a refund of it
  awards,    \* loyalty entries that name it
  req,       \* what each request has loaded
  paidUnits  \* history: units that were owed on invoices when they were marked paid

vars == <<row, posted, refunds, awards, req, paidUnits>>
books == <<posted, refunds, awards>>

----------------------------------------------------------------------------
NoRow == [st |-> "none", against |-> None, qty |-> 0, paid |-> FALSE, outstanding |-> 0,
          refund |-> "Not Applicable"]

IsReturn(r) == r.against # None

\* calculateSalesInvoice: what is paid keeps the outstanding amount it had.
Calculated(r) ==
  [r EXCEPT !.outstanding = IF IsReturn(r) THEN 0 ELSE IF r.paid THEN @ ELSE r.qty]

Init ==
  /\ row = [d \in Docs |-> NoRow]
  /\ posted = [d \in Docs |-> 0]
  /\ refunds = [d \in Docs |-> 0]
  /\ awards = [d \in Docs |-> 0]
  /\ req = [c \in Clients |-> None]
  /\ paidUnits = 0

Notes(d) == {n \in Docs : row[n].against = d}
Qty      == [d \in Docs |-> row[d].qty]
Sum(ds)  == MapThenSumSet(LAMBDA d : Qty[d], ds)

\* What earlier Credit Notes leave of the invoice; the cancelled ones do not count.
Left(d) == row[d].qty - Sum({n \in Notes(d) : row[n].st \in {"Draft", "Submitted"}})

----------------------------------------------------------------------------
(* The first half of a handler: load and check *)

Free(d) == Overlap \/ {c \in Clients : req[c] # None /\ req[c].doc = d} = {}

Load(c, op, d, allowed) ==
  /\ req[c] = None /\ Free(d)
  /\ row[d].st \in {"Draft", "Submitted", "Cancelled"} /\ allowed
  /\ req' = [req EXCEPT ![c] = [op |-> op, doc |-> d, seen |-> row[d],
                                left |-> Left(d), award |-> awards[d]]]
  /\ UNCHANGED <<row, books, paidUnits>>

LoadSubmit(c, d) == Load(c, "submit", d, row[d].st = "Draft")

\* Submitting a submitted invoice again only awards the points that are missing.
LoadAward(c, d) == Load(c, "award", d, row[d].st = "Submitted" /\ ~IsReturn(row[d]))

LoadUpdate(c, d) == Load(c, "update", d, row[d].st = "Draft" /\ ~IsReturn(row[d]))

Settled(r) == r.paid \/ r.refund \in {"Refunded", "Credit Available"}

LoadCancel(c, d) ==
  Load(c, "cancel", d, row[d].st = "Submitted" /\ (CancelSettled \/ ~Settled(row[d])))

\* Mutant: a Credit Note is credited itself.
LoadReturnAny(c, d) == Load(c, "return", d, row[d].st = "Submitted")
LoadReturn(c, d) == Load(c, "return", d, row[d].st = "Submitted" /\ ~IsReturn(row[d]))

LoadMarkPaid(c, d) == Load(c, "paid", d, row[d].st = "Submitted" /\ ~IsReturn(row[d]))

\* Mutant: what was refunded is refunded again.
RefundableAgain == {"Pending Refund", "Refunded"}
Refundable == {"Pending Refund"}

LoadRefund(c, d) ==
  Load(c, "refund", d, IsReturn(row[d]) /\ row[d].st = "Submitted" /\ row[d].refund \in Refundable)

----------------------------------------------------------------------------
(* The second half: change the database, all of it or nothing *)

Done(c, op) == req[c] # None /\ req[c].op = op /\ req' = [req EXCEPT ![c] = None]

Unused(d) == row[d].st = "none"

New(d, r) == Unused(d) /\ row' = [row EXCEPT ![d] = Calculated(r)]

Create(d, qty) ==
  /\ New(d, [NoRow EXCEPT !.st = "Draft", !.qty = qty])
  /\ UNCHANGED <<books, req, paidUnits>>

\* amend() of the page: a new draft with the fields of the cancelled one.
Amend(d, new) ==
  /\ row[d].st = "Cancelled" /\ ~IsReturn(row[d])
  /\ New(new, [row[d] EXCEPT !.st = "Draft"])
  /\ UNCHANGED <<books, req, paidUnits>>

\* Mutant: the Credit Note leaves the source alone.
NotSetOff(r, d) == row[d].outstanding
SetOff(r, d) ==
  IF IsReturn(r) /\ r.refund = "Credit Available" /\ d = r.against
  THEN IF row[d].outstanding > r.qty THEN row[d].outstanding - r.qty ELSE 0
  ELSE row[d].outstanding

Award(d, seen) ==
  \/ UNCHANGED awards
  \/ seen = 0 /\ awards' = [awards EXCEPT ![d] = @ + 1]

CommitSubmit(c) ==
  LET q == req[c] IN
  /\ Done(c, "submit")
  /\ row' = [d \in Docs |-> IF d = q.doc THEN [q.seen EXCEPT !.st = "Submitted"]
                            ELSE [row[d] EXCEPT !.outstanding = SetOff(q.seen, d)]]
  /\ posted' = [posted EXCEPT ![q.doc] = @ + 1]
  /\ IF IsReturn(q.seen) THEN UNCHANGED awards ELSE Award(q.doc, awards[q.doc])
  /\ UNCHANGED <<refunds, paidUnits>>

\* No transaction: the look for an entry and the insert are two statements.
CommitAward(c) ==
  /\ Done(c, "award")
  /\ Award(req[c].doc, req[c].award)
  /\ UNCHANGED <<row, posted, refunds, paidUnits>>

CommitUpdate(c, qty) ==
  /\ Done(c, "update")
  /\ row' = [row EXCEPT ![req[c].doc] = Calculated([req[c].seen EXCEPT !.qty = qty])]
  /\ UNCHANGED <<books, paidUnits>>

CommitCancel(c) ==
  /\ Done(c, "cancel")
  /\ row' = [row EXCEPT ![req[c].doc] = [req[c].seen EXCEPT !.st = "Cancelled"]]
  /\ UNCHANGED <<books, paidUnits>>

\* Mutant: earlier Credit Notes do not count.
LeavesAll(q) == q.seen.qty
Leaves(q) == q.left

\* The kind of settlement is decided when the Credit Note is made.
CommitReturn(c, new, qty) ==
  LET q == req[c] IN
  /\ Done(c, "return") /\ qty <= Leaves(q)
  /\ New(new, [NoRow EXCEPT !.st = "Draft", !.against = q.doc, !.qty = qty,
                            !.refund = IF q.seen.paid THEN "Pending Refund" ELSE "Credit Available"])
  /\ UNCHANGED <<books, paidUnits>>

\* Only two columns, whatever else the row has become.
CommitMarkPaid(c) ==
  LET d == req[c].doc IN
  /\ Done(c, "paid")
  /\ row' = [row EXCEPT ![d].paid = TRUE, ![d].outstanding = 0]
  /\ paidUnits' = paidUnits + (IF row[d].paid THEN 0 ELSE row[d].outstanding)
  /\ UNCHANGED books

CommitRefund(c) ==
  LET d == req[c].doc IN
  /\ Done(c, "refund")
  /\ row' = [row EXCEPT ![d].refund = "Refunded"]
  /\ refunds' = [refunds EXCEPT ![d] = @ + 1]
  /\ UNCHANGED <<posted, awards, paidUnits>>

\* One statement with the status in its condition.
Delete(d) ==
  /\ row[d].st = "Draft"
  /\ row' = [row EXCEPT ![d] = [NoRow EXCEPT !.st = "deleted"]]
  /\ UNCHANGED <<books, req, paidUnits>>

\* Refused after all, or rolled back.
Fail(c) ==
  /\ req[c] # None
  /\ req' = [req EXCEPT ![c] = None]
  /\ UNCHANGED <<row, books, paidUnits>>

LoadAny(c, d) ==
  \/ LoadSubmit(c, d) \/ LoadAward(c, d) \/ LoadUpdate(c, d) \/ LoadCancel(c, d)
  \/ LoadReturn(c, d) \/ LoadMarkPaid(c, d) \/ LoadRefund(c, d)

Commit(c) ==
  \/ CommitSubmit(c) \/ CommitAward(c) \/ CommitCancel(c) \/ CommitMarkPaid(c) \/ CommitRefund(c)
  \/ \E qty \in 1..MaxQty : CommitUpdate(c, qty) \/ \E new \in Docs : CommitReturn(c, new, qty)

Next ==
  \/ \E d \in Docs, qty \in 1..MaxQty : Create(d, qty)
  \/ \E d, new \in Docs : Amend(d, new)
  \/ \E d \in Docs : Free(d) /\ Delete(d)
  \/ \E c \in Clients, d \in Docs : LoadAny(c, d)
  \/ \E c \in Clients : Commit(c) \/ Fail(c)

Spec == Init /\ [][Next]_vars

----------------------------------------------------------------------------
(* Properties *)

Rows == [st : {"none", "Draft", "Submitted", "Cancelled", "deleted"}, against : Docs \cup {None},
         qty : 0..MaxQty, paid : BOOLEAN, outstanding : 0..MaxQty,
         refund : {"Not Applicable", "Credit Available", "Pending Refund", "Refunded"}]
Ops == {"submit", "award", "update", "cancel", "return", "paid", "refund"}

\* Statuses, quantities and amounts are those the controller writes, and a Credit Note is
\* made against an invoice, never against a Credit Note.
TypeOK ==
  /\ row \in [Docs -> Rows]
  /\ \A d \in Docs : IsReturn(row[d]) => row[row[d].against].st # "none" /\ ~IsReturn(row[row[d].against])
  /\ {posted, refunds, awards} \subseteq [Docs -> Nat]
  /\ \A c \in Clients : req[c] # None => /\ req[c].op \in Ops /\ req[c].doc \in Docs
                                         /\ req[c].seen \in Rows /\ req[c].left \in 0..MaxQty
  /\ paidUnits \in Nat

\* "Kuantitas Credit Note melebihi sisa invoice": all Credit Notes of an invoice that are
\* not cancelled together are never over what was sold, however drafts are made, deleted
\* and submitted in between (sales_invoice_controller.go, CreateReturn).
CreditsWithinSale ==
  \A d \in Docs : row[d].st \in {"Submitted", "Cancelled"} /\ ~IsReturn(row[d])
    => Sum({n \in Notes(d) : row[n].st \in {"Draft", "Submitted"}}) <= row[d].qty

\* The units owed on a submitted invoice are those its submitted Credit Notes leave of it,
\* none once it is paid; every document was posted once when it was submitted, and
\* once more when it was refunded; points are awarded at most once
\* (Submit, MarkPaid, Refund; "retries ... cannot award the same transaction twice",
\* loyalty_award.go:23-25).
AccountsAgree ==
  \A d \in Docs :
    /\ row[d].st = "Submitted" /\ ~IsReturn(row[d])
         => row[d].outstanding = IF row[d].paid THEN 0
                                 ELSE row[d].qty - Sum({n \in Notes(d) : row[n].st = "Submitted"})
    /\ posted[d] = IF row[d].st \in {"Submitted", "Cancelled"} THEN 1 ELSE 0
    /\ refunds[d] = IF row[d].refund = "Refunded" THEN 1 ELSE 0
    /\ awards[d] <= 1

\* No unit is refunded that was not paid for, and none twice, through any number of Credit
\* Notes, set-offs, amendments and refunds: what a Credit Note took off the invoice before
\* it was paid is not paid back, nor is a Credit Note refunded again (CreateReturn,
\* MarkPaid, Refund).  Of units, not of money: see the head of the module.
PaidBack == [d \in Docs |-> refunds[d] * row[d].qty]
RefundedUnitsWerePaid == MapThenSumSet(LAMBDA d : PaidBack[d], Docs) <= paidUnits
=============================================================================
