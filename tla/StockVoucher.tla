---------------------------- MODULE StockVoucher ----------------------------
(***************************************************************************)
(* One stock document (Stock Entry, Delivery Note, Purchase Receipt) and   *)
(* its rows of stock_ledger_entries.  All three controllers work alike: a  *)
(* request reads the header, then (gorm's Preload, a second query) the     *)
(* item lines, checks the status it has read, and only then opens the      *)
(* transaction that writes.  Inside the transaction nothing is read        *)
(* again, gorm's Save writes every column of the header that was read,     *)
(* and what stops a second posting is the unique index of the ledger on    *)
(* voucher_detail_id.  The three reads and writes of a request are the     *)
(* steps of this module; a transaction is one step.                        *)
(*                                                                         *)
(* What differs between the documents are the constants: which ledger rows *)
(* a line makes (Moves) and the rules of the controller (Policy).  A kind  *)
(* belongs to one controller; StockDocuments gives the kinds of all three. *)
(*                                                                         *)
(* A fourth controller writes the same rows: whoever opens the Stock       *)
(* Ledger report makes it look for rows that submitted documents lack      *)
(* (SyncMoves) and insert them, outside any transaction.                   *)
(***************************************************************************)
EXTENDS Integers, Bags

CONSTANTS
  Client,         \* users with at most one request in flight each
  LineId,         \* ids of item lines
  Kind,           \* header fields that decide what is posted, per controller
  NoLine,         \* stands for a line that does not exist
  Line(_),        \* contents of an item line of a document of some kind
  Moves(_, _),    \* ledger movements of a line in a document of some kind
  Policy(_),      \* rules of the controller for a document of some kind
  SyncMoves(_, _), \* movements of a line the report demands to see
  Reported,       \* kinds the report looks at
  CreateStatus,   \* values of "status" in the payload of Create
  RacingEdits     \* may Update (and Delete) overlap other requests?

\* The rules of a controller.
Rules == [document : STRING,        \* which controller it is
          edits : BOOLEAN,          \* may Create and Update make this kind?
          freshLines : BOOLEAN,     \* does Update give every line a new id?
          mayBeEmpty : BOOLEAN,     \* may a document be without lines?
          cancels : BOOLEAN,        \* is there Cancel?
          checkedDelete : BOOLEAN]  \* Delete is DELETE ... WHERE status = 'Draft'

ASSUME PolicyAssumption == \A k \in Kind : Policy(k) \in Rules
ASSUME KindAssumption == Kind # {}
ASSUME MovesAssumption ==
  \A k \in Kind : \A line \in Line(k) : \A m \in Moves(k, line) : m.qty \in Int
ASSUME LineAssumption == \A k \in Kind : NoLine \notin Line(k)
ASSUME ReportAssumption == Reported \subseteq Kind
ASSUME StatusAssumption == CreateStatus \subseteq {"Draft", "Submitted"}
ASSUME FlagAssumption == RacingEdits \in BOOLEAN

VARIABLES
  row,      \* header row of the document
  lines,    \* its item lines
  ledger,   \* its rows of stock_ledger_entries, a bag
  req       \* the request of each client

vars == <<row, lines, ledger, req>>

Header == [status : {"absent", "Draft", "Submitted", "Cancelled", "deleted"},
           kind : Kind]
LinesOf(k) == [LineId -> Line(k) \cup {NoLine}]
Lines == UNION {LinesOf(k) : k \in Kind}
Empty == [i \in LineId |-> NoLine]
Present == row.status \in {"Draft", "Submitted", "Cancelled"}
Active(c) == req[c].op # "none"
NoHeader == [status |-> "absent", kind |-> CHOOSE k \in Kind : TRUE]
Idle == [op |-> "none", step |-> "none", row |-> NoHeader, lines |-> Empty]

\* The rows of a document whose lines make these movements.
\* voucher_detail_id is the line id with a suffix for the leg and "-rev" for
\* a reversal.
RowsOf(moves) ==
  UNION {{[line |-> i, leg |-> m.leg, rev |-> FALSE, qty |-> m.qty] :
            m \in moves[i]} : i \in DOMAIN moves}
Filled(ls) == {i \in LineId : ls[i] # NoLine}
\* The rows Submit and Cancel write for a document as they read it.
Postings(header, ls) ==
  RowsOf([i \in Filled(ls) |-> Moves(header.kind, ls[i])])
\* The rows the report demands.
Demanded(header, ls) ==
  RowsOf([i \in Filled(ls) |-> SyncMoves(header.kind, ls[i])])
\* Mutant: the quantity is not negated.
ReversalsSameSign(rows) == {[r EXCEPT !.rev = TRUE] : r \in rows}
Reversals(rows) == {[r EXCEPT !.rev = TRUE, !.qty = -@] : r \in rows}
VoucherDetail(r) == <<r.line, r.leg, r.rev>>

\* Mutant: a ledger without the unique index.
InsertsAnyway(rows) == TRUE
\* The unique index accepts these rows.
Inserts(rows) ==
  \A r \in rows, s \in BagToSet(ledger) : VoucherDetail(r) # VoucherDetail(s)
-----------------------------------------------------------------------------
Init ==
  /\ row = NoHeader
  /\ lines = Empty
  /\ ledger = EmptyBag
  /\ req = [c \in Client |-> Idle]

\* Create inserts the header and its lines, posts nothing, and keeps the
\* status of the payload if there is one.  (The documents that cannot be
\* edited are written by CreateReturn, as drafts with a line.)
Create(k, s, ls) ==
  /\ row.status = "absent"
  /\ Policy(k).edits \/ (s = "Draft" /\ ls # Empty)
  /\ Policy(k).mayBeEmpty \/ ls # Empty
  /\ row' = [status |-> s, kind |-> k]
  /\ lines' = ls
  /\ UNCHANGED <<ledger, req>>

\* The status an operation demands of the header it reads.  (Submit answers
\* 200 on a submitted document and changes nothing.)
RequiredStatus(op) ==
  IF op \in {"cancel", "report"} THEN {"Submitted"} ELSE {"Draft"}

\* Two requests overlap; Update and Delete only when edits may race.
Overlapping == {"submit", "cancel", "report"}
MayOverlap(c, op) ==
  \A o \in Client \ {c} :
    Active(o) => RacingEdits \/ {op, req[o].op} \subseteq Overlapping

\* First(): the header is read.
ReadHeader(c, op) ==
  /\ ~Active(c)
  /\ MayOverlap(c, op)
  /\ row.status \in RequiredStatus(op)
  /\ req' = [req EXCEPT ![c] = [op |-> op, step |-> "header", row |-> row,
                                lines |-> Empty]]
  /\ UNCHANGED <<row, lines, ledger>>

BeginSubmit(c) == ReadHeader(c, "submit")
BeginCancel(c) == Policy(row.kind).cancels /\ ReadHeader(c, "cancel")
BeginDelete(c) == ~Policy(row.kind).checkedDelete /\ ReadHeader(c, "delete")
BeginUpdate(c) == Policy(row.kind).edits /\ ReadHeader(c, "update")
\* The report finds this document among the submitted ones.
BeginReport(c) == row.kind \in Reported /\ ReadHeader(c, "report")

\* Preload("Items"): the lines are read.  Submit demands at least one.
ReadLines(c) ==
  /\ req[c].op \in Overlapping
  /\ req[c].step = "header"
  /\ req[c].op = "submit" => lines # Empty
  /\ req' = [req EXCEPT ![c].step = "ready", ![c].lines = lines]
  /\ UNCHANGED <<row, lines, ledger>>

End(c) == req' = [req EXCEPT ![c] = Idle]

\* Mutant: a status spelt in another way.
SaveReadCanceled(c, status) ==
  /\ row' = [req[c].row EXCEPT !.status =
                IF status = "Cancelled" THEN "Canceled" ELSE status]
  /\ lines' = lines
\* Save(): UPDATE of every column, an upsert of the lines that were read
\* (lines that are still there keep their columns), and when no row was
\* updated because it is gone, an INSERT of the whole document.
SaveRead(c, status) ==
  /\ row' = [req[c].row EXCEPT !.status = status]
  /\ lines' = [i \in LineId |->
                 IF lines[i] = NoLine THEN req[c].lines[i] ELSE lines[i]]

\* Submit's transaction.  A duplicate voucher_detail_id rolls it back.
CommitSubmit(c) ==
  /\ req[c].op = "submit"
  /\ req[c].step = "ready"
  /\ LET new == Postings(req[c].row, req[c].lines) IN
       /\ Inserts(new)
       /\ ledger' = ledger (+) SetToBag(new)
  /\ SaveRead(c, "Submitted")
  /\ End(c)

CommitCancel(c) ==
  /\ req[c].op = "cancel"
  /\ req[c].step = "ready"
  /\ LET new == Reversals(Postings(req[c].row, req[c].lines)) IN
       /\ Inserts(new)
       /\ ledger' = ledger (+) SetToBag(new)
  /\ SaveRead(c, "Cancelled")
  /\ End(c)

\* The rows the report demands for the document it read and does not find.
Missing(c) ==
  {r \in Demanded(req[c].row, req[c].lines) :
     \A s \in BagToSet(ledger) : VoucherDetail(s) # VoucherDetail(r)}

\* The report looks for one row after the other and creates those it does not
\* find, each in a statement of its own whose error is ignored: between two
\* requests of others it adds any of them, and at its end some may be missing.
Sync(c) ==
  /\ req[c].op = "report"
  /\ req[c].step = "ready"
  /\ \E rows \in SUBSET Missing(c) : ledger' = ledger (+) SetToBag(rows)
  /\ req' \in {req, [req EXCEPT ![c] = Idle]}
  /\ UNCHANGED <<row, lines>>

\* An id drawn by uuid.NewString: no row and no request knows it.
Unused(i) ==
  /\ lines[i] = NoLine
  /\ \A r \in BagToSet(ledger) : r.line # i
  /\ \A c \in Client : req[c].lines[i] = NoLine

\* Update's transaction replaces the lines by those of the payload and saves
\* the header it has read (with the status it had then) and the new kind.
CommitUpdate(c, k, ls) ==
  /\ req[c].op = "update"
  /\ Policy(k) = Policy(req[c].row.kind)
  /\ Policy(k).mayBeEmpty \/ ls # Empty
  /\ Policy(k).freshLines => \A i \in LineId : ls[i] # NoLine => Unused(i)
  /\ row' = [req[c].row EXCEPT !.kind = k]
  /\ lines' = ls
  /\ UNCHANGED ledger
  /\ End(c)

\* Delete's transaction: the lines, and the header by primary key.
CommitDelete(c) ==
  /\ req[c].op = "delete"
  /\ row' = [row EXCEPT !.status = "deleted"]
  /\ lines' = Empty
  /\ UNCHANGED ledger
  /\ End(c)

\* Delete of a Delivery Note is one statement; its lines are left behind.
DeleteDraft ==
  /\ Policy(row.kind).checkedDelete
  /\ row.status = "Draft"
  /\ row' = [row EXCEPT !.status = "deleted"]
  /\ UNCHANGED <<lines, ledger, req>>

\* The request fails (a 4xx after the reads, a database error, a crash): the
\* transaction, if it was opened, is rolled back.
Fail(c) ==
  /\ Active(c)
  /\ End(c)
  /\ UNCHANGED <<row, lines, ledger>>

Next ==
  \/ \E k \in Kind, s \in CreateStatus : \E ls \in LinesOf(k) : Create(k, s, ls)
  \/ DeleteDraft
  \/ \E c \in Client :
       \/ BeginSubmit(c)
       \/ BeginCancel(c)
       \/ BeginUpdate(c)
       \/ BeginDelete(c)
       \/ BeginReport(c)
       \/ ReadLines(c)
       \/ CommitSubmit(c)
       \/ CommitCancel(c)
       \/ \E k \in Kind : \E ls \in LinesOf(k) : CommitUpdate(c, k, ls)
       \/ CommitDelete(c)
       \/ Sync(c)
       \/ Fail(c)

Spec == Init /\ [][Next]_vars
-----------------------------------------------------------------------------
TypeOK ==
  /\ row \in Header
  /\ lines \in Lines
  /\ \A r \in BagToSet(ledger) :
       r.line \in LineId /\ r.rev \in BOOLEAN /\ r.qty \in Int
  /\ req \in [Client -> [op : {"none", "submit", "cancel", "update", "delete",
                               "report"},
                         step : {"none", "header", "ready"},
                         row : Header, lines : Lines]]

\* A document that is not submitted has moved no stock.
DraftUnposted == row.status \in {"absent", "Draft", "deleted"} =>
    ledger = EmptyBag

\* A submitted document has moved exactly what its lines say, once, however
\* many Submit requests (retries, double clicks) were under way.
SubmittedPosted ==
  row.status = "Submitted" => ledger = SetToBag(Postings(row, lines))

\* A cancelled document has moved nothing on balance: its movements are still
\* there, and each of them, and nothing else, has one counter-movement.
CancelledReversed ==
  row.status = "Cancelled" =>
    LET rows == BagToSet(ledger) IN
      /\ {r \in rows : ~r.rev} = Postings(row, lines)
      /\ \A r \in rows :
           /\ ledger[r] = 1
           /\ \E s \in rows : /\ s.line = r.line /\ s.leg = r.leg
                            /\ s.rev # r.rev /\ s.qty = -r.qty

\* The ledger agrees with the status of the document.
LedgerFollowsStatus ==
  DraftUnposted /\ SubmittedPosted /\ CancelledReversed

\* "Hanya Stock Entry berstatus Draft yang dapat diedit": only drafts are
\* edited.  Requests that overlap get past the answer of the controllers.
EditsOnlyDrafts ==
  [][row.status \in {"Submitted", "Cancelled"} /\ row'.status # "deleted" =>
       row'.kind = row.kind /\ lines' = lines]_vars

\* syncMissingSLEs "ensures any submitted StockEntry, PurchaseReceipt, or
\* DeliveryNote has SLEs": a submitted document that has them gets no more.
SyncsOnlyMissing ==
  [][row.status = "Submitted" /\ row' = row /\ SubmittedPosted =>
       ledger' = ledger]_vars
=============================================================================
