--------------------------- MODULE StockDocuments ---------------------------
(***************************************************************************)
(* The kinds of stock documents of the three controllers that work as      *)
(* StockVoucher says: Stock Entry (a kind is its type), Delivery Note and  *)
(* Purchase Receipt (a kind is whether it is a return).                    *)
(***************************************************************************)
EXTENDS StockVoucher

Deliveries == {"delivery", "delivery return"}
Receipts == {"receipt", "receipt return"}

\* Stock Entry: Update keeps the line ids of the payload, takes every type
\* and demands a line; Delete reads the document before it deletes it.
StockEntryRules ==
  [document |-> "Stock Entry", edits |-> TRUE, freshLines |-> FALSE,
   mayBeEmpty |-> FALSE, cancels |-> TRUE, checkedDelete |-> FALSE]

\* Delivery Note: no Cancel, Delete is one conditional statement, Update
\* gives every line a new id, may leave no line and refuses returns, which
\* CreateReturn makes from a delivery.
DeliveryNoteRules(kind) ==
  [document |-> "Delivery Note", edits |-> kind # "delivery return",
   freshLines |-> TRUE, mayBeEmpty |-> TRUE, cancels |-> FALSE,
   checkedDelete |-> TRUE]

\* Purchase Receipt: as Stock Entry, but it may be without lines.
PurchaseReceiptRules ==
  [document |-> "Purchase Receipt", edits |-> TRUE, freshLines |-> FALSE,
   mayBeEmpty |-> TRUE, cancels |-> TRUE, checkedDelete |-> FALSE]

DocumentRules(kind) ==
  CASE kind \in Deliveries -> DeliveryNoteRules(kind)
    [] kind \in Receipts   -> PurchaseReceiptRules
    [] OTHER                -> StockEntryRules

Out == {"Material Issue", "Material Transfer", "Manufacture", "Repack"}
In == {"Material Receipt", "Material Transfer", "Manufacture", "Repack"}

\* A type of Stock Entry moves stock out of the source warehouse, into the
\* target warehouse, both, or (Disassemble, Send to Subcontractor and other
\* types of the admin application) not at all.  Submit has checked that the
\* warehouses a type needs are given, by the line or by the header.
StockEntryMoves(type, line) ==
  (IF type \in Out THEN {[leg |-> "src", qty |-> -line.qty]} ELSE {}) \cup
  (IF type \in In THEN {[leg |-> "tgt", qty |-> line.qty]} ELSE {})

\* A delivery moves stock out, a return moves it in.  The id of a line is
\* the voucher_detail_id.
DeliveryNoteMoves(kind, line) ==
  {[leg |-> "", qty |-> IF kind = "delivery return" THEN line.qty
                        ELSE -line.qty]}

\* A receipt posts the accepted quantity of a line to one warehouse and the
\* rejected quantity to another (a rejected quantity without a warehouse is
\* as good as none).
PurchaseReceiptMoves(kind, line) ==
  LET sign == IF kind = "receipt return" THEN -1 ELSE 1 IN
    {m \in {[leg |-> "acc", qty |-> sign * line.qty],
            [leg |-> "rej", qty |-> sign * line.rejected]} : m.qty # 0}

DocumentMoves(kind, line) ==
  CASE kind \in Deliveries -> DeliveryNoteMoves(kind, line)
    [] kind \in Receipts   -> PurchaseReceiptMoves(kind, line)
    [] OTHER                -> StockEntryMoves(kind, line)

\* The report demands of a submitted Stock Entry a row for each warehouse a
\* line or the header gives (line.given), whatever the type is; of a submitted
\* receipt a row with the bare id of the line and the accepted quantity; and
\* nothing of a delivery.
StockEntrySyncMoves(line) ==
  {m \in {[leg |-> "src", qty |-> -line.qty], [leg |-> "tgt", qty |-> line.qty]} :
     m.leg \in line.given}
PurchaseReceiptSyncMoves(line) ==
  {m \in {[leg |-> "", qty |-> line.qty]} : m.qty > 0}
DocumentSyncMoves(kind, line) ==
  CASE kind \in Deliveries -> {}
    [] kind \in Receipts   -> PurchaseReceiptSyncMoves(line)
    [] OTHER                -> StockEntrySyncMoves(line)
=============================================================================
