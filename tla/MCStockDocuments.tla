-------------------------- MODULE MCStockDocuments --------------------------
(* Small instances of StockDocuments for TLC.                              *)
EXTENDS StockDocuments, TLC

CONSTANTS c1, c2, c3, i1, i2, i3

MCClient == {c1, c2, c3}
MCLineId == {i1, i2, i3}
StockEntries == {"Material Issue", "Material Transfer"}
Posting == StockEntries \cup Deliveries \cup Receipts
Draft == {"Draft"}
\* Lines give the warehouses their type needs and no other.
Given(kind) ==
  CASE kind = "Material Issue"    -> {"src"}
    [] kind = "Material Transfer" -> {"src", "tgt"}
    [] OTHER                      -> {}
MCLine(kind) ==
  {[qty |-> 1, rejected |-> 0, given |-> Given(kind)],
   [qty |-> 2, rejected |-> IF kind \in Receipts THEN 1 ELSE 0,
    given |-> Given(kind)]}
Symmetry == Permutations(MCClient) \cup Permutations(MCLineId)
=============================================================================
