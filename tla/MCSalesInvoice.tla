--------------------------- MODULE MCSalesInvoice ---------------------------
EXTENDS SalesInvoice, TLC
CONSTANTS d1, d2, d3, d4, c1, c2
\* Documents and requests are interchangeable.
Symmetry == Permutations(Docs) \cup Permutations(Clients)
=============================================================================
