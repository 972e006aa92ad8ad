--------------------------- MODULE MCDocLifecycle ---------------------------
(* Small instances of DocLifecycle for TLC.                                *)
EXTENDS DocLifecycle, TLC

CONSTANTS c1, c2, e1, e2

MCDoc == 1 .. 2
MCClient == {c1, c2}
MCEdit == {e1, e2}
MCBaseNo == {"EXP-1"}
Symmetry == Permutations(MCClient) \cup Permutations(MCEdit)
=============================================================================
