--------------------------- MODULE MCAuthSession ---------------------------
(* An administrator, a manager who may impersonate too, and a clerk who may not. *)
EXTENDS AuthSession

CONSTANTS t1, t2, r1, r2, s1, s2, admin, manager, clerk

MCRank == [a \in Accounts |-> CASE a = admin -> 3 [] a = manager -> 2 [] a = clerk -> 1]

\* Every call is answered or given up, or its page goes, beside a second tab and with
\* tokens that expire (CallSettles): the specification treats all tabs alike, and all
\* requests of a tab, so that what is checked of one call holds of each.
CallsSettle == CallSettles(t1, r1)
=============================================================================
