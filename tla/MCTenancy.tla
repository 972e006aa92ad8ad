------------------------------ MODULE MCTenancy ------------------------------
(* Small instances of Tenancy for TLC.                                     *)
EXTENDS Tenancy, TLC

CONSTANTS g1, g2, t1, t2, h1, h2

MCTenantOf == (h1 :> t1) @@ (h2 :> t2)
=============================================================================
