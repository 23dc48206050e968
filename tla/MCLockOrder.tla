---------------------------- MODULE MCLockOrder -----------------------------
(***************************************************************************)
(* A finite instance of LockOrder.                                         *)
(***************************************************************************)
EXTENDS LockOrder, TLC

CONSTANTS t1, a1, i1, e1, e2

MCTenantOf == (a1 :> t1) @@ (i1 :> t1)

MCIncidentOf == (e1 :> i1) @@ (e2 :> i1)
=============================================================================
