------------------------------ MODULE MCIngest ------------------------------
(***************************************************************************)
(* Finite instances of Ingest.                                             *)
(***************************************************************************)
EXTENDS Ingest, TLC

MCSymmetry ==
    Permutations(Tenants) \cup Permutations(Keys) \cup Permutations(AlertIds)
        \cup Permutations(Handlers)
=============================================================================
