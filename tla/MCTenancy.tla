----------------------------- MODULE MCTenancy ------------------------------
(***************************************************************************)
(* A finite instance of Tenancy.                                           *)
(***************************************************************************)
EXTENDS Tenancy, TLC

MCSymmetry ==
    Permutations(Slugs) \cup Permutations(ApiKeys) \cup Permutations(Targets)
        \cup Permutations(Seeders)
=============================================================================
