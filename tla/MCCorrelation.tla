--------------------------- MODULE MCCorrelation ---------------------------
(***************************************************************************)
(* Finite instances of Correlation.                                        *)
(***************************************************************************)
EXTENDS Correlation, TLC

MCTimes == 0 .. 2

MCSymmetry ==
    Permutations(Alerts) \cup Permutations(Ids) \cup Permutations(Workers)
        \cup Permutations(Fingerprints)
=============================================================================
