----------------------------- MODULE MCTiming -------------------------------
(***************************************************************************)
(* A finite instance of Timing.                                            *)
(***************************************************************************)
EXTENDS Timing, TLC

MCSymmetry == Permutations(Workers)
=============================================================================
