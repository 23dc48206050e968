----------------------------- MODULE MCTimeline -----------------------------
(***************************************************************************)
(* Finite instances of Timeline.                                           *)
(***************************************************************************)
EXTENDS Timeline, TLC

CONSTANTS i1, i2, t1, t2

MCOwner == (i1 :> t1) @@ (i2 :> t2)

MCSymmetry == Permutations(Writers)
=============================================================================
