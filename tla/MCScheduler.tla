------------------------------ MODULE MCScheduler ------------------------------
(***************************************************************************)
(* Instances of Scheduler for TLC: one or two collectors, configured       *)
(* throughout.                                                             *)
(***************************************************************************)
EXTENDS Scheduler, TLC

CONSTANTS a, b

One == {a}
Two == {a, b}

FixedOne == {One}
FixedTwo == {Two}

\* The collectors are interchangeable under FixedTwo.
Symmetry == Permutations(Two)

=============================================================================
