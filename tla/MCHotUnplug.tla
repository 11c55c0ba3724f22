---------------------------- MODULE MCHotUnplug ----------------------------
(* Three application threads, the removal of the card, and one or two       *)
(* VIRT_DEVs.                                                               *)
EXTENDS HotUnplug, TLC

CONSTANTS p1, p2, p3, v1, v2

TwoProcs == {p1, p2}
ThreeProcs == {p1, p2, p3}
OneVdev == {v1}
TwoVdevs == {v1, v2}
Symmetry == Permutations(ThreeProcs) \cup Permutations(TwoVdevs)
=============================================================================
