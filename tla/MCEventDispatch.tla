-------------------------- MODULE MCEventDispatch --------------------------
(* Three VIRT_DEVs and two events.                                          *)
EXTENDS EventDispatch, TLC

CONSTANTS v1, v2, v3

MCVdevs == {v1, v2, v3}
VdevSymmetry == Permutations(MCVdevs)
=============================================================================
