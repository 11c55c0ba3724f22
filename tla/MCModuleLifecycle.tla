------------------------- MODULE MCModuleLifecycle -------------------------
(* Two card slots and the test device; memory for four MNG_DEVs, so that a   *)
(* removed one can stay open while its slot is taken again.                  *)
EXTENDS ModuleLifecycle, TLC

CONSTANTS d1, d2, d3, d4

MCObjects == {d1, d2, d3, d4}
Symmetry == Permutations(MCObjects)
=============================================================================
