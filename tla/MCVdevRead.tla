----------------------------- MODULE MCVdevRead -----------------------------
(* Two readers, blocking, non-blocking or polling, against the interrupt.   *)
EXTENDS VdevRead, TLC

CONSTANTS r1, r2

MCReaders == {r1, r2}
ReaderSymmetry == Permutations(MCReaders)
=============================================================================
