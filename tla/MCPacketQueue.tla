--------------------------- MODULE MCPacketQueue ---------------------------
(* Model checking the event queue alone: a ring of four slots, so that the  *)
(* overflow slot, the wrap-around and a second lap all occur.               *)
EXTENDS PacketQueue, TLC

CONSTANTS r1, r2

MCReaders == {r1, r2}
ReaderSymmetry == Permutations(MCReaders)

\* Masked is the mask of the code on every value the code computes.
ASSUME MaskIsModulo ==
  \A x \in -CBUF_EVENT_COUNT .. 2 * CBUF_EVENT_COUNT - 1 :
    Masked(x) = x % CBUF_EVENT_COUNT
=============================================================================
