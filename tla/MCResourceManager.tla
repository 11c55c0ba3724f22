------------------------- MODULE MCResourceManager -------------------------
(***************************************************************************)
(* Two VIRT_DEVs, two pulsegens of different lengths and three outputs, of *)
(* two kinds: one more than a VIRT_DEV can list.                           *)
(***************************************************************************)
EXTENDS EvrOutputs, TLC

CONSTANTS a, b
MCNames == {a, b}
MCSymmetry == Permutations(MCNames)

MCPulsegenBits == << <<2, 4, 4>>, <<0, 4, 2>> >>
MCFilters == {<<0, 4, 2>>, <<1, 4, 4>>}
MCOutCounts == <<0, 1, 2>>

\* Nothing reads the register of an output that was not set since it is owned, so
\* states that differ in such registers only are taken as one; and when the card
\* is gone all that is left to do is to close files.
MCOutReg == [o \in Outputs |-> OutReg(o)]
MCView ==
  IF device THEN <<rmVars, configured, [o \in configured |-> out_map[MCOutReg[o]]]>>
            ELSE <<vdev_list, usage_counter>>
=============================================================================
