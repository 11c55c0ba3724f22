--------------------------- MODULE MCEvrHardware ---------------------------
(***************************************************************************)
(* Two rows of the map, two pulse generators, a FIFO of one; subscriptions *)
(* to nothing, and to an event and the statuses.  The RAM not in use holds *)
(* at first what must never take effect: everything.                       *)
(***************************************************************************)
EXTENDS EvrHardware, TLC

CONSTANTS p1, p2, t1

MCPulsegens == {p1, p2}
MCSymmetry == Permutations(MCPulsegens)
MCLeftBehind == {[e \in Codes |-> [save |-> TRUE, pulses |-> {p1, p2}]]}
MCCallers == {t1}
MCSubscriptions ==
  {[codes |-> {}, statuses |-> {}], [codes |-> {1}, statuses |-> {"FULL", "PULSE"}]}
MCMappings ==
  {[rows |-> {1, 2}, mapped |-> {1, 2}], [rows |-> {2}, mapped |-> {}]}
=============================================================================
