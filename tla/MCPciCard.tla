----------------------------- MODULE MCPciCard -----------------------------
(* Three cards, two slots, and a card that comes back.                       *)
EXTENDS PciCard, TLC

CONSTANTS c1, c2, c3

MCCards == {c1, c2, c3}
=============================================================================
