---------------------------- MODULE MCDataBuffer ----------------------------
(* Buffers of two words, one after the other; the reception is started,      *)
(* changed, stopped and started again.                                       *)
EXTENDS DataBuffer
=============================================================================
