--------------------------- MODULE MCStreamSlots ----------------------------
(* Instances of the two streams that share a store, for TLC.               *)
EXTENDS StreamSlots, TLC
=============================================================================
