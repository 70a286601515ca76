---------------------------- MODULE MCSaveStream ----------------------------
(* Instances of the streaming save for TLC.                                *)
EXTENDS SaveStream, TLC
=============================================================================
