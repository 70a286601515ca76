---------------------------- MODULE MCLoadStream ----------------------------
(* Instances of the streaming load for TLC.                                *)
EXTENDS LoadStream, TLC
=============================================================================
