----------------------------- MODULE MCBacklog ------------------------------
(* Instances of the engine under endless load, for TLC.                    *)
EXTENDS Backlog, TLC
=============================================================================
