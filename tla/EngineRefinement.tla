-------------------------- MODULE EngineRefinement --------------------------
(***************************************************************************)
(* Engine implements StoreContract.  The mapping forgets the channel, the  *)
(* pending FIFO, the queues and the threads: a call is accepted when it is *)
(* sent, executing while its job is with the workers, executed until its   *)
(* completion is handled, and answered when its reply is there.            *)
(***************************************************************************)
EXTENDS EngineProperties

ContractStage ==
  [c \in Calls |->
     IF reply[c] # "none" THEN "answered"
     ELSE CASE phase[c] \in {"idle", "admitting"}      -> "new"
            [] phase[c] \in {"dispatched", "running"}  -> "executing"
            [] phase[c] \in {"completing", "settling"} -> "executed"
            [] OTHER                                   -> "accepted"]

Contract ==
  INSTANCE StoreContract WITH
    order <- ticket, stage <- ContractStage, answer <- reply,
    gate <- lifecycle, broken <- panicked

(* Every step of callers, coordinator and workers is a step of the         *)
(* contract or invisible in it.                                            *)
ImplementsContract == Contract!CSpec
=============================================================================
