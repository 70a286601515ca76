-------------------------- MODULE EngineProperties --------------------------
(***************************************************************************)
(* What the engine promises its callers.                                   *)
(***************************************************************************)
EXTENDS Engine

Sent(c) == ticket[c] # 0

Earlier(c, d) == Sent(c) /\ ticket[c] < ticket[d]

Jobs == {c \in Ops \cup Maintenances : phase[c] \in {"dispatched", "running"}}

(* Same-key work is FIFO and exclusive: once an operation has been handed  *)
(* to a worker, the completion of every operation submitted before it on   *)
(* the same key has already reached the coordinator (the active set of     *)
(* dispatch_if_idle, the per-key queue, and the pending FIFO together).    *)
SameKeyOrder ==
  \A c, d \in Ops :
    Earlier(c, d) /\ keyOf[c] = keyOf[d] /\ phase[d] \in InFlight
      => phase[c] \in {"settling", "done"}

(* Answers on one key come back in submission order: the handler of a      *)
(* completion dispatches the key's next operation before it delivers, but  *)
(* a job's result can only be delivered once the earlier ones are answered.*)
SameKeyAnswerOrder ==
  \A c, d \in Ops :
    Earlier(c, d) /\ keyOf[c] = keyOf[d] /\ reply[d] = "Ran"
      => reply[c] # "none"

(* WorkerPool: every job that has been handed over has a worker of its     *)
(* own, so no job ever waits behind a blocked one (a stream whose caller   *)
(* is slow), and the pool stays within the configured bound.               *)
EveryJobHasAWorker ==
  /\ Cardinality(Jobs) <= workers
  /\ workers <= MaxConcurrent

(* Maintenance is a barrier: while it is on a worker nothing else is, all  *)
(* that was submitted before it is finished, and nothing submitted after   *)
(* it has been started.                                                    *)
MaintenanceBarrier ==
  \A m \in Maintenances : phase[m] \in InFlight =>
    \A c \in (Ops \cup Maintenances) \ {m} :
      /\ phase[c] \notin InFlight
      /\ Earlier(c, m) => phase[c] = "done"
      /\ Earlier(m, c) => phase[c] \notin {"queued", "settling"} /\ reply[c] # "Ran"

(* flush() answers Ok only when everything submitted before it, barriers   *)
(* included, is finished and answered.                                     *)
FlushBarrier ==
  \A f \in Flushes : reply[f] = "Ok" =>
    \A c \in Calls : Earlier(c, f) => phase[c] = "done" /\ reply[c] # "none"

(* close() is the cut: what was submitted before the first close runs and  *)
(* is never refused, what was submitted after it never runs.               *)
CloseCut ==
  \A c \in Calls \ Closes : Sent(c) =>
    /\ (\E d \in Closes : Earlier(d, c)) => phase[c] \in {"sent", "done"} /\ reply[c] # "Ran"
    /\ (\A d \in Closes : ~Earlier(d, c)) => reply[c] # "StoreClosed"

(* A store whose lifecycle says it stopped has stopped: no worker thread   *)
(* is left and no operation is queued, deferred or running.                *)
StoppedIsQuiet ==
  lifecycle \in {"Closed", "ShutdownFailed", "Failed"} =>
    /\ workers = 0
    /\ \A c \in Calls \ Closes :
         phase[c] \notin {"pending", "queued", "dispatched", "running", "settling"}

(* No call is lost: when the coordinator has exited, every call that was   *)
(* sent to it has been answered (or its reply channel dropped), and no     *)
(* caller can still be admitted to the dead channel.                       *)
NoCallLost ==
  coordPc = "done" =>
    /\ lifecycle \in {"Closed", "ShutdownFailed", "Failed"}
    /\ channel = <<>>
    /\ \A c \in Calls : Sent(c) =>
         reply[c] # "none" /\ phase[c] \in {"done", "joining", "returned"}

(* close() returns only after the coordinator exited, and all the callers  *)
(* of close are told the same unless the coordinator panicked.             *)
CloseAgreement ==
  \A c, d \in Closes :
    phase[c] = "returned" /\ phase[d] \in {"joining", "returned"} /\ ~panicked
      => result[c] = result[d] /\ result[c] \in {"Ok", "ShutdownFailure"}

(* The coordinator is work-conserving: whenever it waits for an event, an  *)
(* operation is left in a queue only because its key is busy or the bound  *)
(* is reached, and a deferred event only because some job is unfinished.   *)
WorkConserving ==
  coordPc = "recv" =>
    /\ Cardinality(active) < MaxConcurrent =>
         \A k \in Keys : queues[k] # <<>> => k \in active
    /\ pending # <<>> =>
         \E c \in Ops \cup Maintenances : phase[c] \in InFlight

(* The map of queues does not leak: between events it holds exactly the    *)
(* keys with an operation queued or on a worker.                           *)
RegistryTight ==
  coordPc = "recv" =>
    entries = active \cup {k \in Keys : queues[k] # <<>>}

(* Whatever a handler has done, a worker that could not be started and an  *)
(* operation that panicked included, it leaves nothing behind: no slot     *)
(* without work, no deferred event without a reason and no empty queue.    *)
NothingLeftBehind == WorkConserving /\ RegistryTight

-----------------------------------------------------------------------------
(* Every call that reaches the coordinator is answered, and every close()  *)
(* that is called returns.                                                 *)
EveryCallAnswered ==
  /\ \A c \in Calls : phase[c] = "sent" ~> reply[c] # "none"
  /\ \A c \in Closes : phase[c] = "admitting" ~> phase[c] = "returned"

(* Closing the store, or dropping the last handle, ends the coordinator    *)
(* and its workers.                                                        *)
StoreStops ==
  (lifecycle = "Closing" \/ ~handles) ~> (coordPc = "done" /\ workers = 0)
=============================================================================
