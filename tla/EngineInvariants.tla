-------------------------- MODULE EngineInvariants --------------------------
(***************************************************************************)
(* The inductive invariants of the engine.  PlacementInv says where a call *)
(* in each phase is to be found and in which order calls stand relative to *)
(* each other; ControlInv what the coordinator knows at each point of      *)
(* run_scheduler about the calls, the barriers and the shutdown.           *)
(***************************************************************************)
EXTENDS EngineProperties

(* The handler's operation is there while the handler needs its key.       *)
HandHeld ==
  coordPc \in {"dispatch", "available", "redispatch"} => hand \in Ops

(* Only finitely many keys are active and calls sent, however many exist.  *)
FiniteLoad ==
  /\ IsFiniteSet(active)
  /\ IsFiniteSet({d \in Calls : ticket[d] # 0})

TypeInv == TypeOK /\ HandHeld /\ FiniteLoad

(* Tickets are handed out by Submit, each above all the earlier ones.      *)
Held == {"pending", "queued", "dispatched", "running", "completing", "settling"}

TicketInv ==
  \A c \in Calls :
    /\ phase[c] \in {"idle", "admitting"} => ticket[c] = 0
    /\ phase[c] \in Held \cup {"sent"} => ticket[c] # 0
    /\ ticket[c] <= Cardinality({d \in Calls : ticket[d] # 0})
    /\ c \notin Closes => phase[c] \notin {"joining", "returned"}

(* The channel holds the event of each sent call, in ticket order, and one *)
(* completion of each completing call, and nothing else.                   *)
ChannelInv ==
  /\ \A i \in 1..Len(channel) :
       phase[channel[i].call] =
         IF channel[i].kind = "submit" THEN "sent" ELSE "completing"
  /\ \A i, j \in 1..Len(channel) : i < j =>
       /\ channel[i].call # channel[j].call
       /\ channel[i].kind = "submit" /\ channel[j].kind = "submit"
            => ticket[channel[i].call] < ticket[channel[j].call]
  /\ \A c \in Calls : phase[c] \in {"sent", "completing"} =>
       \E i \in 1..Len(channel) : channel[i].call = c

(* The pending FIFO holds exactly the pending calls, in ticket order.      *)
PendingInv ==
  /\ \A i \in 1..Len(pending) : phase[pending[i]] = "pending"
  /\ \A i, j \in 1..Len(pending) : i < j => ticket[pending[i]] < ticket[pending[j]]
  /\ \A c \in Calls : phase[c] = "pending" =>
       \E i \in 1..Len(pending) : pending[i] = c

(* Each queue holds exactly the queued operations of its key, in ticket    *)
(* order.                                                                  *)
QueueInv ==
  /\ \A k \in Keys : \A i \in 1..Len(queues[k]) :
       phase[queues[k][i]] = "queued" /\ keyOf[queues[k][i]] = k
  /\ \A k \in Keys : \A i, j \in 1..Len(queues[k]) :
       i < j => ticket[queues[k][i]] < ticket[queues[k][j]]
  /\ \A c \in Calls : phase[c] = "queued" =>
       c \in Ops /\ \E i \in 1..Len(queues[keyOf[c]]) : queues[keyOf[c]][i] = c

(* From the channel through pending and the queue to a worker, who is      *)
(* further has the smaller ticket.                                         *)
OrderInv ==
  /\ \A c, d \in Calls :
       phase[c] = "sent" /\ phase[d] \in Held => ticket[d] < ticket[c]
  /\ \A c, d \in Calls :
       phase[c] = "pending" /\ phase[d] \in Held \ {"pending"}
         => ticket[d] < ticket[c]
  /\ \A c, d \in Ops :
       phase[c] = "queued" /\ phase[d] \in InFlight /\ keyOf[c] = keyOf[d]
         => ticket[d] < ticket[c]

(* A key with an operation in flight is active and has only that one.      *)
ActiveInv ==
  /\ panicked => coordPc \in {"unwind", "faildrain", "done"}
  /\ \A c \in Ops : phase[c] \in InFlight /\ ~panicked => keyOf[c] \in active
  /\ \A c, d \in Ops :
       phase[c] \in InFlight /\ phase[d] \in InFlight /\ keyOf[c] = keyOf[d]
         => c = d

(* Every call is where its phase says, and no call overtakes another.      *)
PlacementInv ==
  TicketInv /\ ChannelInv /\ PendingInv /\ QueueInv /\ OrderInv /\ ActiveInv

-----------------------------------------------------------------------------
(* Only operations and maintenance have jobs, and an operation settles in  *)
(* the handler of its completion.                                          *)
KindInv ==
  \A c \in Calls :
    /\ phase[c] \in InFlight => c \in Ops \cup Maintenances
    /\ phase[c] = "settling" =>
         c \in Ops /\ c = hand /\ coordPc \in {"dispatch", "available"}

(* A call has no answer before its job ends, and one when it is done.      *)
ReplyInv ==
  \A c \in Calls :
    /\ phase[c] \in {"idle", "admitting", "sent", "pending", "queued",
                     "dispatched", "running"} => reply[c] = "none"
    /\ phase[c] \in {"done", "joining", "returned"} => reply[c] # "none"
    /\ reply[c] = "Ran" =>
         phase[c] = "done" /\ ticket[c] # 0 /\ c \in Ops \cup Maintenances

(* What is still in the channel was submitted after all that left it.      *)
SentLast ==
  \A c, d \in Calls :
    phase[c] = "sent" /\ ticket[d] # 0 /\ phase[d] # "sent"
      => ticket[d] < ticket[c]

(* On one key an operation settles before the ones behind it, which may    *)
(* already have been dispatched by the same handler.                       *)
SettleInv ==
  \A c, d \in Ops :
    phase[c] \in InFlight \cup {"queued"} /\ phase[d] = "settling"
      /\ keyOf[c] = keyOf[d] => ticket[d] < ticket[c]

(* Maintenance in flight has the engine for itself, the coordinator knows  *)
(* of it, and nothing behind a waiting or running maintenance has run.     *)
MaintenanceInv ==
  /\ \A m \in Maintenances : phase[m] \in InFlight =>
       /\ \A c \in Calls \ {m} : phase[c] \notin InFlight \cup {"queued", "settling"}
       /\ ~panicked => maintenanceActive
  /\ maintenanceActive => \E m \in Maintenances : phase[m] \in InFlight
  /\ \A m \in Maintenances : phase[m] \in InFlight \cup {"sent", "pending"} =>
       \A c \in Calls : Earlier(m, c) => reply[c] # "Ran"

(* What was submitted behind a close never leaves the channel alive.       *)
CutInv ==
  \A c \in Closes, d \in Calls \ Closes : Earlier(c, d) =>
    phase[d] \in {"sent", "done"} /\ reply[d] \notin {"Ran", "Ok"}

(* The coordinator leaves "Open" with the first close it receives, and     *)
(* otherwise only by exiting; it refuses only what stands behind a close.  *)
CloseInv ==
  /\ \A c \in Closes : Sent(c) /\ phase[c] # "sent" => lifecycle # "Open" \/ panicked
  /\ lifecycle # "Open" /\ ~panicked /\ coordPc # "done" =>
       \E c \in Closes : Sent(c) /\ phase[c] # "sent"
  /\ \A d \in Calls \ Closes : Sent(d) /\ reply[d] = "StoreClosed" =>
       \E c \in Closes : Earlier(c, d)

Stopped == {"Closed", "ShutdownFailed", "Failed"}

(* The end of run_scheduler and of the thread's body: what is over when.   *)
Ending == {"notify", "drain", "unwind", "faildrain", "done"}

EndInv ==
  /\ lifecycle \in Stopped => coordPc \in Ending /\ workers = 0
  /\ coordPc \in Ending \ {"unwind"} => lifecycle \in Stopped
  /\ lifecycle = "Failed" => panicked
  /\ coordPc = "faildrain" => lifecycle = "Failed"
  /\ coordPc = "unwind" => panicked
  /\ coordPc = "done" => channel = <<>>
  /\ coordPc \in Ending =>
       /\ active = {} /\ ~maintenanceActive
       /\ \A k \in Keys : queues[k] = <<>>
       /\ \A c \in Calls : phase[c] = "pending" => coordPc = "notify" /\ c \in Closes
  /\ coordPc \in Ending \ {"unwind"} =>
       \A c \in Calls : phase[c] \notin {"dispatched", "running"}
  /\ coordPc \in Ending /\ ~panicked =>
       \A c \in Calls : phase[c] \notin InFlight

(* All the callers of close get the outcome of the one shutdown.           *)
AnswerInv ==
  ~panicked => \A c \in Closes :
    /\ reply[c] # "none" => lifecycle \in Stopped /\ reply[c] = CloseAnswer(lifecycle)
    /\ phase[c] \in {"joining", "returned"} => result[c] = reply[c]

(* The coordinator treats each call as its kind and its place demand.      *)
ControlInv ==
  /\ KindInv /\ ReplyInv /\ SentLast /\ SettleInv /\ MaintenanceInv
  /\ CutInv /\ CloseInv /\ EndInv /\ AnswerInv

-----------------------------------------------------------------------------
(* An active key has an operation in flight.                               *)
ActiveBacked ==
  \A k \in active : \E c \in Ops : phase[c] \in InFlight /\ keyOf[c] = k

(* The jobs that were handed over, counted against the pool.               *)
JobsCounted == IsFiniteSet(Jobs) /\ Cardinality(Jobs) <= workers

(* The registry has the keys in use and, while its handler runs, the key   *)
(* of a settling operation.                                                *)
RegistryInv ==
  /\ active \subseteq entries
  /\ \A k \in Keys : queues[k] # <<>> => k \in entries
  /\ \A k \in entries : k \in active \/ queues[k] # <<>>
       \/ \E c \in Ops : phase[c] = "settling" /\ k = keyOf[c]

(* No key but the handler's waits for a slot that is free; a single        *)
(* operation is in the queue of the handler's key if it does.              *)
SlotInv ==
  /\ coordPc \in {"redispatch", "advance", "closecheck", "recv"}
       /\ Cardinality(active) < MaxConcurrent =>
       \A k \in Keys : queues[k] # <<>> => k \in active
                        \/ (coordPc = "redispatch" /\ k = keyOf[hand]
                              /\ Len(queues[k]) = 1)

(* An event is deferred for a reason.                                      *)
DeferInv ==
  /\ coordPc \in {"dispatch", "available"} /\ phase[hand] # "settling" => pending = <<>>
  /\ coordPc \in {"closecheck", "recv"} /\ pending # <<>> =>
       \/ \E c \in Ops \cup Maintenances : phase[c] \in InFlight
       \/ coordPc = "closecheck" /\ CloseReady

(* No slot, worker, key or event is forgotten.                             *)
WorkInv == ActiveBacked /\ JobsCounted /\ RegistryInv /\ SlotInv /\ DeferInv

(* What is inductive for the whole engine, given TypeInv.                  *)
EngineInv == PlacementInv /\ ControlInv /\ WorkInv
=============================================================================
