------------------------------- MODULE Engine -------------------------------
(***************************************************************************)
(* The store engine: the callers of a store handle, the lifecycle lock and *)
(* the event channel they share with the coordinator thread, the           *)
(* coordinator's scheduling of keyed operations, barriers and shutdown,    *)
(* and the pool of worker threads that run the jobs.                       *)
(*                                                                         *)
(* The coordinator handles one event at a time, but what it does while     *)
(* handling it is visible before it is done: a job it sends starts on a    *)
(* worker, a reply it delivers returns to a caller, a lifecycle it writes  *)
(* is read under the lock.  A handler is therefore a chain of steps, each  *)
(* forced by coordPc to follow the one before; the steps of callers and    *)
(* workers interleave with them.                                           *)
(*                                                                         *)
(* A call stands for one API call and the objects made for it: the         *)
(* operation, its job and its one-shot reply channel.  Payloads and        *)
(* results are abstracted: "Ran" is whatever result the job computed.      *)
(***************************************************************************)
EXTENDS Integers, Sequences, FiniteSets

CONSTANTS
  Keys,           \* the 32-byte key hashes
  Ops,            \* calls of load, save, clear, inspect, quarantine, ...
  Maintenances,   \* calls of cleanup_stale_temporary_files
  Flushes,        \* calls of flush
  Closes,         \* calls of close
  NoCall,         \* the coordinator is not in the middle of a handler
  MaxConcurrent,  \* max_concurrent_operations, a NonZeroUsize
  Faults          \* the faults of the environment that can happen:
                  \*   "spawn"  a worker thread cannot be created
                  \*   "job"    a job panics (caught on the worker)
                  \*   "exit"   a worker thread panics outside a job
                  \*   "panic"  the coordinator panics at one of its hooks

Calls == Ops \cup Maintenances \cup Flushes \cup Closes

ASSUME MaxConcurrentAssumption == MaxConcurrent \in Nat \ {0}

ASSUME FaultsAssumption == Faults \subseteq {"spawn", "job", "exit", "panic"}

ASSUME CallsAssumption ==
  /\ Ops \cap Maintenances = {}
  /\ Ops \cap Flushes = {}
  /\ Ops \cap Closes = {}
  /\ Maintenances \cap Flushes = {}
  /\ Maintenances \cap Closes = {}
  /\ Flushes \cap Closes = {}
  /\ NoCall \notin Calls

VARIABLES
  lifecycle,         \* the Lifecycle value behind the mutex
  channel,           \* the unbounded channel of CoordinatorEvents
  handles,           \* some EngineHandle (and its sender) is still alive
  keyOf,             \* the key each operation is submitted under
  phase,             \* where each call is on its way through the engine
  reply,             \* what was sent on each call's reply channel
  result,            \* what close() returned to its caller
  ticket,            \* history: position of each call in the channel's order
  coordPc,           \* the coordinator's place in run_scheduler
  hand,              \* the operation the current handler is about
  queues,            \* the per-key FIFO queues
  entries,           \* the keys that have an entry in the queue map
  active,            \* the keys with an operation on a worker
  pending,           \* the FIFO of deferred events
  maintenanceActive, \* maintenance_active
  workers,           \* number of live worker threads (handles.len())
  panicked           \* the coordinator's scheduler unwound

callerVars == <<handles, result>>
schedVars  == <<queues, entries, active, workers>>
vars == <<lifecycle, channel, handles, keyOf, phase, reply, result, ticket,
          coordPc, hand, queues, entries, active, pending,
          maintenanceActive, workers, panicked>>

Lifecycles == {"Open", "Closing", "Closed", "ShutdownFailed", "Failed"}

Phases ==
  {"idle",        \* not called yet
   "admitting",   \* found the store open, lock released, not yet sent
   "sent",        \* its event is in the channel
   "pending",     \* its event is in the pending FIFO
   "queued",      \* in its key's queue
   "dispatched",  \* its job is in the worker channel
   "running",     \* its job is on a worker
   "completing",  \* its completion event is in the channel
   "settling",    \* its completion is being handled
   "done",        \* nothing of it is left in the engine
   "joining",     \* close(): has its answer, waits for the coordinator
   "returned"}    \* close(): returned to its caller

Replies == {"none", "Ran", "Ok", "StoreClosed", "EngineFailed",
            "WorkerUnavailable", "ShutdownFailure", "Dropped"}

CoordPcs ==
  {"recv", "dispatch", "available", "advance", "redispatch", "closecheck",
   "notify", "drain", "unwind", "faildrain", "done"}

Events == [kind : {"submit", "complete"}, call : Calls]

(* The calls whose job is on its way to a worker, on one, or coming back.  *)
InFlight == {"dispatched", "running", "completing"}

TypeOK ==
  /\ lifecycle \in Lifecycles
  /\ channel \in Seq(Events)
  /\ handles \in BOOLEAN
  /\ keyOf \in [Ops -> Keys]
  /\ phase \in [Calls -> Phases]
  /\ reply \in [Calls -> Replies]
  /\ result \in [Closes -> Replies]
  /\ ticket \in [Calls -> Nat]
  /\ coordPc \in CoordPcs
  /\ hand \in Ops \cup {NoCall}
  /\ queues \in [Keys -> Seq(Ops)]
  /\ entries \subseteq Keys
  /\ active \subseteq Keys
  /\ pending \in Seq(Calls)
  /\ maintenanceActive \in BOOLEAN
  /\ workers \in 0..MaxConcurrent
  /\ panicked \in BOOLEAN

(* from_config: an open store, an idle coordinator, no worker started.     *)
Init ==
  /\ lifecycle = "Open"
  /\ channel = <<>>
  /\ handles = TRUE
  /\ keyOf \in [Ops -> Keys]
  /\ phase = [c \in Calls |-> "idle"]
  /\ reply = [c \in Calls |-> "none"]
  /\ result = [c \in Closes |-> "none"]
  /\ ticket = [c \in Calls |-> 0]
  /\ coordPc = "recv"
  /\ hand = NoCall
  /\ queues = [k \in Keys |-> <<>>]
  /\ entries = {}
  /\ active = {}
  /\ pending = <<>>
  /\ maintenanceActive = FALSE
  /\ workers = 0
  /\ panicked = FALSE

(* Sending on a call's one-shot reply channel; a completion whose outcome  *)
(* is None belongs to a caller that has its answer already.                *)
Deliver(c, r) == [reply EXCEPT ![c] = IF @ = "none" THEN r ELSE @]

-----------------------------------------------------------------------------
(* Callers.                                                                *)

(* What a call other than close is refused with; "none" admits it.         *)
OpenRefusal(l) ==
  CASE l = "Open"   -> "none"
    [] l = "Failed" -> "EngineFailed"
    [] OTHER        -> "StoreClosed"

(* What close answers without the coordinator; "none" means ask it.        *)
CloseAnswer(l) ==
  CASE l \in {"Open", "Closing"} -> "none"
    [] l = "Closed"              -> "Ok"
    [] OTHER                     -> "ShutdownFailure"

\* mutant: close treated like the other calls
RefusalOfAnyCall(c) == OpenRefusal(lifecycle)
Refusal(c) ==
  IF c \in Closes THEN CloseAnswer(lifecycle) ELSE OpenRefusal(lifecycle)

(* The first look at the lifecycle, with the lock released afterwards.     *)
EnsureOpen(c) ==
  /\ phase[c] = "idle"
  /\ handles
  /\ phase' = [phase EXCEPT ![c] = IF Refusal(c) = "none" THEN "admitting" ELSE "done"]
  /\ reply' = [reply EXCEPT ![c] = Refusal(c)]
  /\ UNCHANGED <<lifecycle, channel, callerVars, keyOf, ticket, coordPc, hand,
                 schedVars, pending, maintenanceActive, panicked>>

(* submit, cleanup, flush, close: the lock is taken again, the lifecycle   *)
(* checked again, and the event sent before the lock is released.          *)
\* mutant: sent without looking at the lifecycle again
SubmitUnchecked(c) ==
  /\ phase[c] = "admitting"
  /\ phase' = [phase EXCEPT ![c] = "sent"]
  /\ channel' = Append(channel, [kind |-> "submit", call |-> c])
  /\ ticket' = [ticket EXCEPT ![c] = 1 + Cardinality({d \in Calls : ticket[d] # 0})]
  /\ UNCHANGED <<lifecycle, callerVars, keyOf, reply, coordPc, hand, schedVars,
                 pending, maintenanceActive, panicked>>
Submit(c) ==
  /\ phase[c] = "admitting"
  /\ reply' = [reply EXCEPT ![c] = Refusal(c)]
  /\ IF Refusal(c) = "none"
       THEN /\ phase' = [phase EXCEPT ![c] = "sent"]
            /\ channel' = Append(channel, [kind |-> "submit", call |-> c])
            /\ ticket' = [ticket EXCEPT ![c] =
                            1 + Cardinality({d \in Calls : ticket[d] # 0})]
       ELSE /\ phase' = [phase EXCEPT ![c] = "done"]
            /\ UNCHANGED <<channel, ticket>>
  /\ UNCHANGED <<lifecycle, callerVars, keyOf, coordPc, hand, schedVars,
                 pending, maintenanceActive, panicked>>

(* The last handle is dropped; a call being admitted borrows one.          *)
DropHandles ==
  /\ handles
  /\ \A c \in Calls : phase[c] # "admitting"
  /\ handles' = FALSE
  /\ UNCHANGED <<lifecycle, channel, keyOf, phase, reply, result, ticket,
                 coordPc, hand, schedVars, pending, maintenanceActive, panicked>>

(* Pending::wait of close(): the answer, or the lifecycle's word for it    *)
(* when the reply channel was dropped unanswered.                          *)
CloseWait(c) ==
  /\ phase[c] = "done"
  /\ phase' = [phase EXCEPT ![c] = "joining"]
  /\ result' = [result EXCEPT ![c] =
       IF reply[c] # "Dropped" THEN reply[c]
       ELSE IF CloseAnswer(lifecycle) = "none" THEN "EngineFailed"
       ELSE CloseAnswer(lifecycle)]
  /\ UNCHANGED <<lifecycle, channel, handles, keyOf, reply, ticket, coordPc,
                 hand, schedVars, pending, maintenanceActive, panicked>>

(* CoordinatorJoin::finish: close returns once the coordinator has exited. *)
(* The thread's body catches the scheduler's panic, so the join succeeds.  *)
CloseJoin(c) ==
  /\ phase[c] = "joining"
  /\ coordPc = "done"
  /\ phase' = [phase EXCEPT ![c] = "returned"]
  /\ UNCHANGED <<lifecycle, channel, callerVars, keyOf, reply, ticket, coordPc,
                 hand, schedVars, pending, maintenanceActive, panicked>>

-----------------------------------------------------------------------------
(* Workers.                                                                *)

(* An idle worker receives a job.                                          *)
WorkerTake(c) ==
  /\ phase[c] = "dispatched"
  /\ Cardinality({d \in Calls : phase[d] = "running"}) < workers
  /\ phase' = [phase EXCEPT ![c] = "running"]
  /\ UNCHANGED <<lifecycle, channel, callerVars, keyOf, reply, ticket, coordPc,
                 hand, schedVars, pending, maintenanceActive, panicked>>

(* The job ends, normally or by a caught panic, and sends its completion.  *)
(* A panic drops the operation and with it the caller's reply channel.     *)
WorkerFinish(c, ok) ==
  /\ phase[c] = "running"
  /\ ok \/ "job" \in Faults
  /\ phase' = [phase EXCEPT ![c] = "completing"]
  /\ reply' = IF ok THEN reply ELSE [reply EXCEPT ![c] = "Dropped"]
  /\ channel' = Append(channel, [kind |-> "complete", call |-> c])
  /\ UNCHANGED <<lifecycle, callerVars, keyOf, ticket, coordPc, hand,
                 schedVars, pending, maintenanceActive, panicked>>

-----------------------------------------------------------------------------
(* The coordinator: dispatching.                                           *)

(* WorkerPool::prepare(n): spawning can only fail when a thread is missing. *)
PrepareOutcomes(n) ==
  IF workers < n /\ "spawn" \in Faults THEN BOOLEAN ELSE {TRUE}

\* mutant: a worker is started for every job
SpawnedAnyway(n, ok) == IF workers < n THEN n ELSE workers + 1
PreparedWorkers(n, ok) == IF ok /\ workers < n THEN n ELSE workers

(* dispatch_if_idle finds something to do for key k.                       *)
\* mutant: the active set is not consulted
DispatchableBusyKey(k) ==
  /\ Cardinality(active) < MaxConcurrent
  /\ queues[k] # <<>>
\* mutant: off by one at the bound
DispatchableAtBound(k) ==
  /\ k \notin active
  /\ Cardinality(active) <= MaxConcurrent
  /\ queues[k] # <<>>
Dispatchable(k) ==
  /\ k \notin active
  /\ Cardinality(active) < MaxConcurrent
  /\ queues[k] # <<>>

(* dispatch_if_idle past its guards: pop the queue, make sure there is a   *)
(* worker, and either hand the job over or answer the caller.              *)
Dispatch(k) ==
  \E ok \in PrepareOutcomes(Cardinality(active) + 1) :
    LET c == Head(queues[k]) IN
    /\ queues' = [queues EXCEPT ![k] = Tail(@)]
    /\ workers' = PreparedWorkers(Cardinality(active) + 1, ok)
    /\ active' = IF ok THEN active \cup {k} ELSE active
    /\ entries' = IF ~ok /\ Tail(queues[k]) = <<>> THEN entries \ {k} ELSE entries
    /\ phase' = [phase EXCEPT ![c] = IF ok THEN "dispatched" ELSE "done"]
    /\ reply' = [reply EXCEPT ![c] = IF ok THEN @ ELSE "WorkerUnavailable"]

(* dispatch_if_idle for the key of the current handler's operation.        *)
DispatchIfIdle ==
  /\ coordPc \in {"dispatch", "redispatch"}
  /\ IF Dispatchable(keyOf[hand])
       THEN Dispatch(keyOf[hand])
       ELSE UNCHANGED <<schedVars, phase, reply>>
  /\ coordPc' = IF coordPc = "dispatch" THEN "available" ELSE "advance"
  /\ hand' = IF coordPc = "dispatch" THEN hand ELSE NoCall
  /\ UNCHANGED <<lifecycle, channel, callerVars, keyOf, ticket, pending,
                 maintenanceActive, panicked>>

(* One iteration of dispatch_available, in the map's unspecified order.    *)
DispatchAvailable ==
  /\ coordPc = "available"
  /\ \E k \in entries : Dispatchable(k) /\ Dispatch(k)
  /\ UNCHANGED <<lifecycle, channel, callerVars, keyOf, ticket, coordPc, hand,
                 pending, maintenanceActive, panicked>>

(* The registry entry of an idle key with an empty queue is removed.       *)
\* mutant: the entry is kept
ForgetNever(k) == entries
ForgetIfIdle(k) ==
  IF k \notin active /\ queues[k] = <<>> THEN entries \ {k} ELSE entries

(* dispatch_available finds no more work, and the handler goes on: a       *)
(* submission's handler is finished, a completion's drops the key's entry  *)
(* if it is idle and empty, delivers the result, and turns to pending.     *)
Settle ==
  /\ coordPc = "available"
  /\ ~\E k \in entries : Dispatchable(k)
  /\ IF phase[hand] = "settling"
       THEN /\ entries' = ForgetIfIdle(keyOf[hand])
            /\ reply' = Deliver(hand, "Ran")
            /\ phase' = [phase EXCEPT ![hand] = "done"]
            /\ coordPc' = "advance"
       ELSE /\ coordPc' = "closecheck"
            /\ UNCHANGED <<entries, reply, phase>>
  /\ hand' = NoCall
  /\ UNCHANGED <<lifecycle, channel, callerVars, keyOf, ticket, queues, active,
                 workers, pending, maintenanceActive, panicked>>

-----------------------------------------------------------------------------
(* The coordinator: one action per kind of event at the head of the        *)
(* channel.                                                                *)

Receive(kind, S) ==
  /\ coordPc = "recv"
  /\ channel # <<>>
  /\ Head(channel).kind = kind
  /\ Head(channel).call \in S
  /\ channel' = Tail(channel)
  /\ UNCHANGED <<callerVars, keyOf, ticket, panicked>>

(* What is found in the channel after the store stopped being open is      *)
(* refused.                                                                *)
\* mutant: late work is accepted until the shutdown
AcceptingUntilClosed == lifecycle \in {"Open", "Closing"}
Accepting == lifecycle = "Open"

Reject(c) ==
  /\ reply' = [reply EXCEPT ![c] = "StoreClosed"]
  /\ phase' = [phase EXCEPT ![c] = "done"]

\* mutant: push_front
EnqueueFront(c) ==
  /\ queues' = [queues EXCEPT ![keyOf[c]] = <<c>> \o @]
  /\ entries' = entries \cup {keyOf[c]}
  /\ phase' = [phase EXCEPT ![c] = "queued"]
Enqueue(c) ==
  /\ queues' = [queues EXCEPT ![keyOf[c]] = Append(@, c)]
  /\ entries' = entries \cup {keyOf[c]}
  /\ phase' = [phase EXCEPT ![c] = "queued"]

Defer(c) ==
  /\ pending' = Append(pending, c)
  /\ phase' = [phase EXCEPT ![c] = "pending"]

(* An operation waits behind a running maintenance and deferred events.    *)
\* mutant: deferred events are overtaken
MustDeferToMaintenance == maintenanceActive
MustDefer == maintenanceActive \/ pending # <<>>

RecvSubmission ==
  LET c == Head(channel).call IN
  /\ Receive("submit", Ops)
  /\ \/ /\ ~Accepting
        /\ Reject(c)
        /\ UNCHANGED <<queues, entries, pending, coordPc, hand>>
     \/ /\ Accepting
        /\ MustDefer
        /\ Defer(c)
        /\ UNCHANGED <<queues, entries, reply, coordPc, hand>>
     \/ /\ Accepting
        /\ ~MustDefer
        /\ Enqueue(c)
        /\ hand' = c
        /\ coordPc' = "dispatch"
        /\ UNCHANGED <<pending, reply>>
  /\ UNCHANGED <<lifecycle, active, workers, maintenanceActive>>

RecvCompletion ==
  LET c == Head(channel).call IN
  /\ Receive("complete", Ops)
  /\ active' = active \ {keyOf[c]}
  /\ phase' = [phase EXCEPT ![c] = "settling"]
  /\ hand' = c
  /\ coordPc' = "dispatch"
  /\ UNCHANGED <<lifecycle, reply, queues, entries, workers, pending,
                 maintenanceActive>>

(* A maintenance request or a flush becomes a barrier in pending.          *)
RecvBarrier ==
  LET c == Head(channel).call IN
  /\ Receive("submit", Maintenances \cup Flushes)
  /\ \/ /\ ~Accepting
        /\ Reject(c)
        /\ UNCHANGED <<pending, coordPc>>
     \/ /\ Accepting
        /\ Defer(c)
        /\ coordPc' = "advance"
        /\ UNCHANGED reply
  /\ UNCHANGED <<lifecycle, hand, schedVars, maintenanceActive>>

RecvMaintenanceCompletion ==
  LET c == Head(channel).call IN
  /\ Receive("complete", Maintenances)
  /\ maintenanceActive' = FALSE
  /\ reply' = Deliver(c, "Ran")
  /\ phase' = [phase EXCEPT ![c] = "done"]
  /\ coordPc' = "advance"
  /\ UNCHANGED <<lifecycle, hand, schedVars, pending>>

RecvClose ==
  LET c == Head(channel).call
      answer == CloseAnswer(lifecycle) IN
  /\ Receive("submit", Closes)
  /\ lifecycle' = IF lifecycle = "Open" THEN "Closing" ELSE lifecycle
  /\ pending' = IF answer = "none" THEN Append(pending, c) ELSE pending
  /\ reply' = [reply EXCEPT ![c] = answer]
  /\ phase' = [phase EXCEPT ![c] = IF answer = "none" THEN "pending" ELSE "done"]
  /\ coordPc' = "advance"
  /\ UNCHANGED <<hand, schedVars, maintenanceActive>>

-----------------------------------------------------------------------------
(* The coordinator: advance_pending_if_ready, one event at a time.         *)

(* No operation is queued or on a worker.                                  *)
\* mutant: the active operations are forgotten
QueuesQuiet == \A k \in Keys : queues[k] = <<>>
Quiet == active = {} /\ \A k \in Keys : queues[k] = <<>>

FrontIn(S) == pending # <<>> /\ Head(pending) \in S

CanAdvance ==
  /\ ~maintenanceActive
  /\ FrontIn(Ops) \/ (Quiet /\ FrontIn(Maintenances \cup Flushes))

AdvanceSubmission ==
  /\ coordPc = "advance"
  /\ ~maintenanceActive
  /\ FrontIn(Ops)
  /\ pending' = Tail(pending)
  /\ Enqueue(Head(pending))
  /\ hand' = Head(pending)
  /\ coordPc' = "redispatch"
  /\ UNCHANGED <<lifecycle, channel, callerVars, keyOf, reply, ticket, active,
                 workers, maintenanceActive, panicked>>

(* The channel after dispatch_maintenance.                                 *)
\* mutant: the empty completion is not sent
NoFallback(c, ok) == channel
FallbackCompletion(c, ok) ==
  IF ok THEN channel ELSE Append(channel, [kind |-> "complete", call |-> c])

(* dispatch_maintenance; without a worker the caller is answered and the   *)
(* coordinator sends the empty completion to itself.                       *)
AdvanceMaintenance ==
  /\ coordPc = "advance"
  /\ ~maintenanceActive /\ Quiet
  /\ FrontIn(Maintenances)
  /\ pending' = Tail(pending)
  /\ maintenanceActive' = TRUE
  /\ LET c == Head(pending) IN
     \E ok \in PrepareOutcomes(1) :
       /\ workers' = PreparedWorkers(1, ok)
       /\ phase' = [phase EXCEPT ![c] = IF ok THEN "dispatched" ELSE "completing"]
       /\ reply' = [reply EXCEPT ![c] = IF ok THEN @ ELSE "WorkerUnavailable"]
       /\ channel' = FallbackCompletion(c, ok)
  /\ coordPc' = "closecheck"
  /\ UNCHANGED <<lifecycle, callerVars, keyOf, ticket, hand, queues, entries,
                 active, panicked>>

AdvanceFlush ==
  /\ coordPc = "advance"
  /\ ~maintenanceActive /\ Quiet
  /\ FrontIn(Flushes)
  /\ pending' = Tail(pending)
  /\ reply' = [reply EXCEPT ![Head(pending)] = "Ok"]
  /\ phase' = [phase EXCEPT ![Head(pending)] = "done"]
  /\ UNCHANGED <<lifecycle, channel, callerVars, keyOf, ticket, coordPc, hand,
                 schedVars, maintenanceActive, panicked>>

AdvanceStop ==
  /\ coordPc = "advance"
  /\ ~CanAdvance
  /\ coordPc' = "closecheck"
  /\ UNCHANGED <<lifecycle, channel, callerVars, keyOf, phase, reply, ticket,
                 hand, schedVars, pending, maintenanceActive, panicked>>

-----------------------------------------------------------------------------
(* The coordinator: shutting down.                                         *)

CloseReady == FrontIn(Closes) /\ Quiet /\ ~maintenanceActive

CloseNotReady ==
  /\ coordPc = "closecheck"
  /\ ~CloseReady
  /\ coordPc' = "recv"
  /\ UNCHANGED <<lifecycle, channel, callerVars, keyOf, phase, reply, ticket,
                 hand, schedVars, pending, maintenanceActive, panicked>>

(* Workers stop when the job channel is closed and empty, so joining them  *)
(* waits for every job.                                                    *)
\* mutant: the workers are not joined
JobsOrNot == TRUE
NoJobs == \A c \in Calls : phase[c] \notin {"dispatched", "running"}

ShutdownOutcomes == IF workers > 0 /\ "exit" \in Faults THEN BOOLEAN ELSE {TRUE}

Shutdown ==
  /\ coordPc = "closecheck"
  /\ CloseReady
  /\ NoJobs
  /\ \E ok \in ShutdownOutcomes :
       lifecycle' = IF ok THEN "Closed" ELSE "ShutdownFailed"
  /\ workers' = 0
  /\ coordPc' = "notify"
  /\ UNCHANGED <<channel, callerVars, keyOf, phase, reply, ticket, hand, queues,
                 entries, active, pending, maintenanceActive, panicked>>

(* The waiting close calls share the outcome of the one shutdown.          *)
NotifyClose ==
  /\ coordPc = "notify"
  /\ IF FrontIn(Closes)
       THEN /\ reply' = [reply EXCEPT ![Head(pending)] = CloseAnswer(lifecycle)]
            /\ phase' = [phase EXCEPT ![Head(pending)] = "done"]
            /\ pending' = Tail(pending)
            /\ UNCHANGED coordPc
       ELSE /\ coordPc' = "drain"
            /\ UNCHANGED <<reply, phase, pending>>
  /\ UNCHANGED <<lifecycle, channel, callerVars, keyOf, ticket, hand, schedVars,
                 maintenanceActive, panicked>>

(* One try_recv of a draining loop: the event's caller gets the answer r   *)
(* unless it already has one.                                              *)
DrainOne(r) ==
  LET c == Head(channel).call IN
  /\ channel # <<>>
  /\ channel' = Tail(channel)
  /\ reply' = Deliver(c, r)
  /\ phase' = [phase EXCEPT ![c] = "done"]
  /\ UNCHANGED <<lifecycle, callerVars, keyOf, ticket, coordPc, hand, schedVars,
                 pending, maintenanceActive, panicked>>

(* A completion found here is dropped with its reply channel.              *)
ClosedAnswer(c) ==
  IF Head(channel).kind = "complete" THEN "Dropped"
  ELSE IF c \in Closes THEN CloseAnswer(lifecycle) ELSE "StoreClosed"

Drain == coordPc = "drain" /\ DrainOne(ClosedAnswer(Head(channel).call))

CoordinatorExit ==
  /\ coordPc = "drain"
  /\ channel = <<>>
  /\ coordPc' = "done"
  /\ UNCHANGED <<lifecycle, channel, callerVars, keyOf, phase, reply, ticket,
                 hand, schedVars, pending, maintenanceActive, panicked>>

(* Every sender is gone: the handles, and the completion sender that each  *)
(* operation and maintenance carries until its job has used it.            *)
\* mutant: an idle worker keeps a sender alive
DisconnectedNoWorkers ==
  /\ ~handles
  /\ channel = <<>>
  /\ workers = 0
Disconnected ==
  /\ ~handles
  /\ channel = <<>>
  /\ \A c \in Ops \cup Maintenances :
       phase[c] \notin {"sent", "pending", "queued", "dispatched", "running"}

CoordinatorDisconnected ==
  /\ coordPc = "recv"
  /\ Disconnected
  /\ NoJobs
  /\ workers' = 0
  /\ lifecycle' = "Closed"
  /\ coordPc' = "done"
  /\ UNCHANGED <<channel, callerVars, keyOf, phase, reply, ticket, hand, queues,
                 entries, active, pending, maintenanceActive, panicked>>

-----------------------------------------------------------------------------
(* The coordinator: unwinding.                                             *)

(* The scheduler's locals are dropped: the event or flush at hand, the     *)
(* pending events and the queued operations, with their reply channels.    *)
Unwind(lost) ==
  LET gone == lost \cup {c \in Calls : phase[c] \in {"pending", "queued"}} IN
  /\ "panic" \in Faults
  /\ phase' = [c \in Calls |-> IF c \in gone THEN "done" ELSE phase[c]]
  /\ reply' = [c \in Calls |-> IF c \in gone /\ reply[c] = "none"
                                 THEN "Dropped" ELSE reply[c]]
  /\ queues' = [k \in Keys |-> <<>>]
  /\ entries' = {}
  /\ active' = {}
  /\ pending' = <<>>
  /\ maintenanceActive' = FALSE
  /\ panicked' = TRUE
  /\ coordPc' = "unwind"
  /\ UNCHANGED <<lifecycle, callerVars, keyOf, ticket, hand, workers>>

PanicOnEvent ==
  /\ coordPc = "recv"
  /\ channel # <<>>
  /\ channel' = Tail(channel)
  /\ Unwind({Head(channel).call})

PanicOnFlush ==
  /\ coordPc = "advance"
  /\ ~maintenanceActive /\ Quiet
  /\ FrontIn(Flushes)
  /\ Unwind({Head(pending)})
  /\ UNCHANGED channel

PanicOnStopping ==
  /\ coordPc = "drain"
  /\ channel = <<>>
  /\ Unwind({})
  /\ UNCHANGED channel

(* WorkerPool::drop joins the workers, then the lifecycle becomes Failed.  *)
UnwindJoin ==
  /\ coordPc = "unwind"
  /\ NoJobs
  /\ workers' = 0
  /\ lifecycle' = "Failed"
  /\ coordPc' = "faildrain"
  /\ UNCHANGED <<channel, callerVars, keyOf, phase, reply, ticket, hand, queues,
                 entries, active, pending, maintenanceActive, panicked>>

FailedAnswer(c) == IF c \in Closes THEN "ShutdownFailure" ELSE "EngineFailed"

FailDrain ==
  /\ coordPc = "faildrain"
  /\ IF channel # <<>>
       THEN DrainOne(FailedAnswer(Head(channel).call))
       ELSE /\ coordPc' = "done"
            /\ UNCHANGED <<lifecycle, channel, callerVars, keyOf, phase, reply,
                           ticket, hand, schedVars, pending, maintenanceActive,
                           panicked>>

-----------------------------------------------------------------------------
Coordinator ==
  \/ RecvSubmission \/ RecvCompletion \/ RecvBarrier
  \/ RecvMaintenanceCompletion \/ RecvClose
  \/ DispatchIfIdle \/ DispatchAvailable \/ Settle
  \/ AdvanceSubmission \/ AdvanceMaintenance \/ AdvanceFlush \/ AdvanceStop
  \/ CloseNotReady \/ Shutdown \/ NotifyClose \/ Drain \/ CoordinatorExit
  \/ CoordinatorDisconnected
  \/ PanicOnEvent \/ PanicOnFlush \/ PanicOnStopping \/ UnwindJoin \/ FailDrain

Worker(c) == WorkerTake(c) \/ \E ok \in BOOLEAN : WorkerFinish(c, ok)

Caller(c) == EnsureOpen(c) \/ Submit(c)

Closer(c) == CloseWait(c) \/ CloseJoin(c)

(* The coordinator has exited and every caller of close has returned.      *)
Terminated ==
  /\ coordPc = "done"
  /\ \A c \in Calls : phase[c] \in {"idle", "done", "returned"}
  /\ UNCHANGED vars

Next ==
  \/ Coordinator
  \/ \E c \in Ops \cup Maintenances : Worker(c)
  \/ \E c \in Calls : Caller(c)
  \/ \E c \in Closes : Closer(c)
  \/ DropHandles
  \/ Terminated

Spec == Init /\ [][Next]_vars

(* Threads that can run do run, jobs terminate, and callers that have      *)
(* begun a call finish it; nobody has to call, to close or to drop.        *)
Fairness ==
  /\ WF_vars(Coordinator)
  /\ \A c \in Ops \cup Maintenances : WF_vars(Worker(c))
  /\ \A c \in Calls : WF_vars(Submit(c))
  /\ \A c \in Closes : WF_vars(Closer(c))

FairSpec == Spec /\ Fairness
=============================================================================
