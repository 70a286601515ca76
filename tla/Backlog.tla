------------------------------ MODULE Backlog -------------------------------
(***************************************************************************)
(* Who waits for whom when the callers never stop.  Module Engine has      *)
(* finitely many calls, so that nobody can be overtaken for ever; here     *)
(* submissions, flushes and maintenances arrive without end, one of them   *)
(* is followed, and everything about a call but its key and its kind is    *)
(* left out.                                                               *)
(*                                                                         *)
(* A completion serves its own key first and then any other, so an         *)
(* operation can wait for ever behind the traffic of other keys when there *)
(* are more keys than slots.  Barriers put an end to that: what arrives    *)
(* while one waits goes behind it.                                         *)
(***************************************************************************)
EXTENDS Integers, Sequences, FiniteSets

CONSTANTS
  Keys,
  MaxSlots,     \* bound on max_concurrent_operations
  MaxQueue,     \* a key with as many waiting operations gets no new ones
  MaxPending    \* no call arrives while as many wait in pending

ASSUME BacklogAssumption ==
  /\ IsFiniteSet(Keys)
  /\ {MaxSlots, MaxQueue, MaxPending} \subseteq Nat \ {0}

VARIABLES
  slots,               \* max_concurrent_operations
  queues,              \* per key, the calls that wait for it
  active,              \* per key, the call that runs, or "none"
  pending,             \* the barriers and the calls behind them
  maintenanceActive,
  advancing            \* the coordinator is in advance_pending_if_ready

vars == <<slots, queues, active, pending, maintenanceActive, advancing>>

Tags == {"other", "followed"}
Operation(k, tag) == [kind |-> "operation", key |-> k, tag |-> tag]
Barrier(b, tag) == [kind |-> b, tag |-> tag]
Barriers == {"flush", "maintenance"}
Events == [kind : {"operation"}, key : Keys, tag : Tags] \cup [kind : Barriers, tag : Tags]

TypeOK ==
  /\ slots \in 1..MaxSlots
  /\ queues \in [Keys -> Seq(Tags)]
  /\ active \in [Keys -> Tags \cup {"none"}]
  /\ Cardinality({k \in Keys : active[k] # "none"}) <= slots
  /\ pending \in Seq(Events)
  /\ maintenanceActive \in BOOLEAN
  /\ advancing \in BOOLEAN

Init ==
  /\ slots \in 1..MaxSlots
  /\ queues = [k \in Keys |-> <<>>]
  /\ active = [k \in Keys |-> "none"]
  /\ pending = <<>>
  /\ maintenanceActive = FALSE
  /\ advancing = FALSE

(* The followed call waits in a queue, or behind a barrier or as one.      *)
WaitsInQueue == \E k \in Keys, i \in 1..MaxQueue + MaxPending :
                  i <= Len(queues[k]) /\ queues[k][i] = "followed"
WaitsInPending == \E i \in 1..Len(pending) : pending[i].tag = "followed"
Followed == WaitsInQueue \/ WaitsInPending \/ \E k \in Keys : active[k] = "followed"

(* One call at a time is followed.                                         *)
MayFollow(tag) == tag = "followed" => ~Followed

-----------------------------------------------------------------------------
(* Dispatching, from the queues q and the running calls a.                 *)

Running(a) == {k \in Keys : a[k] # "none"}
Idle(q, a) == {k \in Keys : q[k] # <<>> /\ a[k] = "none"}
Free(a) == slots - Cardinality(Running(a))

(* The sets of keys that dispatch_if_idle for k and then the loop of       *)
(* dispatch_available can serve: k itself if it waits and there is a slot, *)
(* and as many others as there are slots, in the map's unspecified order.  *)
Servable(k, q, a) ==
  {S \in SUBSET Idle(q, a) :
     /\ Cardinality(S) <= Free(a)
     /\ Cardinality(S) = Free(a) \/ S = Idle(q, a)
     /\ k \in Idle(q, a) /\ S # {} => k \in S}

(* The calls at the heads of the queues of S go to workers.                *)
Serve(S, q, a) ==
  /\ queues' = [k \in Keys |-> IF k \in S THEN Tail(q[k]) ELSE q[k]]
  /\ active' = [k \in Keys |-> IF k \in S THEN Head(q[k]) ELSE a[k]]

-----------------------------------------------------------------------------
(* The coordinator reads an event.                                         *)

\* mutant: only a running maintenance holds a submission back
MustDeferToMaintenance == maintenanceActive
MustDefer == maintenanceActive \/ pending # <<>>

\* mutant: the newest operation of a key goes first
PushFront(k, tag) == [queues EXCEPT ![k] = <<tag>> \o @]
PushBack(k, tag) == [queues EXCEPT ![k] = Append(@, tag)]

Submission(k, tag) ==
  /\ ~advancing
  /\ MayFollow(tag)
  /\ Len(queues[k]) < MaxQueue /\ Len(pending) < MaxPending
  /\ IF MustDefer
       THEN /\ pending' = Append(pending, Operation(k, tag))
            /\ UNCHANGED <<queues, active>>
       ELSE /\ \E S \in Servable(k, PushBack(k, tag), active) :
                 Serve(S, PushBack(k, tag), active)
            /\ UNCHANGED pending
  /\ UNCHANGED <<slots, maintenanceActive, advancing>>

(* A flush or a maintenance.                                               *)
BarrierEvent(b, tag) ==
  /\ ~advancing
  /\ MayFollow(tag)
  /\ Len(pending) < MaxPending
  /\ pending' = Append(pending, Barrier(b, tag))
  /\ advancing' = TRUE
  /\ UNCHANGED <<slots, queues, active, maintenanceActive>>

Completion(k) ==
  /\ ~advancing
  /\ active[k] # "none"
  /\ LET idle == [active EXCEPT ![k] = "none"] IN
     \E S \in Servable(k, queues, idle) : Serve(S, queues, idle)
  /\ advancing' = TRUE
  /\ UNCHANGED <<slots, pending, maintenanceActive>>

MaintenanceCompletion ==
  /\ ~advancing
  /\ maintenanceActive
  /\ maintenanceActive' = FALSE
  /\ advancing' = TRUE
  /\ UNCHANGED <<slots, queues, active, pending>>

-----------------------------------------------------------------------------
(* One iteration of advance_pending_if_ready.                              *)

Quiet == \A k \in Keys : active[k] = "none" /\ queues[k] = <<>>

HeadIs(kinds) == pending # <<>> /\ Head(pending).kind \in kinds

AdvanceSubmission ==
  LET k == Head(pending).key
      q == PushBack(k, Head(pending).tag)
  IN /\ advancing /\ ~maintenanceActive
     /\ HeadIs({"operation"})
     /\ pending' = Tail(pending)
     /\ Serve(IF active[k] = "none" /\ Free(active) > 0 THEN {k} ELSE {}, q, active)
     /\ UNCHANGED <<slots, maintenanceActive, advancing>>

(* A flush is answered and the loop goes on; a maintenance starts and ends *)
(* it.                                                                     *)
AdvanceBarrier ==
  /\ advancing /\ ~maintenanceActive
  /\ HeadIs(Barriers)
  /\ Quiet
  /\ pending' = Tail(pending)
  /\ maintenanceActive' = HeadIs({"maintenance"})
  /\ advancing' = ~HeadIs({"maintenance"})
  /\ UNCHANGED <<slots, queues, active>>

AdvanceStop ==
  /\ advancing
  /\ maintenanceActive \/ pending = <<>> \/ (HeadIs(Barriers) /\ ~Quiet)
  /\ advancing' = FALSE
  /\ UNCHANGED <<slots, queues, active, pending, maintenanceActive>>

Advance == AdvanceSubmission \/ AdvanceBarrier \/ AdvanceStop

Next ==
  \/ \E k \in Keys, tag \in Tags : Submission(k, tag)
  \/ \E b \in Barriers, tag \in Tags : BarrierEvent(b, tag)
  \/ \E k \in Keys : Completion(k)
  \/ MaintenanceCompletion
  \/ Advance

Spec == Init /\ [][Next]_vars

(* Jobs end, and their completions are in a channel that the coordinator   *)
(* reads in order: each is read in the end, whatever arrives meanwhile.    *)
(* Nobody has to submit anything.                                          *)
FairSpec ==
  /\ Spec
  /\ WF_vars(Advance)
  /\ \A k \in Keys : SF_vars(Completion(k))
  /\ SF_vars(MaintenanceCompletion)

-----------------------------------------------------------------------------
(* Properties.                                                             *)

BarrierWaits == \E i \in 1..Len(pending) : pending[i].kind \in Barriers

(* Under a load that never ends every flush and every maintenance gets     *)
(* through, and so does every operation behind one: each waits only for    *)
(* what was submitted before it.                                           *)
NothingStaysPending == WaitsInPending ~> ~WaitsInPending

(* With a slot for every key no operation starves, and with fewer slots    *)
(* none that is in its queue when a barrier comes.                         *)
NoOperationStarves ==
  (WaitsInQueue /\ (slots >= Cardinality(Keys) \/ BarrierWaits)) ~> ~WaitsInQueue
=============================================================================
