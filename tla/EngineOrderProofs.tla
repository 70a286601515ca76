------------------------- MODULE EngineOrderProofs --------------------------
(***************************************************************************)
(* Proof that the engine is well typed for every number of keys, calls and *)
(* workers, and that operations on one key run one at a time in submission *)
(* order.                                                                  *)
(*                                                                         *)
(* TypeInv is TypeOK with what makes it inductive: the handler's operation *)
(* is at hand while its key is needed, and the active keys and the calls   *)
(* sent are finitely many, so that their cardinalities are numbers.  One   *)
(* lemma per group of actions, combined in NextTypeInv.                    *)
(*                                                                         *)
(* PlacementInv is inductive together with TypeInv: its lemmas say first   *)
(* what a step that leaves, pops or appends to one container does to the   *)
(* container's conjunct (...Keep, ...Pop, ...Push), then that each kind of *)
(* step preserves all the conjuncts (...Placement).                        *)
(***************************************************************************)
EXTENDS EngineInvariants, FiniteSetTheorems, TLAPS

(* The variable tuples of UNCHANGED are always read as their members.      *)
USE DEF callerVars, schedVars

(* Appending a member of T to a sequence over T gives one.                 *)
LEMMA AppendType ==
  ASSUME NEW T, NEW s \in Seq(T), NEW e \in T PROVE Append(s, e) \in Seq(T)
  OBVIOUS

(* A store just opened by from_config is well typed.                       *)
LEMMA InitTypeInv == Init => TypeInv
  <1> SUFFICES ASSUME Init PROVE TypeInv
    OBVIOUS
  <1>1. TypeOK
    <2>1. /\ channel \in Seq(Events) /\ pending \in Seq(Calls)
          /\ queues \in [Keys -> Seq(Ops)]
      BY DEF Init
    <2>2. workers \in 0..MaxConcurrent
      BY MaxConcurrentAssumption DEF Init
    <2> QED
      BY <2>1, <2>2 DEF Init, TypeOK, Lifecycles, Phases, Replies, CoordPcs
  <1>2. HandHeld
    BY DEF Init, HandHeld
  <1>3. {d \in Calls : ticket[d] # 0} = {}
    BY DEF Init
  <1>4. FiniteLoad
    BY <1>3, FS_EmptySet DEF Init, FiniteLoad
  <1> QED
    BY <1>1, <1>2, <1>4 DEF TypeInv

(* The first look at the lifecycle keeps the types.                        *)
LEMMA EnsureOpenType ==
  ASSUME TypeInv, NEW c \in Calls, EnsureOpen(c) PROVE TypeInv'
  BY DEF TypeInv, TypeOK, HandHeld, FiniteLoad, EnsureOpen, Refusal, CloseAnswer, OpenRefusal, Replies, Phases

(* Sending an event under the lock keeps the types: the new ticket is a    *)
(* number because only finitely many calls were sent before.               *)
LEMMA SubmitType ==
  ASSUME TypeInv, NEW c \in Calls, Submit(c) PROVE TypeInv'
  <1> DEFINE S == {d \in Calls : ticket[d] # 0}
  <1>1. Cardinality(S) \in Nat
    BY FS_CardinalityType DEF TypeInv, FiniteLoad
  <1>r. Refusal(c) \in Replies
    BY DEF Refusal, CloseAnswer, OpenRefusal, Replies
  <1>2. ticket' \in [Calls -> Nat]
    <2>1. ticket' = ticket \/ ticket' = [ticket EXCEPT ![c] = 1 + Cardinality(S)]
      BY DEF Submit
    <2> HIDE DEF S
    <2> QED
      BY <1>1, <2>1 DEF TypeInv, TypeOK
  <1>6. phase' \in [Calls -> Phases] /\ reply' \in [Calls -> Replies]
    BY <1>r DEF TypeInv, TypeOK, Submit, Phases
  <1> DEFINE e == [kind |-> "submit", call |-> c]
  <1>e. e \in Events
    BY DEF Events
  <1>t. channel \in Seq(Events)
    BY DEF TypeInv, TypeOK
  <1>a. channel' = channel \/ channel' = Append(channel, e)
    BY DEF Submit
  <1> HIDE DEF e
  <1>5. channel' \in Seq(Events)
    BY <1>e, <1>t, <1>a
  <1>3. S' \in {S, S \cup {c}}
    BY <1>1 DEF TypeInv, TypeOK, Submit
  <1>4. IsFiniteSet(S')
    BY <1>3, FS_AddElement DEF TypeInv, FiniteLoad
  <1> QED
    BY <1>2, <1>4, <1>5, <1>6 DEF TypeInv, TypeOK, HandHeld, FiniteLoad, Submit

(* Waiting for close and dropping the last handle keep the types.          *)
LEMMA CallerType ==
  ASSUME TypeInv, DropHandles \/ (\E c \in Closes : Closer(c)) PROVE TypeInv'
  <1>1. CASE DropHandles
    BY <1>1 DEF TypeInv, TypeOK, HandHeld, FiniteLoad, DropHandles
  <1>2. ASSUME NEW c \in Closes, CloseWait(c) PROVE TypeInv'
    BY <1>2 DEF TypeInv, TypeOK, HandHeld, FiniteLoad, CloseWait, CloseAnswer,
                Replies, Phases, Calls
  <1>3. ASSUME NEW c \in Closes, CloseJoin(c) PROVE TypeInv'
    BY <1>3 DEF TypeInv, TypeOK, HandHeld, FiniteLoad, CloseJoin, Phases, Calls
  <1> QED
    BY <1>1, <1>2, <1>3 DEF Closer

(* A worker's steps, taking a job and reporting its end, keep the types.   *)
LEMMA WorkerType ==
  ASSUME TypeInv, NEW c \in Ops \cup Maintenances, Worker(c) PROVE TypeInv'
  <1>1. c \in Calls
    BY DEF Calls
  <1>2. CASE WorkerTake(c)
    BY <1>1, <1>2 DEF TypeInv, TypeOK, HandHeld, FiniteLoad, WorkerTake, Phases
  <1>3. ASSUME NEW ok \in BOOLEAN, WorkerFinish(c, ok) PROVE TypeInv'
    <2>1. [kind |-> "complete", call |-> c] \in Events
      BY <1>1 DEF Events
    <2>2. channel' \in Seq(Events)
      BY <1>3, <2>1 DEF TypeInv, TypeOK, WorkerFinish
    <2> QED
      BY <1>1, <1>3, <2>2
      DEF TypeInv, TypeOK, HandHeld, FiniteLoad, WorkerFinish, Phases, Replies
  <1> QED
    BY <1>2, <1>3 DEF Worker

(* dispatch_if_idle past its guards keeps the types of what it writes; in  *)
(* particular the pool never grows past max_concurrent_operations.         *)
LEMMA DispatchType ==
  ASSUME TypeInv, NEW k \in Keys, Dispatchable(k), Dispatch(k)
  PROVE  /\ queues' \in [Keys -> Seq(Ops)] /\ entries' \subseteq Keys
         /\ active' \subseteq Keys /\ workers' \in 0..MaxConcurrent
         /\ phase' \in [Calls -> Phases] /\ reply' \in [Calls -> Replies]
         /\ IsFiniteSet(active')
  <1>1. Cardinality(active) \in Nat
    BY FS_CardinalityType DEF TypeInv, FiniteLoad
  <1>2. workers' \in 0..MaxConcurrent
    BY <1>1, MaxConcurrentAssumption
    DEF TypeInv, TypeOK, Dispatchable, Dispatch, PreparedWorkers
  <1>3. active' \in {active, active \cup {k}}
    BY DEF Dispatch
  <1>4. IsFiniteSet(active')
    BY <1>3, FS_AddElement DEF TypeInv, FiniteLoad
  <1>5. queues[k] \in Seq(Ops) /\ queues[k] # <<>>
    BY DEF TypeInv, TypeOK, Dispatchable
  <1>6. Head(queues[k]) \in Ops /\ Tail(queues[k]) \in Seq(Ops)
    BY <1>5
  <1> QED
    BY <1>2, <1>3, <1>4, <1>6
    DEF TypeInv, TypeOK, Dispatch, Phases, Replies, Calls

(* The dispatching steps of a handler keep the types.                      *)
LEMMA DispatchingType ==
  ASSUME TypeInv, DispatchIfIdle \/ DispatchAvailable \/ Settle PROVE TypeInv'
  <1>1. CASE DispatchIfIdle
    <2>1. hand \in Ops /\ keyOf[hand] \in Keys
      BY <1>1 DEF TypeInv, TypeOK, HandHeld, DispatchIfIdle
    <2>2. CASE Dispatchable(keyOf[hand])
      <3>1. Dispatch(keyOf[hand])
        BY <1>1, <2>2 DEF DispatchIfIdle
      <3> QED
        BY <1>1, <2>1, <2>2, <3>1, DispatchType
        DEF TypeInv, TypeOK, HandHeld, FiniteLoad, DispatchIfIdle, CoordPcs
    <2>3. CASE ~Dispatchable(keyOf[hand])
      BY <1>1, <2>1, <2>3
      DEF TypeInv, TypeOK, HandHeld, FiniteLoad, DispatchIfIdle, CoordPcs
    <2> QED
      BY <2>2, <2>3
  <1>2. CASE DispatchAvailable
    <2>1. PICK k \in entries : Dispatchable(k) /\ Dispatch(k)
      BY <1>2 DEF DispatchAvailable
    <2>2. k \in Keys
      BY DEF TypeInv, TypeOK
    <2> QED
      BY <1>2, <2>1, <2>2, DispatchType
      DEF TypeInv, TypeOK, HandHeld, FiniteLoad, DispatchAvailable
  <1>3. CASE Settle
    BY <1>3 DEF TypeInv, TypeOK, HandHeld, FiniteLoad, Settle, ForgetIfIdle,
                Deliver, Phases, Replies, CoordPcs, Calls
  <1> QED
    BY <1>1, <1>2, <1>3

(* Taking an event from the channel keeps the types of what every handler  *)
(* leaves alone, and the event's call is a call.                           *)
LEMMA ReceiveType ==
  ASSUME TypeInv, NEW kind, NEW S, Receive(kind, S)
  PROVE  /\ Head(channel).call \in Calls \cap S
         /\ channel' \in Seq(Events)
         /\ UNCHANGED <<handles, result, keyOf, ticket, panicked>>
  <1>1. channel \in Seq(Events) /\ channel # <<>>
    BY DEF TypeInv, TypeOK, Receive
  <1>2. Head(channel) \in Events /\ Tail(channel) \in Seq(Events)
    BY <1>1
  <1> QED
    BY <1>2 DEF Receive, Events

(* The first step of each handler keeps the types.                         *)
LEMMA ReceivingType ==
  ASSUME TypeInv,
         \/ RecvSubmission \/ RecvCompletion \/ RecvBarrier
         \/ RecvMaintenanceCompletion \/ RecvClose
  PROVE  TypeInv'
  <1> DEFINE c == Head(channel).call
  <1>1. CASE RecvSubmission
    <2>1. c \in Ops /\ c \in Calls
      BY <1>1, ReceiveType DEF RecvSubmission
    <2>2. keyOf[c] \in Keys
      BY <2>1 DEF TypeInv, TypeOK
    <2>3. /\ channel' \in Seq(Events)
          /\ UNCHANGED <<handles, result, keyOf, ticket, panicked>>
      BY <1>1, ReceiveType DEF RecvSubmission
    <2>4. CASE ~Accepting
      BY <1>1, <2>1, <2>3, <2>4
      DEF TypeInv, TypeOK, HandHeld, FiniteLoad, RecvSubmission, Reject, Phases,
          Replies
    <2>5. CASE Accepting /\ MustDefer
      <3>1. pending' \in Seq(Calls)
        <4>1. pending' = Append(pending, c)
          BY <1>1, <2>5 DEF RecvSubmission, Defer
        <4> QED
          BY <2>1, <4>1 DEF TypeInv, TypeOK
      <3> QED
        BY <1>1, <2>1, <2>3, <2>5, <3>1
        DEF TypeInv, TypeOK, HandHeld, FiniteLoad, RecvSubmission, Defer, Phases
    <2>6. CASE Accepting /\ ~MustDefer
      <3>1. queues' \in [Keys -> Seq(Ops)]
        <4>1. queues' = [queues EXCEPT ![keyOf[c]] = Append(@, c)]
          BY <1>1, <2>6 DEF RecvSubmission, Enqueue
        <4> QED
          BY <2>1, <2>2, <4>1 DEF TypeInv, TypeOK
      <3> QED
        BY <1>1, <2>1, <2>2, <2>3, <2>6, <3>1
        DEF TypeInv, TypeOK, HandHeld, FiniteLoad, RecvSubmission, Enqueue,
            Phases, CoordPcs
    <2> QED
      BY <2>4, <2>5, <2>6
  <1>2. CASE RecvCompletion
    <2>1. c \in Ops /\ c \in Calls
      BY <1>2, ReceiveType DEF RecvCompletion
    <2>2. IsFiniteSet(active')
      BY <1>2, FS_Subset DEF RecvCompletion, TypeInv, FiniteLoad
    <2> QED
      BY <1>2, <2>1, <2>2, ReceiveType
      DEF TypeInv, TypeOK, HandHeld, FiniteLoad, RecvCompletion, Phases, CoordPcs
  <1>3. CASE RecvBarrier
    <2>1. c \in Calls
      BY <1>3, ReceiveType DEF RecvBarrier
    <2>2. /\ channel' \in Seq(Events)
          /\ UNCHANGED <<handles, result, keyOf, ticket, panicked>>
      BY <1>3, ReceiveType DEF RecvBarrier
    <2>3. pending' \in Seq(Calls)
      <3>1. pending' = pending \/ pending' = Append(pending, c)
        BY <1>3 DEF RecvBarrier, Defer
      <3>2. pending \in Seq(Calls)
        BY DEF TypeInv, TypeOK
      <3> HIDE DEF c
      <3> QED
        BY <2>1, <3>1, <3>2, AppendType
    <2> QED
      BY <1>3, <2>1, <2>2, <2>3
      DEF TypeInv, TypeOK, HandHeld, FiniteLoad, RecvBarrier, Reject, Defer,
          Phases, Replies, CoordPcs
  <1>4. CASE RecvMaintenanceCompletion
    <2>1. c \in Calls
      BY <1>4, ReceiveType DEF RecvMaintenanceCompletion
    <2> QED
      BY <1>4, <2>1, ReceiveType
      DEF TypeInv, TypeOK, HandHeld, FiniteLoad, RecvMaintenanceCompletion,
          Deliver, Phases, Replies, CoordPcs
  <1>5. CASE RecvClose
    <2>1. c \in Calls
      BY <1>5, ReceiveType DEF RecvClose
    <2>2. /\ channel' \in Seq(Events)
          /\ UNCHANGED <<handles, result, keyOf, ticket, panicked>>
      BY <1>5, ReceiveType DEF RecvClose
    <2>3. pending' \in Seq(Calls)
      BY <1>5, <2>1 DEF TypeInv, TypeOK, RecvClose
    <2> QED
      BY <1>5, <2>1, <2>2, <2>3
      DEF TypeInv, TypeOK, HandHeld, FiniteLoad, RecvClose, CloseAnswer,
          Phases, Replies, CoordPcs, Lifecycles
  <1> QED
    BY <1>1, <1>2, <1>3, <1>4, <1>5

(* advance_pending_if_ready keeps the types.                               *)
LEMMA AdvancingType ==
  ASSUME TypeInv,
         AdvanceSubmission \/ AdvanceMaintenance \/ AdvanceFlush \/ AdvanceStop
  PROVE  TypeInv'
  <1> DEFINE c == Head(pending)
  <1>0. ASSUME pending # <<>> PROVE c \in Calls /\ Tail(pending) \in Seq(Calls)
    BY <1>0 DEF TypeInv, TypeOK
  <1>1. CASE AdvanceSubmission
    <2>1. c \in Ops /\ c \in Calls
      BY <1>0, <1>1 DEF AdvanceSubmission, FrontIn
    <2>2. keyOf[c] \in Keys /\ pending' \in Seq(Calls)
      BY <1>0, <1>1, <2>1 DEF TypeInv, TypeOK, AdvanceSubmission, FrontIn
    <2>3. queues' \in [Keys -> Seq(Ops)]
      <3>1. queues' = [queues EXCEPT ![keyOf[c]] = Append(@, c)]
        BY <1>1 DEF AdvanceSubmission, Enqueue
      <3> HIDE DEF c
      <3> QED
        BY <2>1, <2>2, <3>1 DEF TypeInv, TypeOK
    <2> QED
      BY <1>1, <2>1, <2>2, <2>3
      DEF TypeInv, TypeOK, HandHeld, FiniteLoad, AdvanceSubmission, Enqueue,
          Phases, CoordPcs
  <1>2. CASE AdvanceMaintenance
    <2>1. PICK ok \in PrepareOutcomes(1) :
            /\ workers' = PreparedWorkers(1, ok)
            /\ phase' = [phase EXCEPT ![c] = IF ok THEN "dispatched" ELSE "completing"]
            /\ reply' = [reply EXCEPT ![c] = IF ok THEN @ ELSE "WorkerUnavailable"]
            /\ channel' = FallbackCompletion(c, ok)
      BY <1>2 DEF AdvanceMaintenance
    <2>2. c \in Calls /\ pending' \in Seq(Calls)
      BY <1>0, <1>2 DEF AdvanceMaintenance, FrontIn
    <2>3. workers' \in 0..MaxConcurrent
      BY <2>1, MaxConcurrentAssumption DEF TypeInv, TypeOK, PreparedWorkers
    <2>4. phase' \in [Calls -> Phases] /\ reply' \in [Calls -> Replies]
      BY <2>1, <2>2 DEF TypeInv, TypeOK, Phases, Replies
    <2>5. channel' \in Seq(Events)
      <3>1. [kind |-> "complete", call |-> c] \in Events
        BY <2>2 DEF Events
      <3> QED
        BY <2>1, <3>1, AppendType DEF TypeInv, TypeOK, FallbackCompletion
    <2> QED
      BY <1>2, <2>2, <2>3, <2>4, <2>5
      DEF TypeInv, TypeOK, HandHeld, FiniteLoad, AdvanceMaintenance, CoordPcs
  <1>3. CASE AdvanceFlush
    <2>1. c \in Calls /\ pending' \in Seq(Calls)
      BY <1>0, <1>3 DEF AdvanceFlush, FrontIn
    <2> QED
      BY <1>3, <2>1
      DEF TypeInv, TypeOK, HandHeld, FiniteLoad, AdvanceFlush, Phases, Replies
  <1>4. CASE AdvanceStop
    BY <1>4 DEF TypeInv, TypeOK, HandHeld, FiniteLoad, AdvanceStop, CoordPcs
  <1> QED
    BY <1>1, <1>2, <1>3, <1>4

(* One try_recv of a draining loop keeps the types.                        *)
LEMMA DrainOneType ==
  ASSUME TypeInv, coordPc \in {"drain", "faildrain"}, NEW r,
         Head(channel).call \in Calls => r \in Replies, DrainOne(r)
  PROVE  TypeInv'
  <1> DEFINE c == Head(channel).call
  <1>1. channel \in Seq(Events) /\ channel # <<>>
    BY DEF TypeInv, TypeOK, DrainOne
  <1>2. Head(channel) \in Events /\ Tail(channel) \in Seq(Events)
    BY <1>1
  <1>3. c \in Calls
    BY <1>2 DEF Events
  <1> QED
    BY <1>2, <1>3
    DEF TypeInv, TypeOK, HandHeld, FiniteLoad, DrainOne, Deliver, Phases

(* The shutdown, its notifications and the final drain keep the types.     *)
LEMMA StoppingType ==
  ASSUME TypeInv,
         \/ CloseNotReady \/ Shutdown \/ NotifyClose \/ Drain
         \/ CoordinatorExit \/ CoordinatorDisconnected
  PROVE  TypeInv'
  <1>0. 0 \in 0..MaxConcurrent
    BY MaxConcurrentAssumption
  <1>1. CASE CloseNotReady
    BY <1>1 DEF TypeInv, TypeOK, HandHeld, FiniteLoad, CloseNotReady, CoordPcs
  <1>2. CASE Shutdown
    BY <1>0, <1>2 DEF TypeInv, TypeOK, HandHeld, FiniteLoad, Shutdown, CoordPcs,
                      Lifecycles
  <1>3. CASE NotifyClose
    <2>1. CASE FrontIn(Closes)
      <3>0. pending \in Seq(Calls) /\ pending # <<>> /\ pending' = Tail(pending)
        BY <1>3, <2>1 DEF TypeInv, TypeOK, NotifyClose, FrontIn
      <3>1. Head(pending) \in Calls /\ pending' \in Seq(Calls)
        BY <3>0
      <3> QED
        BY <1>3, <2>1, <3>1
        DEF TypeInv, TypeOK, HandHeld, FiniteLoad, NotifyClose, CloseAnswer,
            Phases, Replies
    <2>2. CASE ~FrontIn(Closes)
      BY <1>3, <2>2
      DEF TypeInv, TypeOK, HandHeld, FiniteLoad, NotifyClose, CoordPcs
    <2> QED
      BY <2>1, <2>2
  <1>4. CASE Drain
    <2>1. ClosedAnswer(Head(channel).call) \in Replies
      BY DEF ClosedAnswer, CloseAnswer, Replies
    <2>2. coordPc = "drain" /\ DrainOne(ClosedAnswer(Head(channel).call))
      BY <1>4 DEF Drain
    <2> QED
      BY <2>1, <2>2, DrainOneType
  <1>5. CASE CoordinatorExit
    BY <1>5 DEF TypeInv, TypeOK, HandHeld, FiniteLoad, CoordinatorExit, CoordPcs
  <1>6. CASE CoordinatorDisconnected
    BY <1>0, <1>6 DEF TypeInv, TypeOK, HandHeld, FiniteLoad,
                      CoordinatorDisconnected, CoordPcs, Lifecycles
  <1> QED
    BY <1>1, <1>2, <1>3, <1>4, <1>5, <1>6

(* A panic of the scheduler, which drops its locals, keeps the types.      *)
LEMMA UnwindType ==
  ASSUME TypeInv, NEW lost, Unwind(lost), channel' \in Seq(Events)
  PROVE  TypeInv'
  <1>1. IsFiniteSet(active')
    BY FS_EmptySet DEF Unwind
  <1>2. phase' \in [Calls -> Phases] /\ reply' \in [Calls -> Replies]
    BY DEF TypeInv, TypeOK, Unwind, Phases, Replies
  <1>3. queues' \in [Keys -> Seq(Ops)] /\ pending' \in Seq(Calls)
    BY DEF Unwind
  <1> QED
    BY <1>1, <1>2, <1>3
    DEF TypeInv, TypeOK, HandHeld, FiniteLoad, Unwind, CoordPcs

(* The steps after a panic keep the types.                                 *)
LEMMA FailingType ==
  ASSUME TypeInv,
         \/ PanicOnEvent \/ PanicOnFlush \/ PanicOnStopping
         \/ UnwindJoin \/ FailDrain
  PROVE  TypeInv'
  <1>0. channel \in Seq(Events)
    BY DEF TypeInv, TypeOK
  <1>1. CASE PanicOnEvent
    <2>1. channel' \in Seq(Events)
      BY <1>0, <1>1 DEF PanicOnEvent
    <2> QED
      BY <1>1, <2>1, UnwindType DEF PanicOnEvent
  <1>2. CASE PanicOnFlush
    BY <1>0, <1>2, UnwindType DEF PanicOnFlush
  <1>3. CASE PanicOnStopping
    BY <1>0, <1>3, UnwindType DEF PanicOnStopping
  <1>4. CASE UnwindJoin
    BY <1>4, MaxConcurrentAssumption
    DEF TypeInv, TypeOK, HandHeld, FiniteLoad, UnwindJoin, CoordPcs, Lifecycles
  <1>5. CASE FailDrain
    <2>1. FailedAnswer(Head(channel).call) \in Replies
      BY DEF FailedAnswer, Replies
    <2>2. CASE channel # <<>>
      <3>1. coordPc = "faildrain" /\ DrainOne(FailedAnswer(Head(channel).call))
        BY <1>5, <2>2 DEF FailDrain
      <3> QED
        BY <2>1, <3>1, DrainOneType
    <2>3. CASE channel = <<>>
      BY <1>5, <2>3 DEF TypeInv, TypeOK, HandHeld, FiniteLoad, FailDrain, CoordPcs
    <2> QED
      BY <2>2, <2>3
  <1> QED
    BY <1>1, <1>2, <1>3, <1>4, <1>5

(* Every step of callers, workers and coordinator keeps the types.         *)
LEMMA NextTypeInv == TypeInv /\ [Next]_vars => TypeInv'
  <1> SUFFICES ASSUME TypeInv, [Next]_vars PROVE TypeInv'
    OBVIOUS
  <1>1. CASE Coordinator
    BY <1>1, DispatchingType, ReceivingType, AdvancingType, StoppingType,
       FailingType DEF Coordinator
  <1>2. ASSUME NEW c \in Ops \cup Maintenances, Worker(c) PROVE TypeInv'
    BY <1>2, WorkerType
  <1>3. ASSUME NEW c \in Calls, Caller(c) PROVE TypeInv'
    BY <1>3, EnsureOpenType, SubmitType DEF Caller
  <1>4. CASE DropHandles \/ \E c \in Closes : Closer(c)
    BY <1>4, CallerType
  <1>5. CASE UNCHANGED vars
    BY <1>5 DEF TypeInv, TypeOK, HandHeld, FiniteLoad, vars
  <1> QED
    BY <1>1, <1>2, <1>3, <1>4, <1>5 DEF Next, Terminated

(* Type correctness of the engine for any keys, calls, faults and any      *)
(* positive max_concurrent_operations. The bound on workers is the part    *)
(* that needs an argument: run_scheduler sizes the pool by the number of   *)
(* active keys, which dispatch_if_idle keeps below the maximum.            *)
THEOREM TypeCorrect == Spec => []TypeOK
  <1>1. TypeInv => TypeOK
    BY DEF TypeInv
  <1> QED
    BY <1>1, InitTypeInv, NextTypeInv, PTL DEF Spec

-----------------------------------------------------------------------------
(* The order of operations on one key.                                     *)

(* No call outside S enters or leaves the phases P, or moves between them, *)
(* and the tickets of those in P stay.                                     *)
Undisturbed(P, S) ==
  \A d \in Calls \ S :
    /\ phase[d] \in P => phase'[d] = phase[d] /\ ticket'[d] = ticket[d]
    /\ phase'[d] \in P => phase[d] \in P

(* The elements of a non-empty sequence, its head and its tail.            *)
LEMMA TailElements ==
  ASSUME NEW T, NEW s \in Seq(T), s # <<>>
  PROVE  /\ Len(s) \in Nat \ {0}
         /\ Len(Tail(s)) = Len(s) - 1
         /\ \A i \in 1..(Len(s) - 1) : Tail(s)[i] = s[i + 1]
         /\ Head(s) = s[1]
         /\ \A i \in 1..Len(s) : s[i] \in T
  OBVIOUS

(* Each event in the channel is of a call in the phase of its kind.        *)
LEMMA ChannelMembers ==
  ASSUME TypeInv, ChannelInv
  PROVE  \A i \in 1..Len(channel) :
           /\ channel[i].call \in Calls
           /\ channel[i].kind = "submit" => phase[channel[i].call] = "sent"
           /\ channel[i].kind # "submit" => phase[channel[i].call] = "completing"
  <1>1. \A i \in 1..Len(channel) : channel[i] \in Events
    BY DEF TypeInv, TypeOK
  <1> QED
    BY <1>1 DEF ChannelInv, Events

(* ChannelInv survives a step that leaves the channel and its calls alone. *)
LEMMA ChannelKeep ==
  ASSUME TypeInv, TypeInv', ChannelInv, channel' = channel,
         Undisturbed({"sent", "completing"}, {})
  PROVE  ChannelInv'
  <1>2. \A i \in 1..Len(channel) :
          /\ channel[i].call \in Calls
          /\ channel[i].kind = "submit" => phase[channel[i].call] = "sent"
          /\ channel[i].kind # "submit" => phase[channel[i].call] = "completing"
    BY ChannelMembers
  <1>3. \A i \in 1..Len(channel) :
          /\ phase'[channel[i].call] = phase[channel[i].call]
          /\ ticket'[channel[i].call] = ticket[channel[i].call]
    BY <1>2 DEF Undisturbed
  <1>4. \A d \in Calls : phase'[d] \in {"sent", "completing"}
                           => phase[d] \in {"sent", "completing"}
    BY DEF Undisturbed
  <1> QED
    BY <1>2, <1>3, <1>4 DEF ChannelInv

(* ChannelInv survives taking the first event if its call moves on.        *)
LEMMA ChannelPop ==
  ASSUME TypeInv, TypeInv', ChannelInv, channel # <<>>, channel' = Tail(channel),
         Undisturbed({"sent", "completing"}, {Head(channel).call}),
         phase'[Head(channel).call] \notin {"sent", "completing"}
  PROVE  ChannelInv'
  <1> DEFINE n == Len(channel)
  <1>1. /\ n \in Nat \ {0}
        /\ channel \in Seq(Events)
        /\ Len(channel') = n - 1
        /\ \A i \in 1..(n - 1) : channel'[i] = channel[i + 1]
        /\ Head(channel) = channel[1]
    BY DEF TypeInv, TypeOK
  <1>2. \A i \in 1..n :
          /\ channel[i].call \in Calls
          /\ channel[i].kind = "submit" => phase[channel[i].call] = "sent"
          /\ channel[i].kind # "submit" => phase[channel[i].call] = "completing"
    BY ChannelMembers
  <1>3. \A i \in 2..n : channel[i].call # channel[1].call
    BY <1>1 DEF ChannelInv
  <1>4. \A i \in 2..n :
          /\ phase'[channel[i].call] = phase[channel[i].call]
          /\ ticket'[channel[i].call] = ticket[channel[i].call]
    BY <1>1, <1>2, <1>3 DEF Undisturbed
  <1>5. \A i \in 1..(n - 1) :
          phase'[channel'[i].call] =
            IF channel'[i].kind = "submit" THEN "sent" ELSE "completing"
    BY <1>1, <1>2, <1>4
  <1>6. \A i, j \in 1..(n - 1) : i < j =>
          /\ channel'[i].call # channel'[j].call
          /\ channel'[i].kind = "submit" /\ channel'[j].kind = "submit"
               => ticket'[channel'[i].call] < ticket'[channel'[j].call]
    BY <1>1, <1>2, <1>4 DEF ChannelInv
  <1>7. ASSUME NEW d \in Calls, phase'[d] \in {"sent", "completing"}
        PROVE  \E i \in 1..(n - 1) : channel'[i].call = d
    <2>1. d # channel[1].call /\ phase[d] \in {"sent", "completing"}
      BY <1>1, <1>2, <1>7 DEF Undisturbed
    <2>2. PICK i \in 1..n : channel[i].call = d
      BY <2>1 DEF ChannelInv
    <2>3. i - 1 \in 1..(n - 1) /\ channel'[i - 1].call = d
      BY <1>1, <2>1, <2>2
    <2> QED
      BY <2>3
  <1> QED
    BY <1>1, <1>5, <1>6, <1>7 DEF ChannelInv

(* ChannelInv survives sending an event of a call that had none, a         *)
(* submission with a ticket above those in the channel.                    *)
LEMMA ChannelPush ==
  ASSUME TypeInv, TypeInv', ChannelInv, NEW e \in Events,
         channel' = Append(channel, e),
         Undisturbed({"sent", "completing"}, {e.call}),
         phase[e.call] \notin {"sent", "completing"},
         phase'[e.call] = IF e.kind = "submit" THEN "sent" ELSE "completing",
         e.kind = "submit" =>
           \A d \in Calls : phase[d] = "sent" => ticket[d] < ticket'[e.call]
  PROVE  ChannelInv'
  <1> DEFINE n == Len(channel)
  <1>1. /\ n \in Nat
        /\ channel \in Seq(Events)
        /\ Len(channel') = n + 1
        /\ \A i \in 1..n : channel'[i] = channel[i]
        /\ channel'[n + 1] = e
    BY DEF TypeInv, TypeOK
  <1>2. \A i \in 1..n :
          /\ channel[i].call \in Calls
          /\ channel[i].kind = "submit" => phase[channel[i].call] = "sent"
          /\ channel[i].kind # "submit" => phase[channel[i].call] = "completing"
    BY ChannelMembers
  <1>3. \A i \in 1..n : channel[i].call # e.call
    BY <1>2
  <1>4. \A i \in 1..n :
          /\ phase'[channel[i].call] = phase[channel[i].call]
          /\ ticket'[channel[i].call] = ticket[channel[i].call]
    BY <1>2, <1>3 DEF Undisturbed
  <1>5. \A i \in 1..(n + 1) :
          phase'[channel'[i].call] =
            IF channel'[i].kind = "submit" THEN "sent" ELSE "completing"
    BY <1>1, <1>2, <1>4
  <1>6. ASSUME NEW i \in 1..(n + 1), NEW j \in 1..(n + 1), i < j
        PROVE  /\ channel'[i].call # channel'[j].call
               /\ channel'[i].kind = "submit" /\ channel'[j].kind = "submit"
                    => ticket'[channel'[i].call] < ticket'[channel'[j].call]
    <2>1. CASE j \in 1..n
      BY <1>1, <1>4, <1>6, <2>1 DEF ChannelInv
    <2>2. CASE j = n + 1
      <3>1. i \in 1..n
        BY <1>1, <1>6, <2>2
      <3> QED
        BY <1>1, <1>2, <1>3, <1>4, <3>1, <2>2
    <2> QED
      BY <1>1, <2>1, <2>2
  <1>7. ASSUME NEW d \in Calls, phase'[d] \in {"sent", "completing"}
        PROVE  \E i \in 1..(n + 1) : channel'[i].call = d
    <2>1. CASE d = e.call
      BY <1>1, <2>1
    <2>2. CASE d # e.call
      <3>1. phase[d] \in {"sent", "completing"}
        BY <1>7, <2>2 DEF Undisturbed
      <3>2. PICK i \in 1..n : channel[i].call = d
        BY <3>1 DEF ChannelInv
      <3> QED
        BY <1>1, <3>2
    <2> QED
      BY <2>1, <2>2
  <1> QED
    BY <1>1, <1>5, <1>6, <1>7 DEF ChannelInv

(* PendingInv survives a step that leaves the pending FIFO and its calls   *)
(* alone.                                                                  *)
LEMMA PendingKeep ==
  ASSUME TypeInv, TypeInv', PendingInv, pending' = pending,
         Undisturbed({"pending"}, {})
  PROVE  PendingInv'
  <1>1. \A i \in 1..Len(pending) : pending[i] \in Calls
    BY DEF TypeInv, TypeOK
  <1> QED
    BY <1>1 DEF PendingInv, Undisturbed

(* PendingInv survives taking the first deferred event if its call moves   *)
(* on.                                                                     *)
LEMMA PendingPop ==
  ASSUME TypeInv, TypeInv', PendingInv, pending # <<>>, pending' = Tail(pending),
         Undisturbed({"pending"}, {Head(pending)}),
         phase'[Head(pending)] # "pending"
  PROVE  PendingInv'
  <1> DEFINE n == Len(pending)
  <1>1. /\ n \in Nat \ {0}
        /\ Len(pending') = n - 1
        /\ \A i \in 1..(n - 1) : pending'[i] = pending[i + 1]
        /\ Head(pending) = pending[1]
        /\ \A i \in 1..n : pending[i] \in Calls
    BY TailElements DEF TypeInv, TypeOK
  <1>2. \A i \in 2..n : pending[i] # pending[1]
    <2>1. \A i \in 1..n : ticket[pending[i]] \in Nat
      BY <1>1 DEF TypeInv, TypeOK
    <2> QED
      BY <1>1, <2>1 DEF PendingInv
  <1>3. \A i \in 2..n :
          /\ phase'[pending[i]] = "pending"
          /\ ticket'[pending[i]] = ticket[pending[i]]
    BY <1>1, <1>2 DEF Undisturbed, PendingInv
  <1>4. \A i \in 1..(n - 1) : phase'[pending'[i]] = "pending"
    BY <1>1, <1>3
  <1>5. \A i, j \in 1..(n - 1) :
          i < j => ticket'[pending'[i]] < ticket'[pending'[j]]
    BY <1>1, <1>3 DEF PendingInv
  <1>6. ASSUME NEW d \in Calls, phase'[d] = "pending"
        PROVE  \E i \in 1..(n - 1) : pending'[i] = d
    <2>1. d # pending[1] /\ phase[d] = "pending"
      BY <1>1, <1>6 DEF Undisturbed
    <2>2. PICK i \in 1..n : pending[i] = d
      BY <2>1 DEF PendingInv
    <2>3. i - 1 \in 1..(n - 1) /\ pending'[i - 1] = d
      BY <1>1, <2>1, <2>2
    <2> QED
      BY <2>3
  <1> QED
    BY <1>1, <1>4, <1>5, <1>6 DEF PendingInv

(* PendingInv survives deferring a call submitted after all pending ones.  *)
LEMMA PendingPush ==
  ASSUME TypeInv, TypeInv', PendingInv, NEW c \in Calls,
         pending' = Append(pending, c), ticket' = ticket,
         Undisturbed({"pending"}, {c}),
         phase[c] # "pending", phase'[c] = "pending",
         \A d \in Calls : phase[d] = "pending" => ticket[d] < ticket[c]
  PROVE  PendingInv'
  <1> DEFINE n == Len(pending)
  <1>1. /\ n \in Nat
        /\ Len(pending') = n + 1
        /\ \A i \in 1..n : pending'[i] = pending[i]
        /\ pending'[n + 1] = c
        /\ \A i \in 1..n : pending[i] \in Calls
    BY DEF TypeInv, TypeOK
  <1>2. \A i \in 1..n : pending[i] # c /\ phase'[pending[i]] = "pending"
    BY <1>1 DEF Undisturbed, PendingInv
  <1>3. \A i \in 1..(n + 1) : phase'[pending'[i]] = "pending"
    BY <1>1, <1>2
  <1>4. ASSUME NEW i \in 1..(n + 1), NEW j \in 1..(n + 1), i < j
        PROVE  ticket'[pending'[i]] < ticket'[pending'[j]]
    <2>1. CASE j \in 1..n
      BY <1>1, <1>4, <2>1 DEF PendingInv
    <2>2. CASE j = n + 1
      <3>1. i \in 1..n
        BY <1>1, <1>4, <2>2
      <3> QED
        BY <1>1, <2>2, <3>1 DEF PendingInv
    <2> QED
      BY <1>1, <2>1, <2>2
  <1>5. ASSUME NEW d \in Calls, phase'[d] = "pending"
        PROVE  \E i \in 1..(n + 1) : pending'[i] = d
    <2>1. CASE d = c
      BY <1>1, <2>1
    <2>2. CASE d # c
      <3>1. phase[d] = "pending"
        BY <1>5, <2>2 DEF Undisturbed
      <3>2. PICK i \in 1..n : pending[i] = d
        BY <3>1 DEF PendingInv
      <3> QED
        BY <1>1, <3>2
    <2> QED
      BY <2>1, <2>2
  <1> QED
    BY <1>1, <1>3, <1>4, <1>5 DEF PendingInv

(* QueueInv survives a step that leaves the queues and their operations    *)
(* alone.                                                                  *)
LEMMA QueueKeep ==
  ASSUME TypeInv, TypeInv', QueueInv, queues' = queues, keyOf' = keyOf,
         Undisturbed({"queued"}, {})
  PROVE  QueueInv'
  <1>1. \A k \in Keys : \A i \in 1..Len(queues[k]) : queues[k][i] \in Calls
    BY DEF TypeInv, TypeOK, Calls
  <1>2. \A k \in Keys : \A i \in 1..Len(queues[k]) :
          /\ phase'[queues[k][i]] = "queued"
          /\ ticket'[queues[k][i]] = ticket[queues[k][i]]
    BY <1>1 DEF QueueInv, Undisturbed
  <1>3. \A d \in Calls : phase'[d] = "queued" => phase[d] = "queued"
    BY DEF Undisturbed
  <1> QED
    BY <1>2, <1>3 DEF QueueInv

(* QueueInv survives taking the first operation of one queue.              *)
LEMMA QueuePop ==
  ASSUME TypeInv, TypeInv', QueueInv, NEW k \in Keys, queues[k] # <<>>,
         queues' = [queues EXCEPT ![k] = Tail(@)], keyOf' = keyOf,
         ticket' = ticket,
         Undisturbed({"queued"}, {Head(queues[k])}),
         phase'[Head(queues[k])] # "queued"
  PROVE  QueueInv'
  <1> DEFINE q == queues[k]
             n == Len(q)
  <1>1. /\ q \in Seq(Ops) /\ q # <<>>
        /\ queues'[k] = Tail(q)
        /\ \A m \in Keys \ {k} : queues'[m] = queues[m]
    BY DEF TypeInv, TypeOK
  <1>2. /\ n \in Nat \ {0}
        /\ Len(queues'[k]) = n - 1
        /\ \A i \in 1..(n - 1) : queues'[k][i] = q[i + 1]
        /\ Head(q) = q[1]
        /\ \A i \in 1..n : q[i] \in Ops
    <2> HIDE DEF q
    <2>1. /\ n \in Nat \ {0}
          /\ Len(Tail(q)) = n - 1
          /\ \A i \in 1..(n - 1) : Tail(q)[i] = q[i + 1]
          /\ Head(q) = q[1]
          /\ \A i \in 1..n : q[i] \in Ops
      BY <1>1, TailElements
    <2> QED
      BY <1>1, <2>1
  <1>3. /\ \A m \in Keys : \A i \in 1..Len(queues[m]) : queues[m][i] \in Ops
        /\ Ops \subseteq Calls
    BY DEF TypeInv, TypeOK, Calls
  <1>4. \A m \in Keys \ {k} : \A i \in 1..Len(queues[m]) : queues[m][i] # q[1]
    BY <1>2 DEF QueueInv
  <1>5. \A i \in 2..n : q[i] # q[1]
    <2>1. \A i \in 1..n : ticket[q[i]] \in Nat
      BY <1>2, <1>3 DEF TypeInv, TypeOK
    <2> QED
      BY <1>2, <2>1 DEF QueueInv
  <1>6. \A m \in Keys \ {k} : \A i \in 1..Len(queues[m]) :
          phase'[queues[m][i]] = "queued"
    BY <1>2, <1>3, <1>4 DEF QueueInv, Undisturbed
  <1>7. \A i \in 2..n : phase'[q[i]] = "queued"
    BY <1>2, <1>3, <1>5 DEF QueueInv, Undisturbed
  <1>8. \A m \in Keys : \A i \in 1..Len(queues'[m]) :
          phase'[queues'[m][i]] = "queued" /\ keyOf'[queues'[m][i]] = m
    <2> SUFFICES ASSUME NEW m \in Keys, NEW i \in 1..Len(queues'[m])
                 PROVE  phase'[queues'[m][i]] = "queued" /\ keyOf'[queues'[m][i]] = m
      OBVIOUS
    <2>1. CASE m = k
      BY <1>2, <1>7, <2>1 DEF QueueInv
    <2>2. CASE m # k
      BY <1>1, <1>6, <2>2 DEF QueueInv
    <2> QED
      BY <2>1, <2>2
  <1>9. \A m \in Keys : \A i, j \in 1..Len(queues'[m]) :
          i < j => ticket'[queues'[m][i]] < ticket'[queues'[m][j]]
    <2> SUFFICES ASSUME NEW m \in Keys, NEW i \in 1..Len(queues'[m]),
                        NEW j \in 1..Len(queues'[m]), i < j
                 PROVE  ticket'[queues'[m][i]] < ticket'[queues'[m][j]]
      OBVIOUS
    <2>1. CASE m = k
      BY <1>2, <2>1 DEF QueueInv
    <2>2. CASE m # k
      BY <1>1, <2>2 DEF QueueInv
    <2> QED
      BY <2>1, <2>2
  <1>10. ASSUME NEW d \in Calls, phase'[d] = "queued"
         PROVE  d \in Ops /\ \E i \in 1..Len(queues'[keyOf[d]]) :
                               queues'[keyOf[d]][i] = d
    <2>1. d # q[1] /\ phase[d] = "queued"
      BY <1>2, <1>10 DEF Undisturbed
    <2>2. d \in Ops /\ keyOf[d] \in Keys
      BY <2>1 DEF QueueInv, TypeInv, TypeOK
    <2>3. PICK i \in 1..Len(queues[keyOf[d]]) : queues[keyOf[d]][i] = d
      BY <2>1 DEF QueueInv
    <2>4. CASE keyOf[d] = k
      <3>1. i - 1 \in 1..(n - 1) /\ queues'[k][i - 1] = d
        BY <1>2, <2>1, <2>3, <2>4
      <3> QED
        BY <1>2, <2>2, <2>4, <3>1
    <2>5. CASE keyOf[d] # k
      BY <1>1, <2>2, <2>3, <2>5
    <2> QED
      BY <2>4, <2>5
  <1> QED
    BY <1>8, <1>9, <1>10 DEF QueueInv

(* QueueInv survives appending to its key's queue an operation submitted   *)
(* after all queued ones.                                                  *)
LEMMA QueuePush ==
  ASSUME TypeInv, TypeInv', QueueInv, NEW c \in Ops, ticket' = ticket,
         queues' = [queues EXCEPT ![keyOf[c]] = Append(@, c)], keyOf' = keyOf,
         Undisturbed({"queued"}, {c}),
         phase[c] # "queued", phase'[c] = "queued",
         \A d \in Ops : phase[d] = "queued" => ticket[d] < ticket[c]
  PROVE  QueueInv'
  <1> DEFINE k == keyOf[c]
             q == queues[k]
             n == Len(q)
  <1>1. /\ k \in Keys /\ q \in Seq(Ops)
        /\ queues'[k] = Append(q, c)
        /\ \A m \in Keys \ {k} : queues'[m] = queues[m]
    BY DEF TypeInv, TypeOK
  <1>2. /\ n \in Nat
        /\ Len(queues'[k]) = n + 1
        /\ \A i \in 1..n : queues'[k][i] = q[i]
        /\ queues'[k][n + 1] = c
    BY <1>1
  <1>3. /\ \A m \in Keys : \A i \in 1..Len(queues[m]) : queues[m][i] \in Ops
        /\ Ops \subseteq Calls
    BY DEF TypeInv, TypeOK, Calls
  <1>4. \A m \in Keys : \A i \in 1..Len(queues[m]) :
          phase'[queues[m][i]] = "queued"
    BY <1>3 DEF QueueInv, Undisturbed
  <1>8. \A m \in Keys : \A i \in 1..Len(queues'[m]) :
          phase'[queues'[m][i]] = "queued" /\ keyOf'[queues'[m][i]] = m
    <2> SUFFICES ASSUME NEW m \in Keys, NEW i \in 1..Len(queues'[m])
                 PROVE  phase'[queues'[m][i]] = "queued" /\ keyOf'[queues'[m][i]] = m
      OBVIOUS
    <2>1. CASE m = k /\ i \in 1..n
      BY <1>1, <1>2, <1>4, <2>1 DEF QueueInv
    <2>2. CASE m = k /\ i = n + 1
      BY <1>2, <2>2
    <2>3. CASE m # k
      BY <1>1, <1>4, <2>3 DEF QueueInv
    <2> QED
      BY <1>2, <2>1, <2>2, <2>3
  <1>9. \A m \in Keys : \A i, j \in 1..Len(queues'[m]) :
          i < j => ticket'[queues'[m][i]] < ticket'[queues'[m][j]]
    <2> SUFFICES ASSUME NEW m \in Keys, NEW i \in 1..Len(queues'[m]),
                        NEW j \in 1..Len(queues'[m]), i < j
                 PROVE  ticket'[queues'[m][i]] < ticket'[queues'[m][j]]
      OBVIOUS
    <2>1. CASE m = k /\ j \in 1..n
      BY <1>1, <1>2, <2>1 DEF QueueInv
    <2>2. CASE m = k /\ j = n + 1
      <3>1. i \in 1..n
        BY <1>2, <2>2
      <3>2. q[i] \in Ops /\ phase[q[i]] = "queued"
        BY <1>1, <1>3, <3>1 DEF QueueInv
      <3> QED
        BY <1>2, <2>2, <3>1, <3>2
    <2>3. CASE m # k
      BY <1>1, <2>3 DEF QueueInv
    <2> QED
      BY <1>2, <2>1, <2>2, <2>3
  <1>10. ASSUME NEW d \in Calls, phase'[d] = "queued"
         PROVE  d \in Ops /\ \E i \in 1..Len(queues'[keyOf[d]]) :
                               queues'[keyOf[d]][i] = d
    <2>1. CASE d = c
      BY <1>2, <2>1
    <2>2. CASE d # c
      <3>1. phase[d] = "queued"
        BY <1>10, <2>2 DEF Undisturbed
      <3>2. d \in Ops /\ keyOf[d] \in Keys
        BY <3>1 DEF QueueInv, TypeInv, TypeOK
      <3>3. PICK i \in 1..Len(queues[keyOf[d]]) : queues[keyOf[d]][i] = d
        BY <3>1 DEF QueueInv
      <3>4. CASE keyOf[d] = k
        BY <1>2, <3>2, <3>3, <3>4
      <3>5. CASE keyOf[d] # k
        BY <1>1, <3>2, <3>3, <3>5
      <3> QED
        BY <3>4, <3>5
    <2> QED
      BY <2>1, <2>2
  <1> QED
    BY <1>8, <1>9, <1>10 DEF QueueInv

(* OrderInv survives a step in which no call comes nearer to a worker than *)
(* it was, except that those on one may finish.                            *)
LEMMA OrderKeep ==
  ASSUME TypeInv, OrderInv, keyOf' = keyOf,
         \A d \in Calls : phase'[d] \in Held \cup {"sent"} =>
           /\ ticket'[d] = ticket[d]
           /\ \/ phase'[d] = phase[d]
              \/ phase'[d] \in InFlight \cup {"settling"} /\ phase[d] \in InFlight
  PROVE  OrderInv'
  <1>1. Ops \subseteq Calls
    BY DEF Calls
  <1>2. \A c, d \in Calls :
          phase'[c] = "sent" /\ phase'[d] \in Held => ticket'[d] < ticket'[c]
    BY DEF OrderInv, Held, InFlight
  <1>3. \A c, d \in Calls :
          phase'[c] = "pending" /\ phase'[d] \in Held \ {"pending"}
            => ticket'[d] < ticket'[c]
    BY DEF OrderInv, Held, InFlight
  <1>4. \A c, d \in Ops :
          phase'[c] = "queued" /\ phase'[d] \in InFlight /\ keyOf[c] = keyOf[d]
            => ticket'[d] < ticket'[c]
    BY <1>1 DEF OrderInv, Held, InFlight
  <1> QED
    BY <1>2, <1>3, <1>4 DEF OrderInv

(* ActiveInv survives a step that releases no key and puts no operation on *)
(* a worker.                                                               *)
LEMMA ActiveKeep ==
  ASSUME ActiveInv, keyOf' = keyOf, active \subseteq active',
         panicked' = panicked,
         panicked => coordPc' \in {"unwind", "faildrain", "done"},
         \A d \in Ops : phase'[d] \in InFlight => phase[d] \in InFlight
  PROVE  ActiveInv'
  BY DEF ActiveInv

(* TicketInv survives a step that hands out no ticket and sends no call    *)
(* back.                                                                   *)
LEMMA TicketKeep ==
  ASSUME TicketInv, ticket' = ticket,
         \A d \in Calls :
           /\ phase'[d] \in {"idle", "admitting"} => phase[d] \in {"idle", "admitting"}
           /\ phase'[d] \in Held \cup {"sent"} => phase[d] \in Held \cup {"sent"}
           /\ d \notin Closes /\ phase'[d] \in {"joining", "returned"} =>
                phase[d] \in {"joining", "returned"}
  PROVE  TicketInv'
  BY DEF TicketInv

-----------------------------------------------------------------------------
(* A step that changes only replies, workers, lifecycle, registry entries  *)
(* or the coordinator's place keeps every call where it is.                *)
LEMMA StillPlacement ==
  ASSUME TypeInv, TypeInv', PlacementInv,
         UNCHANGED <<keyOf, phase, ticket, channel, queues, pending, active, panicked>>,
         panicked => coordPc' \in {"unwind", "faildrain", "done"}
  PROVE  PlacementInv'
  <1>1. TicketInv' /\ PendingInv' /\ QueueInv' /\ OrderInv'
    BY DEF PlacementInv, TicketInv, PendingInv, QueueInv, OrderInv
  <1>2. ChannelInv'
    BY DEF PlacementInv, ChannelInv
  <1>3. ActiveInv'
    BY DEF PlacementInv, ActiveInv
  <1> QED
    BY <1>1, <1>2, <1>3 DEF PlacementInv

(* A call may change phase outside the channel, pending and the queues:    *)
(* refused callers, waiting closers, workers taking a job, settled         *)
(* operations.                                                             *)
LEMMA MovePlacement ==
  ASSUME TypeInv, TypeInv', PlacementInv, NEW c \in Calls, NEW p,
         phase' = [phase EXCEPT ![c] = p],
         UNCHANGED <<keyOf, ticket, channel, queues, pending, active, panicked>>,
         panicked => coordPc' \in {"unwind", "faildrain", "done"},
         \/ phase[c] = "idle" /\ p \in {"admitting", "done"}
         \/ phase[c] = "admitting" /\ p = "done"
         \/ c \in Closes /\ phase[c] \in {"done", "joining"} /\ p \in {"joining", "returned"}
         \/ phase[c] = "dispatched" /\ p = "running"
         \/ phase[c] = "settling" /\ p = "done"
  PROVE  PlacementInv'
  <1>1. phase'[c] = p /\ \A d \in Calls : d # c => phase'[d] = phase[d]
    BY DEF TypeInv, TypeOK
  <1>2. TicketInv'
    BY <1>1, TicketKeep DEF PlacementInv, Held
  <1>3. ChannelInv'
    BY <1>1, ChannelKeep DEF PlacementInv, Undisturbed
  <1>4. PendingInv'
    BY <1>1, PendingKeep DEF PlacementInv, Undisturbed
  <1>5. QueueInv'
    BY <1>1, QueueKeep DEF PlacementInv, Undisturbed
  <1>6. OrderInv'
    BY <1>1, OrderKeep DEF PlacementInv, Held, InFlight
  <1>7. ActiveInv'
    BY <1>1, ActiveKeep DEF PlacementInv, InFlight, Calls
  <1> QED
    BY <1>2, <1>3, <1>4, <1>5, <1>6, <1>7 DEF PlacementInv

(* submit: the event goes to the end of the channel with the highest       *)
(* ticket.                                                                 *)
LEMMA SubmitPlacement ==
  ASSUME TypeInv, TypeInv', PlacementInv, NEW c \in Calls, Submit(c)
  PROVE  PlacementInv'
  <1>1. CASE Refusal(c) # "none"
    <2>1. /\ phase[c] = "admitting" /\ phase' = [phase EXCEPT ![c] = "done"]
          /\ UNCHANGED <<keyOf, ticket, channel, queues, pending, active, panicked, coordPc>>
      BY <1>1 DEF Submit
    <2>2. panicked => coordPc' \in {"unwind", "faildrain", "done"}
      BY <2>1 DEF PlacementInv, ActiveInv
    <2> QED
      BY <2>1, <2>2, MovePlacement
  <1>2. CASE Refusal(c) = "none"
    <2> DEFINE S == {d \in Calls : ticket[d] # 0}
               e == [kind |-> "submit", call |-> c]
    <2>1. /\ phase[c] = "admitting" /\ phase' = [phase EXCEPT ![c] = "sent"]
          /\ channel' = Append(channel, e)
          /\ ticket' = [ticket EXCEPT ![c] = 1 + Cardinality(S)]
          /\ UNCHANGED <<keyOf, queues, pending, active, panicked, coordPc>>
      BY <1>2 DEF Submit
    <2>2. /\ phase'[c] = "sent" /\ \A d \in Calls : d # c => phase'[d] = phase[d]
          /\ ticket'[c] = 1 + Cardinality(S)
          /\ \A d \in Calls : d # c => ticket'[d] = ticket[d]
      <3> HIDE DEF S, e
      <3> QED
        BY <2>1 DEF TypeInv, TypeOK
    <2>3. ticket[c] = 0 /\ ticket \in [Calls -> Nat]
      BY <2>1 DEF PlacementInv, TicketInv, TypeInv, TypeOK
    <2>4. IsFiniteSet(S) /\ Cardinality(S) \in Nat
      BY FS_CardinalityType DEF TypeInv, FiniteLoad
    <2>5. S' = S \cup {c} /\ c \notin S
      BY <2>2, <2>3, <2>4
    <2>6. Cardinality(S') = Cardinality(S) + 1
      BY <2>4, <2>5, FS_AddElement
    <2>7. \A d \in Calls : ticket[d] <= Cardinality(S)
      BY DEF PlacementInv, TicketInv
    <2>8. \A d \in Calls : d # c => ticket[d] < ticket'[c]
      BY <2>2, <2>3, <2>4, <2>7
    <2>9. \A d \in Calls : ticket'[d] <= Cardinality(S')
      BY <2>2, <2>3, <2>4, <2>6, <2>7
    <2> HIDE DEF S
    <2>10. TicketInv'
      <3>1. \A d \in Calls : ticket'[d] <= Cardinality({b \in Calls : ticket'[b] # 0})
        BY <2>9 DEF S
      <3>2. ticket'[c] # 0
        BY <2>2, <2>4
      <3> QED
        BY <2>1, <2>2, <3>1, <3>2 DEF PlacementInv, TicketInv, Held
    <2>11. ChannelInv'
      <3>1. e \in Events /\ e.call = c /\ e.kind = "submit"
        BY DEF Events
      <3> HIDE DEF e
      <3>2. Undisturbed({"sent", "completing"}, {e.call})
        BY <2>1, <2>2, <3>1 DEF Undisturbed
      <3>3. \A d \in Calls : phase[d] = "sent" => ticket[d] < ticket'[e.call]
        BY <2>1, <2>8, <3>1
      <3> QED
        BY <2>1, <2>2, <3>1, <3>2, <3>3, ChannelPush DEF PlacementInv
    <2>12. PendingInv'
      BY <2>1, <2>2, PendingKeep DEF PlacementInv, Undisturbed
    <2>13. QueueInv'
      BY <2>1, <2>2, QueueKeep DEF PlacementInv, Undisturbed
    <2>14. OrderInv'
      <3>1. Ops \subseteq Calls
        BY DEF Calls
      <3> QED
        BY <2>1, <2>2, <2>8, <3>1 DEF PlacementInv, OrderInv, Held, InFlight
    <2>15. ActiveInv'
      BY <2>1, <2>2, ActiveKeep DEF PlacementInv, ActiveInv, InFlight, Calls
    <2> QED
      BY <2>10, <2>11, <2>12, <2>13, <2>14, <2>15 DEF PlacementInv
  <1> QED
    BY <1>1, <1>2

(* A worker that ends a job sends the call's one completion event.         *)
LEMMA FinishPlacement ==
  ASSUME TypeInv, TypeInv', PlacementInv, NEW c \in Ops \cup Maintenances,
         NEW ok \in BOOLEAN, WorkerFinish(c, ok)
  PROVE  PlacementInv'
  <1> DEFINE e == [kind |-> "complete", call |-> c]
  <1>0. c \in Calls
    BY DEF Calls
  <1>1. /\ phase[c] = "running" /\ phase' = [phase EXCEPT ![c] = "completing"]
        /\ channel' = Append(channel, e)
        /\ UNCHANGED <<keyOf, ticket, queues, pending, active, panicked, coordPc>>
    BY DEF WorkerFinish
  <1>2. phase'[c] = "completing" /\ \A d \in Calls : d # c => phase'[d] = phase[d]
    BY <1>0, <1>1 DEF TypeInv, TypeOK
  <1>3. TicketInv'
    BY <1>1, <1>2, TicketKeep DEF PlacementInv, Held
  <1>4. ChannelInv'
    <2>1. e \in Events /\ e.call = c /\ e.kind = "complete"
      BY <1>0 DEF Events
    <2> HIDE DEF e
    <2>2. Undisturbed({"sent", "completing"}, {e.call})
      BY <1>1, <1>2, <2>1 DEF Undisturbed
    <2> QED
      BY <1>1, <1>2, <2>1, <2>2, ChannelPush DEF PlacementInv
  <1>5. PendingInv'
    BY <1>1, <1>2, PendingKeep DEF PlacementInv, Undisturbed
  <1>6. QueueInv'
    BY <1>1, <1>2, QueueKeep DEF PlacementInv, Undisturbed
  <1>7. OrderInv'
    BY <1>1, <1>2, OrderKeep DEF PlacementInv, Held, InFlight
  <1>8. ActiveInv'
    BY <1>1, <1>2, ActiveKeep DEF PlacementInv, ActiveInv, InFlight, Calls
  <1> QED
    BY <1>3, <1>4, <1>5, <1>6, <1>7, <1>8 DEF PlacementInv

(* dispatch_if_idle takes the oldest operation of an idle key to a worker, *)
(* or answers it when no worker can be started.                            *)
LEMMA DispatchPlacement ==
  ASSUME TypeInv, TypeInv', PlacementInv, NEW k \in Keys,
         Dispatchable(k), Dispatch(k),
         coordPc \in {"dispatch", "available", "redispatch"},
         UNCHANGED <<keyOf, ticket, channel, pending, panicked>>
  PROVE  PlacementInv'
  <1> DEFINE c == Head(queues[k])
  <1>1. queues[k] \in Seq(Ops) /\ queues[k] # <<>> /\ k \notin active
    BY DEF TypeInv, TypeOK, Dispatchable
  <1>2. /\ c \in Ops /\ c \in Calls /\ c = queues[k][1] /\ 1 \in 1..Len(queues[k])
        /\ \A i \in 1..Len(queues[k]) : queues[k][i] \in Ops
    BY <1>1 DEF Calls
  <1>3. phase[c] = "queued" /\ keyOf[c] = k
    BY <1>2 DEF PlacementInv, QueueInv
  <1>4. PICK ok \in PrepareOutcomes(Cardinality(active) + 1) :
          /\ queues' = [queues EXCEPT ![k] = Tail(@)]
          /\ active' = IF ok THEN active \cup {k} ELSE active
          /\ phase' = [phase EXCEPT ![c] = IF ok THEN "dispatched" ELSE "done"]
    BY DEF Dispatch
  <1> HIDE DEF c
  <1>5. /\ phase'[c] \in {"dispatched", "done"}
        /\ phase'[c] = "dispatched" => k \in active'
        /\ active \subseteq active'
        /\ \A d \in Calls : d # c => phase'[d] = phase[d]
    BY <1>2, <1>4 DEF TypeInv, TypeOK
  <1>6. ~panicked
    BY DEF PlacementInv, ActiveInv
  <1>7. \A d \in Ops : keyOf[d] = k => phase[d] \notin InFlight
    BY <1>1, <1>6 DEF PlacementInv, ActiveInv
  <1>8. \A d \in Ops : phase[d] = "queued" /\ keyOf[d] = k /\ d # c
                         => ticket[c] < ticket[d]
    <2> SUFFICES ASSUME NEW d \in Ops, phase[d] = "queued", keyOf[d] = k, d # c
                 PROVE  ticket[c] < ticket[d]
      OBVIOUS
    <2>1. PICK i \in 1..Len(queues[k]) : queues[k][i] = d
      BY DEF PlacementInv, QueueInv, Calls
    <2>2. 1 < i
      BY <1>2, <2>1
    <2> QED
      BY <1>2, <2>1, <2>2 DEF PlacementInv, QueueInv
  <1>9. TicketInv'
    BY <1>3, <1>5, TicketKeep DEF PlacementInv, Held
  <1>10. ChannelInv'
    BY <1>3, <1>5, ChannelKeep DEF PlacementInv, Undisturbed
  <1>11. PendingInv'
    BY <1>3, <1>5, PendingKeep DEF PlacementInv, Undisturbed
  <1>12. QueueInv'
    <2>1. Undisturbed({"queued"}, {c})
      BY <1>5 DEF Undisturbed
    <2> QED
      BY <1>1, <1>4, <1>5, <2>1, QueuePop DEF PlacementInv, c
  <1>13. OrderInv'
    <2>1. \A a, d \in Calls :
            phase'[a] = "sent" /\ phase'[d] \in Held => ticket'[d] < ticket'[a]
      BY <1>3, <1>5 DEF PlacementInv, OrderInv, Held
    <2>2. \A a, d \in Calls :
            phase'[a] = "pending" /\ phase'[d] \in Held \ {"pending"}
              => ticket'[d] < ticket'[a]
      BY <1>3, <1>5 DEF PlacementInv, OrderInv, Held
    <2>3. ASSUME NEW a \in Ops, NEW d \in Ops,
                 phase'[a] = "queued", phase'[d] \in InFlight, keyOf[a] = keyOf[d]
          PROVE  ticket'[d] < ticket'[a]
      <3>1. a \in Calls /\ d \in Calls
        BY DEF Calls
      <3>2. CASE d = c
        BY <1>3, <1>5, <1>8, <2>3, <3>1, <3>2
      <3>3. CASE d # c
        BY <1>3, <1>5, <2>3, <3>1, <3>3 DEF PlacementInv, OrderInv
      <3> QED
        BY <3>2, <3>3
    <2> QED
      BY <2>1, <2>2, <2>3 DEF OrderInv
  <1>14. ActiveInv'
    <2>1. \A d \in Ops : d \in Calls
      BY DEF Calls
    <2>2. panicked' => coordPc' \in {"unwind", "faildrain", "done"}
      BY <1>6
    <2>3. \A d \in Ops : phase'[d] \in InFlight /\ ~panicked' => keyOf'[d] \in active'
      BY <1>3, <1>5, <1>6, <2>1 DEF PlacementInv, ActiveInv, InFlight
    <2>4. \A a, d \in Ops :
            phase'[a] \in InFlight /\ phase'[d] \in InFlight /\ keyOf'[a] = keyOf'[d]
              => a = d
      BY <1>3, <1>5, <1>7, <2>1 DEF PlacementInv, ActiveInv
    <2> QED
      BY <2>2, <2>3, <2>4 DEF ActiveInv
  <1> QED
    BY <1>9, <1>10, <1>11, <1>12, <1>13, <1>14 DEF PlacementInv

-----------------------------------------------------------------------------
(* The first submission in the channel is the oldest one there.            *)
LEMMA ChannelFront ==
  ASSUME TypeInv, PlacementInv, channel # <<>>
  PROVE  LET c == Head(channel).call IN
         /\ c \in Calls
         /\ Head(channel).kind = "submit" => phase[c] = "sent"
         /\ Head(channel).kind # "submit" => phase[c] = "completing"
         /\ Head(channel).kind \in {"submit", "complete"}
         /\ Head(channel).kind = "submit" =>
              \A d \in Calls : phase[d] = "sent" /\ d # c => ticket[c] < ticket[d]
  <1>1. /\ channel \in Seq(Events) /\ Len(channel) \in Nat \ {0}
        /\ Head(channel) = channel[1] /\ 1 \in 1..Len(channel)
    BY DEF TypeInv, TypeOK
  <1>2. Head(channel) \in Events
    BY <1>1
  <1>3. ASSUME NEW d \in Calls, phase[d] = "sent", d # channel[1].call,
               channel[1].kind = "submit"
        PROVE  ticket[channel[1].call] < ticket[d]
    <2>1. PICK i \in 1..Len(channel) : channel[i].call = d
      BY <1>3 DEF PlacementInv, ChannelInv
    <2>2. channel[i].kind = "submit"
      BY <1>3, <2>1, ChannelMembers DEF PlacementInv
    <2>3. 1 < i
      BY <1>1, <1>3, <2>1
    <2> QED
      BY <1>1, <1>3, <2>1, <2>2, <2>3 DEF PlacementInv, ChannelInv
  <1>4. Head(channel).call \in Calls /\ Head(channel).kind \in {"submit", "complete"}
    BY <1>2 DEF Events
  <1>5. /\ channel[1].kind = "submit" => phase[channel[1].call] = "sent"
        /\ channel[1].kind # "submit" => phase[channel[1].call] = "completing"
    BY <1>1, ChannelMembers DEF PlacementInv
  <1> QED
    BY <1>1, <1>3, <1>4, <1>5

(* The first deferred call is the oldest one deferred.                     *)
LEMMA PendingFront ==
  ASSUME TypeInv, PlacementInv, pending # <<>>
  PROVE  LET c == Head(pending) IN
         /\ c \in Calls /\ phase[c] = "pending"
         /\ \A d \in Calls : phase[d] = "pending" /\ d # c => ticket[c] < ticket[d]
  <1>1. /\ pending \in Seq(Calls) /\ Len(pending) \in Nat \ {0}
        /\ Head(pending) = pending[1] /\ 1 \in 1..Len(pending)
    BY DEF TypeInv, TypeOK
  <1>2. pending[1] \in Calls /\ phase[pending[1]] = "pending"
    BY <1>1 DEF PlacementInv, PendingInv
  <1>3. ASSUME NEW d \in Calls, phase[d] = "pending", d # pending[1]
        PROVE  ticket[pending[1]] < ticket[d]
    <2>1. PICK i \in 1..Len(pending) : pending[i] = d
      BY <1>3 DEF PlacementInv, PendingInv
    <2>2. 1 < i
      BY <1>1, <1>3, <2>1
    <2> QED
      BY <1>1, <2>1, <2>2 DEF PlacementInv, PendingInv
  <1> QED
    BY <1>1, <1>2, <1>3

(* An event is taken from the channel and its call answered, or settled    *)
(* with its key released.                                                  *)
LEMMA TakePlacement ==
  ASSUME TypeInv, TypeInv', PlacementInv, channel # <<>>,
         channel' = Tail(channel), NEW p,
         phase' = [phase EXCEPT ![Head(channel).call] = p],
         p = "done" \/ (p = "settling" /\ Head(channel).kind = "complete"),
         UNCHANGED <<keyOf, ticket, queues, pending, panicked>>,
         panicked => coordPc' \in {"unwind", "faildrain", "done"},
         \/ active' = active
         \/ /\ Head(channel).kind = "complete" /\ Head(channel).call \in Ops
            /\ active' = active \ {keyOf[Head(channel).call]}
  PROVE  PlacementInv'
  <1> DEFINE c == Head(channel).call
  <1>1. /\ c \in Calls /\ phase[c] \in {"sent", "completing"}
        /\ p = "settling" => phase[c] = "completing"
        /\ Head(channel).kind = "complete" => phase[c] = "completing"
    BY ChannelFront
  <1>2. phase'[c] = p /\ \A d \in Calls : d # c => phase'[d] = phase[d]
    BY <1>1 DEF TypeInv, TypeOK
  <1>3. ChannelInv'
    <2>1. Undisturbed({"sent", "completing"}, {c})
      BY <1>2 DEF Undisturbed
    <2> QED
      BY <1>2, <2>1, ChannelPop DEF PlacementInv
  <1>4. \/ active' = active
        \/ phase[c] = "completing" /\ c \in Ops /\ active' = active \ {keyOf[c]}
    BY <1>1
  <1> HIDE DEF c
  <1>5. TicketInv'
    BY <1>1, <1>2, TicketKeep DEF PlacementInv, Held
  <1>6. PendingInv'
    BY <1>1, <1>2, PendingKeep DEF PlacementInv, Undisturbed
  <1>7. QueueInv'
    BY <1>1, <1>2, QueueKeep DEF PlacementInv, Undisturbed
  <1>8. OrderInv'
    BY <1>1, <1>2, OrderKeep DEF PlacementInv, Held, InFlight
  <1>9. ActiveInv'
    <2>1. \A d \in Ops : d \in Calls
      BY DEF Calls
    <2>2. \A d \in Ops : phase'[d] \in InFlight => phase[d] \in InFlight /\ d # c
      BY <1>1, <1>2, <2>1 DEF InFlight
    <2>3. CASE active' = active
      BY <2>2, <2>3, ActiveKeep DEF PlacementInv
    <2>4. CASE phase[c] = "completing" /\ c \in Ops /\ active' = active \ {keyOf[c]}
      <3>1. \A d \in Ops : phase'[d] \in InFlight => keyOf[d] # keyOf[c]
        BY <2>2, <2>4 DEF PlacementInv, ActiveInv, InFlight
      <3> QED
        BY <2>2, <2>4, <3>1 DEF PlacementInv, ActiveInv
    <2> QED
      BY <1>4, <2>3, <2>4
  <1> QED
    BY <1>3, <1>5, <1>6, <1>7, <1>8, <1>9 DEF PlacementInv

(* A submission is taken from the channel to the end of pending.           *)
LEMMA DeferPlacement ==
  ASSUME TypeInv, TypeInv', PlacementInv, channel # <<>>,
         channel' = Tail(channel), Head(channel).kind = "submit",
         phase' = [phase EXCEPT ![Head(channel).call] = "pending"],
         pending' = Append(pending, Head(channel).call),
         UNCHANGED <<keyOf, ticket, queues, active, panicked>>,
         panicked => coordPc' \in {"unwind", "faildrain", "done"}
  PROVE  PlacementInv'
  <1> DEFINE c == Head(channel).call
  <1>1. /\ c \in Calls /\ phase[c] = "sent"
        /\ \A d \in Calls : phase[d] = "sent" /\ d # c => ticket[c] < ticket[d]
    BY ChannelFront
  <1>2. phase'[c] = "pending" /\ \A d \in Calls : d # c => phase'[d] = phase[d]
    BY <1>1 DEF TypeInv, TypeOK
  <1>3. ChannelInv'
    <2>1. Undisturbed({"sent", "completing"}, {c})
      BY <1>2 DEF Undisturbed
    <2> QED
      BY <1>2, <2>1, ChannelPop DEF PlacementInv
  <1>4. pending' = Append(pending, c)
    OBVIOUS
  <1> HIDE DEF c
  <1>5. TicketInv'
    BY <1>1, <1>2, TicketKeep DEF PlacementInv, Held
  <1>6. PendingInv'
    <2>1. Undisturbed({"pending"}, {c})
      BY <1>2 DEF Undisturbed
    <2>2. \A d \in Calls : phase[d] = "pending" => ticket[d] < ticket[c]
      BY <1>1 DEF PlacementInv, OrderInv, Held
    <2> QED
      BY <1>1, <1>2, <1>4, <2>1, <2>2, PendingPush DEF PlacementInv
  <1>7. QueueInv'
    BY <1>1, <1>2, QueueKeep DEF PlacementInv, Undisturbed
  <1>8. OrderInv'
    <2>1. \A a, d \in Calls :
            phase'[a] = "sent" /\ phase'[d] \in Held => ticket[d] < ticket[a]
      BY <1>1, <1>2 DEF PlacementInv, OrderInv, Held
    <2>2. \A a, d \in Calls :
            phase'[a] = "pending" /\ phase'[d] \in Held \ {"pending"}
              => ticket[d] < ticket[a]
      BY <1>1, <1>2 DEF PlacementInv, OrderInv, Held
    <2>3. \A a, d \in Ops :
            phase'[a] = "queued" /\ phase'[d] \in InFlight /\ keyOf[a] = keyOf[d]
              => ticket[d] < ticket[a]
      BY <1>1, <1>2 DEF PlacementInv, OrderInv, InFlight, Calls
    <2> QED
      BY <2>1, <2>2, <2>3 DEF OrderInv
  <1>9. ActiveInv'
    BY <1>1, <1>2, ActiveKeep DEF PlacementInv, InFlight, Calls
  <1> QED
    BY <1>3, <1>5, <1>6, <1>7, <1>8, <1>9 DEF PlacementInv

(* An operation older than all that is sent or pending enters its key's    *)
(* queue.                                                                  *)
LEMMA EnqueuePlacement ==
  ASSUME TypeInv, TypeInv', PlacementInv, NEW c \in Ops,
         Enqueue(c), ChannelInv', PendingInv',
         phase[c] \in {"sent", "pending"},
         \A d \in Calls : phase[d] = "sent" /\ d # c => ticket[c] < ticket[d],
         \A d \in Calls : phase[d] = "pending" /\ d # c => ticket[c] < ticket[d],
         UNCHANGED <<keyOf, ticket, active, panicked>>,
         panicked => coordPc' \in {"unwind", "faildrain", "done"}
  PROVE  PlacementInv'
  <1>0. c \in Calls /\ Ops \subseteq Calls
    BY DEF Calls
  <1>1. phase'[c] = "queued" /\ \A d \in Calls : d # c => phase'[d] = phase[d]
    BY <1>0 DEF Enqueue, TypeInv, TypeOK
  <1>2. TicketInv'
    BY <1>1, TicketKeep DEF PlacementInv, Held
  <1>3. QueueInv'
    <2>1. Undisturbed({"queued"}, {c})
      BY <1>1 DEF Undisturbed
    <2>2. \A d \in Ops : phase[d] = "queued" => ticket[d] < ticket[c]
      BY <1>0 DEF PlacementInv, OrderInv, Held
    <2> QED
      BY <1>1, <2>1, <2>2, QueuePush DEF PlacementInv, Enqueue
  <1>4. OrderInv'
    <2>1. \A a, d \in Calls :
            phase'[a] = "sent" /\ phase'[d] \in Held => ticket[d] < ticket[a]
      BY <1>0, <1>1 DEF PlacementInv, OrderInv, Held
    <2>2. \A a, d \in Calls :
            phase'[a] = "pending" /\ phase'[d] \in Held \ {"pending"}
              => ticket[d] < ticket[a]
      BY <1>0, <1>1 DEF PlacementInv, OrderInv, Held
    <2>3. \A a, d \in Ops :
            phase'[a] = "queued" /\ phase'[d] \in InFlight /\ keyOf[a] = keyOf[d]
              => ticket[d] < ticket[a]
      BY <1>0, <1>1 DEF PlacementInv, OrderInv, Held, InFlight
    <2> QED
      BY <2>1, <2>2, <2>3 DEF OrderInv
  <1>5. ActiveInv'
    BY <1>0, <1>1, ActiveKeep DEF PlacementInv, InFlight
  <1> QED
    BY <1>2, <1>3, <1>4, <1>5 DEF PlacementInv

(* The first step of each event handler of run_scheduler.                  *)
LEMMA ReceivePlacement ==
  ASSUME TypeInv, TypeInv', PlacementInv,
         \/ RecvSubmission \/ RecvCompletion \/ RecvBarrier
         \/ RecvMaintenanceCompletion \/ RecvClose
  PROVE  PlacementInv'
  <1> DEFINE c == Head(channel).call
  <1>0. /\ coordPc = "recv" /\ channel # <<>> /\ channel' = Tail(channel)
        /\ UNCHANGED <<keyOf, ticket, panicked>>
    BY DEF RecvSubmission, RecvCompletion, RecvBarrier,
           RecvMaintenanceCompletion, RecvClose, Receive
  <1>p. ~panicked
    BY <1>0 DEF PlacementInv, ActiveInv
  <1>1. CASE RecvSubmission
    <2>1. Head(channel).kind = "submit" /\ c \in Ops /\ UNCHANGED active
      BY <1>1 DEF RecvSubmission, Receive
    <2>2. CASE ~Accepting
      <3>1. phase' = [phase EXCEPT ![c] = "done"] /\ UNCHANGED <<queues, pending>>
        BY <1>1, <2>2 DEF RecvSubmission, Reject
      <3> QED
        BY <1>0, <1>p, <2>1, <3>1, TakePlacement
    <2>3. CASE Accepting /\ MustDefer
      <3>1. /\ phase' = [phase EXCEPT ![c] = "pending"]
            /\ pending' = Append(pending, c) /\ UNCHANGED queues
        BY <1>1, <2>3 DEF RecvSubmission, Defer
      <3> QED
        BY <1>0, <1>p, <2>1, <3>1, DeferPlacement
    <2>4. CASE Accepting /\ ~MustDefer
      <3>1. Enqueue(c) /\ UNCHANGED pending /\ pending = <<>>
        BY <1>1, <2>4 DEF RecvSubmission, MustDefer
      <3>2. /\ c \in Calls /\ phase[c] = "sent"
            /\ \A d \in Calls : phase[d] = "sent" /\ d # c => ticket[c] < ticket[d]
        BY <1>0, <2>1, ChannelFront
      <3>3. phase'[c] = "queued" /\ \A d \in Calls : d # c => phase'[d] = phase[d]
        BY <3>1, <3>2 DEF Enqueue, TypeInv, TypeOK
      <3>4. ChannelInv'
        <4>1. Undisturbed({"sent", "completing"}, {c})
          BY <1>0, <3>3 DEF Undisturbed
        <4> QED
          BY <1>0, <3>3, <4>1, ChannelPop DEF PlacementInv
      <3> HIDE DEF c
      <3>5. PendingInv'
        BY <1>0, <3>1, <3>2, <3>3, PendingKeep DEF PlacementInv, Undisturbed
      <3>6. \A d \in Calls : phase[d] # "pending"
        BY <3>1 DEF PlacementInv, PendingInv
      <3> QED
        BY <1>0, <1>p, <2>1, <3>1, <3>2, <3>4, <3>5, <3>6, EnqueuePlacement
    <2> QED
      BY <2>2, <2>3, <2>4
  <1>2. CASE RecvCompletion
    <2>1. /\ Head(channel).kind = "complete" /\ c \in Ops
          /\ active' = active \ {keyOf[c]}
          /\ phase' = [phase EXCEPT ![c] = "settling"]
          /\ UNCHANGED <<queues, pending>>
      BY <1>2 DEF RecvCompletion, Receive
    <2> QED
      BY <1>0, <1>p, <2>1, TakePlacement
  <1>3. CASE RecvBarrier
    <2>1. Head(channel).kind = "submit" /\ UNCHANGED <<queues, active>>
      BY <1>3 DEF RecvBarrier, Receive
    <2>2. CASE ~Accepting
      <3>1. phase' = [phase EXCEPT ![c] = "done"] /\ UNCHANGED pending
        BY <1>3, <2>2 DEF RecvBarrier, Reject
      <3> QED
        BY <1>0, <1>p, <2>1, <3>1, TakePlacement
    <2>3. CASE Accepting
      <3>1. /\ phase' = [phase EXCEPT ![c] = "pending"]
            /\ pending' = Append(pending, c)
        BY <1>3, <2>3 DEF RecvBarrier, Defer
      <3> QED
        BY <1>0, <1>p, <2>1, <3>1, DeferPlacement
    <2> QED
      BY <2>2, <2>3
  <1>4. CASE RecvMaintenanceCompletion
    <2>1. /\ phase' = [phase EXCEPT ![c] = "done"]
          /\ UNCHANGED <<queues, active, pending>>
      BY <1>4 DEF RecvMaintenanceCompletion
    <2> QED
      BY <1>0, <1>p, <2>1, TakePlacement
  <1>5. CASE RecvClose
    <2>1. Head(channel).kind = "submit" /\ UNCHANGED <<queues, active>>
      BY <1>5 DEF RecvClose, Receive
    <2>2. CASE CloseAnswer(lifecycle) # "none"
      <3>1. phase' = [phase EXCEPT ![c] = "done"] /\ UNCHANGED pending
        BY <1>5, <2>2 DEF RecvClose
      <3> QED
        BY <1>0, <1>p, <2>1, <3>1, TakePlacement
    <2>3. CASE CloseAnswer(lifecycle) = "none"
      <3>1. /\ phase' = [phase EXCEPT ![c] = "pending"]
            /\ pending' = Append(pending, c)
        BY <1>5, <2>3 DEF RecvClose
      <3> QED
        BY <1>0, <1>p, <2>1, <3>1, DeferPlacement
    <2> QED
      BY <2>2, <2>3
  <1> QED
    BY <1>1, <1>2, <1>3, <1>4, <1>5

-----------------------------------------------------------------------------
(* The first deferred call is answered: a flush, or a close at the         *)
(* shutdown.                                                               *)
LEMMA RetirePlacement ==
  ASSUME TypeInv, TypeInv', PlacementInv, pending # <<>>,
         pending' = Tail(pending),
         phase' = [phase EXCEPT ![Head(pending)] = "done"],
         UNCHANGED <<keyOf, ticket, channel, queues, active, panicked>>,
         panicked => coordPc' \in {"unwind", "faildrain", "done"}
  PROVE  PlacementInv'
  <1> DEFINE c == Head(pending)
  <1>1. c \in Calls /\ phase[c] = "pending"
    BY PendingFront
  <1>2. phase'[c] = "done" /\ \A d \in Calls : d # c => phase'[d] = phase[d]
    BY <1>1 DEF TypeInv, TypeOK
  <1>3. PendingInv'
    <2>1. Undisturbed({"pending"}, {c})
      BY <1>2 DEF Undisturbed
    <2> QED
      BY <1>2, <2>1, PendingPop DEF PlacementInv
  <1> HIDE DEF c
  <1>4. TicketInv'
    BY <1>1, <1>2, TicketKeep DEF PlacementInv, Held
  <1>5. ChannelInv'
    BY <1>1, <1>2, ChannelKeep DEF PlacementInv, Undisturbed
  <1>6. QueueInv'
    BY <1>1, <1>2, QueueKeep DEF PlacementInv, Undisturbed
  <1>7. OrderInv'
    BY <1>1, <1>2, OrderKeep DEF PlacementInv, Held, InFlight
  <1>8. ActiveInv'
    BY <1>1, <1>2, ActiveKeep DEF PlacementInv, InFlight, Calls
  <1> QED
    BY <1>3, <1>4, <1>5, <1>6, <1>7, <1>8 DEF PlacementInv

(* advance_pending_if_ready moves the oldest deferred call on.             *)
LEMMA AdvancePlacement ==
  ASSUME TypeInv, TypeInv', PlacementInv, coordPc = "advance",
         AdvanceSubmission \/ AdvanceMaintenance \/ AdvanceFlush \/ AdvanceStop
  PROVE  PlacementInv'
  <1> DEFINE c == Head(pending)
  <1>p. ~panicked
    BY DEF PlacementInv, ActiveInv
  <1>1. CASE AdvanceSubmission
    <2>1. /\ pending # <<>> /\ c \in Ops /\ pending' = Tail(pending) /\ Enqueue(c)
          /\ UNCHANGED <<keyOf, ticket, channel, active, panicked>>
      BY <1>1 DEF AdvanceSubmission, FrontIn
    <2>2. /\ c \in Calls /\ phase[c] = "pending"
          /\ \A d \in Calls : phase[d] = "pending" /\ d # c => ticket[c] < ticket[d]
      BY <2>1, PendingFront
    <2>3. phase'[c] = "queued" /\ \A d \in Calls : d # c => phase'[d] = phase[d]
      BY <2>1, <2>2 DEF Enqueue, TypeInv, TypeOK
    <2>4. PendingInv'
      <3>1. Undisturbed({"pending"}, {c})
        BY <2>1, <2>3 DEF Undisturbed
      <3> QED
        BY <2>1, <2>3, <3>1, PendingPop DEF PlacementInv
    <2> HIDE DEF c
    <2>5. ChannelInv'
      BY <2>1, <2>2, <2>3, ChannelKeep DEF PlacementInv, Undisturbed
    <2>6. \A d \in Calls : phase[d] = "sent" /\ d # c => ticket[c] < ticket[d]
      BY <2>2 DEF PlacementInv, OrderInv, Held
    <2> QED
      BY <1>p, <2>1, <2>2, <2>4, <2>5, <2>6, EnqueuePlacement
  <1>2. CASE AdvanceMaintenance
    <2>1. PICK ok \in PrepareOutcomes(1) :
            /\ phase' = [phase EXCEPT ![c] = IF ok THEN "dispatched" ELSE "completing"]
            /\ channel' = FallbackCompletion(c, ok)
      BY <1>2 DEF AdvanceMaintenance
    <2>2. /\ pending # <<>> /\ c \in Maintenances /\ pending' = Tail(pending)
          /\ UNCHANGED <<keyOf, ticket, queues, active, panicked>>
      BY <1>2 DEF AdvanceMaintenance, FrontIn
    <2>3. /\ c \in Calls /\ phase[c] = "pending"
          /\ \A d \in Calls : phase[d] = "pending" /\ d # c => ticket[c] < ticket[d]
      BY <2>2, PendingFront
    <2>4. /\ phase'[c] \in {"dispatched", "completing"}
          /\ \A d \in Calls : d # c => phase'[d] = phase[d]
      BY <2>1, <2>3 DEF TypeInv, TypeOK
    <2>5. PendingInv'
      <3>1. Undisturbed({"pending"}, {c})
        BY <2>2, <2>4 DEF Undisturbed
      <3> QED
        BY <2>2, <2>4, <3>1, PendingPop DEF PlacementInv
    <2> HIDE DEF c
    <2>6. ChannelInv'
      <3>1. CASE ok
        <4>1. channel' = channel /\ phase'[c] = "dispatched"
          BY <2>1, <2>3, <3>1 DEF FallbackCompletion, TypeInv, TypeOK
        <4> QED
          BY <2>2, <2>3, <2>4, <4>1, ChannelKeep DEF PlacementInv, Undisturbed
      <3>2. CASE ~ok
        <4> DEFINE e == [kind |-> "complete", call |-> c]
        <4>1. channel' = Append(channel, e) /\ phase'[c] = "completing"
          BY <2>1, <2>3, <3>2 DEF FallbackCompletion, TypeInv, TypeOK
        <4>2. e \in Events /\ e.call = c /\ e.kind = "complete"
          BY <2>3 DEF Events
        <4> HIDE DEF e
        <4>3. Undisturbed({"sent", "completing"}, {e.call})
          BY <2>2, <2>4, <4>2 DEF Undisturbed
        <4> QED
          BY <2>3, <4>1, <4>2, <4>3, ChannelPush DEF PlacementInv
      <3> QED
        BY <3>1, <3>2
    <2>7. TicketInv'
      BY <2>2, <2>3, <2>4, TicketKeep DEF PlacementInv, Held
    <2>8. QueueInv'
      BY <2>2, <2>3, <2>4, QueueKeep DEF PlacementInv, Undisturbed
    <2>9. c \notin Ops
      BY <2>2, CallsAssumption
    <2>10. OrderInv'
      <3>1. \A a, d \in Calls :
              phase'[a] = "sent" /\ phase'[d] \in Held => ticket[d] < ticket[a]
        BY <2>3, <2>4 DEF PlacementInv, OrderInv, Held
      <3>2. \A a, d \in Calls :
              phase'[a] = "pending" /\ phase'[d] \in Held \ {"pending"}
                => ticket[d] < ticket[a]
        BY <2>3, <2>4 DEF PlacementInv, OrderInv, Held
      <3>3. \A a, d \in Ops :
              phase'[a] = "queued" /\ phase'[d] \in InFlight /\ keyOf[a] = keyOf[d]
                => ticket[d] < ticket[a]
        BY <2>4, <2>9 DEF PlacementInv, OrderInv, Calls
      <3> QED
        BY <2>2, <3>1, <3>2, <3>3 DEF OrderInv
    <2>11. ActiveInv'
      <3>1. \A d \in Ops : phase'[d] = phase[d]
        BY <2>4, <2>9 DEF Calls
      <3> QED
        BY <1>p, <2>2, <3>1, ActiveKeep DEF PlacementInv
    <2> QED
      BY <2>5, <2>6, <2>7, <2>8, <2>10, <2>11 DEF PlacementInv
  <1>3. CASE AdvanceFlush
    <2>1. /\ pending # <<>> /\ pending' = Tail(pending)
          /\ phase' = [phase EXCEPT ![c] = "done"]
          /\ UNCHANGED <<keyOf, ticket, channel, queues, active, panicked>>
      BY <1>3 DEF AdvanceFlush, FrontIn
    <2> QED
      BY <1>p, <2>1, RetirePlacement
  <1>4. CASE AdvanceStop
    <2>1. UNCHANGED <<keyOf, phase, ticket, channel, queues, pending, active, panicked>>
      BY <1>4 DEF AdvanceStop
    <2> QED
      BY <1>p, <2>1, StillPlacement
  <1> QED
    BY <1>1, <1>2, <1>3, <1>4

(* One try_recv of a draining loop.                                        *)
LEMMA DrainPlacement ==
  ASSUME TypeInv, TypeInv', PlacementInv, NEW r, DrainOne(r)
  PROVE  PlacementInv'
  <1>1. /\ channel # <<>> /\ channel' = Tail(channel)
        /\ phase' = [phase EXCEPT ![Head(channel).call] = "done"]
        /\ UNCHANGED <<keyOf, ticket, queues, pending, active, panicked, coordPc>>
    BY DEF DrainOne
  <1>2. panicked => coordPc' \in {"unwind", "faildrain", "done"}
    BY <1>1 DEF PlacementInv, ActiveInv
  <1> QED
    BY <1>1, <1>2, TakePlacement

(* A panic drops what is pending and queued, and the event at hand.        *)
LEMMA UnwindPlacement ==
  ASSUME TypeInv, TypeInv', PlacementInv, NEW lost, Unwind(lost),
         \/ channel' = channel /\ lost = {}
         \/ channel' = channel /\ pending # <<>> /\ lost = {Head(pending)}
         \/ channel # <<>> /\ channel' = Tail(channel) /\ lost = {Head(channel).call}
  PROVE  PlacementInv'
  <1> DEFINE gone == lost \cup {d \in Calls : phase[d] \in {"pending", "queued"}}
  <1>1. /\ \A d \in Calls : phase'[d] = IF d \in gone THEN "done" ELSE phase[d]
        /\ UNCHANGED <<keyOf, ticket>>
        /\ pending' = <<>> /\ panicked' = TRUE /\ coordPc' = "unwind"
        /\ \A k \in Keys : queues'[k] = <<>>
    BY DEF Unwind
  <1>2. \A d \in Calls : phase'[d] \in {phase[d], "done"} /\ phase'[d] \notin {"pending", "queued"}
    BY <1>1
  <1>3. TicketInv'
    BY <1>1, <1>2, TicketKeep DEF PlacementInv, Held
  <1>4. ChannelInv'
    <2>1. CASE channel' = channel /\ lost = {}
      BY <1>1, <2>1, ChannelKeep DEF PlacementInv, Undisturbed
    <2>2. CASE channel' = channel /\ pending # <<>> /\ lost = {Head(pending)}
      <3>1. phase[Head(pending)] = "pending"
        BY <2>2, PendingFront
      <3>2. Undisturbed({"sent", "completing"}, {})
        BY <1>1, <2>2, <3>1 DEF Undisturbed
      <3> QED
        BY <2>2, <3>2, ChannelKeep DEF PlacementInv
    <2>3. CASE channel # <<>> /\ channel' = Tail(channel) /\ lost = {Head(channel).call}
      <3>1. Head(channel).call \in Calls
        BY <2>3, ChannelFront
      <3>2. phase'[Head(channel).call] = "done"
        BY <1>1, <2>3, <3>1
      <3>3. Undisturbed({"sent", "completing"}, {Head(channel).call})
        BY <1>1, <2>3 DEF Undisturbed
      <3> QED
        BY <2>3, <3>2, <3>3, ChannelPop DEF PlacementInv
    <2> QED
      BY <2>1, <2>2, <2>3
  <1>5. PendingInv'
    BY <1>1, <1>2 DEF PendingInv
  <1>6. QueueInv'
    BY <1>1, <1>2 DEF QueueInv
  <1>7. OrderInv'
    BY <1>1, <1>2, OrderKeep DEF PlacementInv, Held
  <1>8. ActiveInv'
    <2>1. \A d \in Ops : phase'[d] \in InFlight => phase[d] \in InFlight
      BY <1>2 DEF InFlight, Calls
    <2> QED
      BY <1>1, <2>1 DEF PlacementInv, ActiveInv
  <1> QED
    BY <1>3, <1>4, <1>5, <1>6, <1>7, <1>8 DEF PlacementInv

-----------------------------------------------------------------------------
(* In a store just opened no call is anywhere.                             *)
LEMMA InitPlacement == Init => PlacementInv
  <1> SUFFICES ASSUME Init PROVE PlacementInv
    OBVIOUS
  <1>1. {d \in Calls : ticket[d] # 0} = {}
    BY DEF Init
  <1>2. TicketInv
    <2>1. Cardinality({d \in Calls : ticket[d] # 0}) = 0
      BY <1>1, FS_EmptySet
    <2>2. \A c \in Calls : ticket[c] = 0 /\ phase[c] = "idle"
      BY DEF Init
    <2> QED
      BY <2>1, <2>2 DEF TicketInv, Held
  <1>3. ChannelInv
    BY DEF Init, ChannelInv
  <1>4. PendingInv
    BY DEF Init, PendingInv
  <1>5. QueueInv
    BY DEF Init, QueueInv
  <1>6. OrderInv
    BY DEF Init, OrderInv, Held, InFlight, Calls
  <1>7. ActiveInv
    BY DEF Init, ActiveInv, InFlight, Calls
  <1> QED
    BY <1>2, <1>3, <1>4, <1>5, <1>6, <1>7 DEF PlacementInv

(* Every step of the coordinator.                                          *)
LEMMA CoordinatorPlacement ==
  ASSUME TypeInv, TypeInv', PlacementInv, Coordinator
  PROVE  PlacementInv'
  <1>1. CASE \/ RecvSubmission \/ RecvCompletion \/ RecvBarrier
             \/ RecvMaintenanceCompletion \/ RecvClose
    BY <1>1, ReceivePlacement
  <1>2. CASE DispatchIfIdle
    <2>1. /\ coordPc \in {"dispatch", "redispatch"}
          /\ UNCHANGED <<channel, keyOf, ticket, pending, panicked>>
      BY <1>2 DEF DispatchIfIdle
    <2>2. keyOf[hand] \in Keys
      BY <2>1 DEF TypeInv, TypeOK, HandHeld
    <2>3. CASE Dispatchable(keyOf[hand])
      <3>1. Dispatch(keyOf[hand])
        BY <1>2, <2>3 DEF DispatchIfIdle
      <3> QED
        BY <2>1, <2>2, <2>3, <3>1, DispatchPlacement
    <2>4. CASE ~Dispatchable(keyOf[hand])
      <3>1. UNCHANGED <<queues, active, phase>>
        BY <1>2, <2>4 DEF DispatchIfIdle
      <3>2. ~panicked
        BY <2>1 DEF PlacementInv, ActiveInv
      <3> QED
        BY <2>1, <3>1, <3>2, StillPlacement
    <2> QED
      BY <2>3, <2>4
  <1>3. CASE DispatchAvailable
    <2>1. /\ coordPc = "available"
          /\ UNCHANGED <<channel, keyOf, ticket, pending, panicked>>
      BY <1>3 DEF DispatchAvailable
    <2>2. PICK k \in entries : Dispatchable(k) /\ Dispatch(k)
      BY <1>3 DEF DispatchAvailable
    <2>3. k \in Keys
      BY DEF TypeInv, TypeOK
    <2> QED
      BY <2>1, <2>2, <2>3, DispatchPlacement
  <1>4. CASE Settle
    <2>1. /\ coordPc = "available"
          /\ UNCHANGED <<channel, keyOf, ticket, queues, active, pending, panicked>>
      BY <1>4 DEF Settle
    <2>2. hand \in Calls
      BY <2>1 DEF TypeInv, HandHeld, Calls
    <2>3. ~panicked
      BY <2>1 DEF PlacementInv, ActiveInv
    <2>4. CASE phase[hand] = "settling"
      <3>1. phase' = [phase EXCEPT ![hand] = "done"]
        BY <1>4, <2>4 DEF Settle
      <3> QED
        BY <2>1, <2>2, <2>3, <2>4, <3>1, MovePlacement
    <2>5. CASE phase[hand] # "settling"
      <3>1. UNCHANGED phase
        BY <1>4, <2>5 DEF Settle
      <3> QED
        BY <2>1, <2>3, <3>1, StillPlacement
    <2> QED
      BY <2>4, <2>5
  <1>5. CASE AdvanceSubmission \/ AdvanceMaintenance \/ AdvanceFlush \/ AdvanceStop
    <2>1. coordPc = "advance"
      BY <1>5 DEF AdvanceSubmission, AdvanceMaintenance, AdvanceFlush, AdvanceStop
    <2> QED
      BY <1>5, <2>1, AdvancePlacement
  <1>6. CASE CloseNotReady \/ Shutdown \/ CoordinatorExit \/ CoordinatorDisconnected
             \/ UnwindJoin
    <2>1. UNCHANGED <<keyOf, phase, ticket, channel, queues, pending, active, panicked>>
      BY <1>6 DEF CloseNotReady, Shutdown, CoordinatorExit,
                  CoordinatorDisconnected, UnwindJoin
    <2>2. panicked => coordPc' \in {"unwind", "faildrain", "done"}
      BY <1>6 DEF CloseNotReady, Shutdown, CoordinatorExit,
                  CoordinatorDisconnected, UnwindJoin, PlacementInv, ActiveInv
    <2> QED
      BY <2>1, <2>2, StillPlacement
  <1>7. CASE NotifyClose
    <2>1. /\ coordPc = "notify"
          /\ UNCHANGED <<keyOf, ticket, channel, queues, active, panicked>>
      BY <1>7 DEF NotifyClose
    <2>2. ~panicked
      BY <2>1 DEF PlacementInv, ActiveInv
    <2>3. CASE FrontIn(Closes)
      <3>1. /\ pending # <<>> /\ pending' = Tail(pending)
            /\ phase' = [phase EXCEPT ![Head(pending)] = "done"]
        BY <1>7, <2>3 DEF NotifyClose, FrontIn
      <3> QED
        BY <2>1, <2>2, <3>1, RetirePlacement
    <2>4. CASE ~FrontIn(Closes)
      <3>1. UNCHANGED <<phase, pending>>
        BY <1>7, <2>4 DEF NotifyClose
      <3> QED
        BY <2>1, <2>2, <3>1, StillPlacement
    <2> QED
      BY <2>3, <2>4
  <1>8. CASE Drain
    BY <1>8, DrainPlacement DEF Drain
  <1>9. CASE FailDrain
    <2>1. CASE channel # <<>>
      BY <1>9, <2>1, DrainPlacement DEF FailDrain
    <2>2. CASE channel = <<>>
      <3>1. /\ UNCHANGED <<keyOf, phase, ticket, channel, queues, pending, active, panicked>>
            /\ coordPc' = "done"
        BY <1>9, <2>2 DEF FailDrain
      <3> QED
        BY <3>1, StillPlacement
    <2> QED
      BY <2>1, <2>2
  <1>10. CASE PanicOnEvent
    BY <1>10, UnwindPlacement DEF PanicOnEvent
  <1>11. CASE PanicOnFlush
    BY <1>11, UnwindPlacement DEF PanicOnFlush, FrontIn
  <1>12. CASE PanicOnStopping
    BY <1>12, UnwindPlacement DEF PanicOnStopping
  <1> QED
    BY <1>1, <1>2, <1>3, <1>4, <1>5, <1>6, <1>7, <1>8, <1>9, <1>10, <1>11,
       <1>12 DEF Coordinator

(* Every step of callers, workers and coordinator.                         *)
LEMMA NextPlacement ==
  ASSUME TypeInv, PlacementInv, [Next]_vars
  PROVE  PlacementInv'
  <1>0. TypeInv'
    BY NextTypeInv
  <1>1. CASE Coordinator
    BY <1>0, <1>1, CoordinatorPlacement
  <1>2. ASSUME NEW c \in Ops \cup Maintenances, Worker(c) PROVE PlacementInv'
    <2>1. CASE WorkerTake(c)
      <3>1. /\ c \in Calls /\ phase[c] = "dispatched"
            /\ phase' = [phase EXCEPT ![c] = "running"]
            /\ UNCHANGED <<keyOf, ticket, channel, queues, pending, active, panicked, coordPc>>
        BY <2>1 DEF WorkerTake, Calls
      <3>2. panicked => coordPc' \in {"unwind", "faildrain", "done"}
        BY <3>1 DEF PlacementInv, ActiveInv
      <3> QED
        BY <1>0, <3>1, <3>2, MovePlacement
    <2>2. ASSUME NEW ok \in BOOLEAN, WorkerFinish(c, ok) PROVE PlacementInv'
      BY <1>0, <2>2, FinishPlacement
    <2> QED
      BY <1>2, <2>1, <2>2 DEF Worker
  <1>3. ASSUME NEW c \in Calls, Caller(c) PROVE PlacementInv'
    <2>1. CASE EnsureOpen(c)
      <3>1. PICK p \in {"admitting", "done"} : phase' = [phase EXCEPT ![c] = p]
        BY <2>1 DEF EnsureOpen
      <3>2. /\ phase[c] = "idle"
            /\ UNCHANGED <<keyOf, ticket, channel, queues, pending, active, panicked, coordPc>>
        BY <2>1 DEF EnsureOpen
      <3>3. panicked => coordPc' \in {"unwind", "faildrain", "done"}
        BY <3>2 DEF PlacementInv, ActiveInv
      <3> QED
        BY <1>0, <3>1, <3>2, <3>3, MovePlacement
    <2>2. CASE Submit(c)
      BY <1>0, <2>2, SubmitPlacement
    <2> QED
      BY <1>3, <2>1, <2>2 DEF Caller
  <1>4. ASSUME NEW c \in Closes, Closer(c) PROVE PlacementInv'
    <2>1. PICK p \in {"joining", "returned"} : phase' = [phase EXCEPT ![c] = p]
      BY <1>4 DEF Closer, CloseWait, CloseJoin
    <2>2. /\ c \in Calls /\ phase[c] \in {"done", "joining"}
          /\ UNCHANGED <<keyOf, ticket, channel, queues, pending, active, panicked, coordPc>>
      BY <1>4 DEF Closer, CloseWait, CloseJoin, Calls
    <2>3. panicked => coordPc' \in {"unwind", "faildrain", "done"}
      BY <2>2 DEF PlacementInv, ActiveInv
    <2> QED
      BY <1>0, <2>1, <2>2, <2>3, MovePlacement
  <1>5. CASE DropHandles \/ UNCHANGED vars
    <2>1. UNCHANGED <<keyOf, phase, ticket, channel, queues, pending, active, panicked, coordPc>>
      BY <1>5 DEF DropHandles, vars
    <2>2. panicked => coordPc' \in {"unwind", "faildrain", "done"}
      BY <2>1 DEF PlacementInv, ActiveInv
    <2> QED
      BY <1>0, <2>1, <2>2, StillPlacement
  <1> QED
    BY <1>1, <1>2, <1>3, <1>4, <1>5 DEF Next, Terminated

(* Every call is where its phase says and calls stand in submission order  *)
(* in the channel, the pending FIFO, the per-key queues and on the         *)
(* workers: run_scheduler neither loses, duplicates nor reorders an event, *)
(* whatever fails, for any number of keys, calls and workers.              *)
THEOREM PlacementCorrect == Spec => []PlacementInv
  <1>1. Init => TypeInv /\ PlacementInv
    BY InitTypeInv, InitPlacement
  <1>2. TypeInv /\ PlacementInv /\ [Next]_vars => (TypeInv /\ PlacementInv)'
    BY NextTypeInv, NextPlacement
  <1> QED
    BY <1>1, <1>2, PTL DEF Spec

(* What PlacementInv says about operations of one key.                     *)
LEMMA PlacementOrders == TypeInv /\ PlacementInv => SameKeyOrder
  <1> SUFFICES ASSUME TypeInv, PlacementInv, NEW c \in Ops, NEW d \in Ops,
                      Earlier(c, d), keyOf[c] = keyOf[d], phase[d] \in InFlight
               PROVE  phase[c] \in {"settling", "done"}
    BY DEF SameKeyOrder
  <1>1. /\ c \in Calls /\ d \in Calls /\ c \notin Closes
        /\ ticket[c] \in Nat /\ ticket[d] \in Nat
        /\ ticket[c] # 0 /\ ticket[c] < ticket[d]
    BY CallsAssumption DEF Calls, Earlier, Sent, TypeInv, TypeOK
  <1>2. phase[c] \notin {"idle", "admitting", "joining", "returned"}
    BY <1>1 DEF PlacementInv, TicketInv
  <1>3. phase[c] \notin {"sent", "pending", "queued"}
    BY <1>1 DEF PlacementInv, OrderInv, Held, InFlight
  <1>4. phase[c] \notin InFlight
    BY <1>1 DEF PlacementInv, ActiveInv
  <1>5. phase[c] \in Phases
    BY <1>1 DEF TypeInv, TypeOK
  <1> QED
    BY <1>2, <1>3, <1>4, <1>5 DEF Phases, InFlight

(* Two operations on one key never overlap on the workers and start in the *)
(* order in which submit sent them, across deferral behind a barrier,      *)
(* dispatch from a completion, failed thread creation and panics, for any  *)
(* number of keys, calls and workers.                                      *)
THEOREM SameKeyOrderCorrect == Spec => []SameKeyOrder
  <1>1. Init => TypeInv /\ PlacementInv
    BY InitTypeInv, InitPlacement
  <1>2. TypeInv /\ PlacementInv /\ [Next]_vars => (TypeInv /\ PlacementInv)'
    BY NextTypeInv, NextPlacement
  <1> QED
    BY <1>1, <1>2, PlacementOrders, PTL DEF Spec
=============================================================================
