------------------------ MODULE EngineControlProofs -------------------------
(***************************************************************************)
(* Proof of what the engine promises about barriers, shutdown and answers, *)
(* and that it implements StoreContract.                                   *)
(*                                                                         *)
(* ControlInv and WorkInv are inductive together with TypeInv and          *)
(* PlacementInv.  Each kind of step has a lemma that first says what the   *)
(* step does to the phase and the answer of the one call it is about, and  *)
(* then goes through the parts of ControlInv; WorkInv, which is about the  *)
(* slots and the registry, follows after it.                               *)
(*                                                                         *)
(* For the contract, the first lemmas read the refinement mapping call by  *)
(* call; then there is a lemma for each way a step of the engine shows in  *)
(* the contract: as nothing, as an answer, as a start, or as a change of   *)
(* the gate.  Why it is a call's turn when the coordinator takes it from   *)
(* its queue, or from the front of pending, is what EngineInv is for.      *)
(***************************************************************************)
EXTENDS EngineOrderProofs, EngineRefinement

(* The variable tuples of UNCHANGED are always read as their members.      *)
USE DEF callerVars, schedVars

(* Call c goes to phase q and its reply channel to r; no other call moves. *)
Moved(c, q, r) ==
  /\ phase'[c] = q /\ reply'[c] = r
  /\ \A d \in Calls : d # c => phase'[d] = phase[d] /\ reply'[d] = reply[d]

(* No call moves.                                                          *)
NoneMoved == \A d \in Calls : phase'[d] = phase[d] /\ reply'[d] = reply[d]

(* What no step may do to a call: change its ticket or its answer, or move *)
(* it once it is done; and where the answers "Ran" and "Ok" come from.     *)
Life ==
  \A c \in Calls :
    /\ ticket'[c] # ticket[c] =>
         ticket[c] = 0 /\ reply[c] = "none" /\ \A d \in Calls : ticket[d] < ticket'[c]
    /\ reply[c] # "none" => reply'[c] = reply[c]
    /\ phase[c] = "done" /\ c \notin Closes => phase'[c] = "done"
    /\ reply'[c] = "Ran" /\ reply[c] # "Ran" =>
         phase[c] = "settling" \/ (c \in Maintenances /\ phase[c] = "completing")
    /\ reply'[c] = "Ok" /\ reply[c] # "Ok" /\ c \in Flushes =>
         AdvanceFlush /\ c = Head(pending)

(* The four kinds of calls are disjoint.                                   *)
LEMMA CallKinds ==
  /\ Ops \subseteq Calls /\ Maintenances \subseteq Calls
  /\ Flushes \subseteq Calls /\ Closes \subseteq Calls
  /\ \A c \in Closes : c \notin Ops \cup Maintenances \cup Flushes
  /\ \A c \in Flushes : c \notin Ops \cup Maintenances
  /\ \A c \in Maintenances : c \notin Ops
  /\ NoCall \notin Ops
  BY CallsAssumption DEF Calls

(* What the proofs below need of the types.                                *)
LEMMA CallTypes ==
  ASSUME TypeInv
  PROVE  \A c \in Calls : ticket[c] \in Nat /\ phase[c] \in Phases
  BY DEF TypeInv, TypeOK

(* A step that moves one call, answering it at most once.                  *)
LEMMA LifeMoved ==
  ASSUME ControlInv, NEW c \in Calls, NEW q, NEW r, Moved(c, q, r), ticket' = ticket,
         \/ phase[c] \in {"idle", "admitting", "sent", "pending", "queued",
                          "dispatched", "running"}
         \/ reply[c] = "none"
         \/ r = reply[c],
         phase[c] # "done" \/ c \in Closes,
         r = "Ran" => \/ r = reply[c]
                      \/ phase[c] = "settling"
                      \/ c \in Maintenances /\ phase[c] = "completing",
         r = "Ok" /\ c \in Flushes => r = reply[c] \/ (AdvanceFlush /\ c = Head(pending))
  PROVE  Life
  <1>1. /\ phase'[c] = q /\ reply'[c] = r
        /\ \A d \in Calls : d # c => phase'[d] = phase[d] /\ reply'[d] = reply[d]
    BY DEF Moved
  <1>2. reply[c] = "none" \/ r = reply[c]
    BY DEF ControlInv, ReplyInv
  <1> QED
    BY <1>1, <1>2 DEF Life

(* A step that moves no call.                                              *)
LEMMA LifeStill ==
  ASSUME NoneMoved, ticket' = ticket
  PROVE  Life
  BY DEF NoneMoved, Life

-----------------------------------------------------------------------------
(* EndInv survives the steps before the end.                               *)
LEMMA EndBefore ==
  ASSUME EndInv, coordPc \notin Ending, coordPc' \notin Ending,
         lifecycle' \in {lifecycle, "Closing"}
  PROVE  EndInv'
  BY DEF EndInv, Ending, Stopped

(* EndInv survives steps of callers and workers.                           *)
LEMMA EndBeside ==
  ASSUME EndInv,
         UNCHANGED <<lifecycle, coordPc, workers, active, maintenanceActive,
                     queues, panicked>>,
         coordPc = "done" => channel' = channel,
         \A c \in Calls :
           /\ phase'[c] = "pending" => phase[c] = "pending"
           /\ phase'[c] \in {"dispatched", "running"}
                => phase[c] \in {"dispatched", "running"}
           /\ phase'[c] \in InFlight => phase[c] \in InFlight
  PROVE  EndInv'
  BY DEF EndInv, Ending

(* AnswerInv survives a step that answers no close.                        *)
LEMMA AnswerKeep ==
  ASSUME AnswerInv, ~panicked' => ~panicked, UNCHANGED result,
         lifecycle' = lifecycle \/ lifecycle \notin Stopped,
         \A c \in Closes :
           /\ reply'[c] = reply[c]
           /\ phase'[c] \in {"joining", "returned"} => phase[c] \in {"joining", "returned"}
  PROVE  AnswerInv'
  BY DEF AnswerInv

(* SentLast survives a step that hands out no ticket and takes nothing     *)
(* from the channel but its oldest submission.                             *)
LEMMA SentLastKeep ==
  ASSUME SentLast, ticket' = ticket,
         \A c \in Calls : phase'[c] = "sent" => phase[c] = "sent",
         \A c, d \in Calls : phase[d] = "sent" /\ phase'[d] # "sent" /\ phase'[c] = "sent"
           => ticket[d] < ticket[c]
  PROVE  SentLast'
  BY DEF SentLast

-----------------------------------------------------------------------------
(* EnsureOpen, and a Submit that is refused: the call is admitted or       *)
(* answered on the spot.                                                   *)
LEMMA ArriveControl ==
  ASSUME TypeInv, PlacementInv, ControlInv, NEW c \in Calls,
         phase[c] \in {"idle", "admitting"},
         \/ Moved(c, "admitting", "none")
         \/ Refusal(c) # "none" /\ Moved(c, "done", Refusal(c)),
         UNCHANGED <<lifecycle, channel, keyOf, result, ticket, coordPc, hand,
                     queues, active, maintenanceActive, workers, panicked>>
  PROVE  ControlInv'
  <1>1. /\ ticket[c] = 0 /\ reply[c] = "none"
        /\ \A d \in Calls : d # c => phase'[d] = phase[d] /\ reply'[d] = reply[d]
        /\ \/ phase'[c] = "admitting" /\ reply'[c] = "none"
           \/ phase'[c] = "done" /\ reply'[c] = Refusal(c) /\ Refusal(c) # "none"
    BY DEF PlacementInv, TicketInv, ControlInv, ReplyInv, Moved
  <1>2. /\ Refusal(c) # "Ran"
        /\ c \in Closes /\ Refusal(c) # "none" =>
             lifecycle \in Stopped /\ Refusal(c) = CloseAnswer(lifecycle)
    BY DEF Refusal, CloseAnswer, OpenRefusal, Stopped, TypeInv, TypeOK, Lifecycles
  <1>3. KindInv'
    BY <1>1, CallKinds DEF ControlInv, KindInv, InFlight
  <1>4. ReplyInv'
    BY <1>1, <1>2 DEF ControlInv, ReplyInv
  <1>5. SentLast'
    BY <1>1, CallTypes DEF ControlInv, SentLast
  <1>6. SettleInv'
    BY <1>1, CallKinds DEF ControlInv, SettleInv, InFlight
  <1>7. MaintenanceInv'
    BY <1>1, <1>2, CallKinds DEF ControlInv, MaintenanceInv, InFlight, Earlier, Sent
  <1>8. CutInv'
    BY <1>1, CallTypes, CallKinds DEF ControlInv, CutInv, Earlier, Sent
  <1>9. CloseInv'
    BY <1>1, CallKinds DEF ControlInv, CloseInv, Earlier, Sent
  <1>10. EndInv'
    BY <1>1, EndBeside DEF ControlInv, InFlight
  <1>11. AnswerInv'
    BY <1>1, <1>2, CallKinds DEF ControlInv, AnswerInv
  <1> QED
    BY <1>3, <1>4, <1>5, <1>6, <1>7, <1>8, <1>9, <1>10, <1>11 DEF ControlInv

(* submit, flush, cleanup and close: the event is sent.                    *)
LEMMA SendControl ==
  ASSUME TypeInv, TypeInv', PlacementInv, ControlInv, NEW c \in Calls,
         phase[c] = "admitting", Refusal(c) = "none", Moved(c, "sent", "none"),
         \A d \in Calls : d # c => ticket'[d] = ticket[d] /\ ticket[d] < ticket'[c],
         ticket'[c] # 0,
         UNCHANGED <<lifecycle, keyOf, result, coordPc, hand, queues, active,
                     maintenanceActive, workers, panicked>>
  PROVE  ControlInv'
  <1>1. /\ ticket[c] = 0 /\ reply[c] = "none"
        /\ \A d \in Calls : d # c => phase'[d] = phase[d] /\ reply'[d] = reply[d]
        /\ phase'[c] = "sent" /\ reply'[c] = "none"
        /\ \A d \in Calls : ticket[d] \in Nat /\ ticket'[d] \in Nat
    BY DEF PlacementInv, TicketInv, ControlInv, ReplyInv, Moved, TypeInv, TypeOK
  <1>2. lifecycle \notin Stopped /\ coordPc # "done"
    BY DEF Refusal, CloseAnswer, OpenRefusal, ControlInv, EndInv, Stopped, Ending,
           TypeInv, TypeOK, Lifecycles
  <1>3. KindInv'
    BY <1>1, CallKinds DEF ControlInv, KindInv, InFlight
  <1>4. ReplyInv'
    BY <1>1 DEF ControlInv, ReplyInv
  <1>5. SentLast'
    BY <1>1, CallTypes DEF ControlInv, SentLast
  <1>6. SettleInv'
    BY <1>1, CallKinds DEF ControlInv, SettleInv, InFlight
  <1>7. MaintenanceInv'
    BY <1>1, CallKinds DEF ControlInv, MaintenanceInv, InFlight, Earlier, Sent
  <1>8. CutInv'
    BY <1>1, CallKinds DEF ControlInv, CutInv, Earlier, Sent
  <1>9. CloseInv'
    BY <1>1, <1>2, CallKinds DEF ControlInv, CloseInv, Earlier, Sent
  <1>10. EndInv'
    BY <1>1, <1>2, EndBeside DEF ControlInv, InFlight
  <1>11. AnswerInv'
    BY <1>1, CallKinds DEF ControlInv, AnswerInv
  <1> QED
    BY <1>3, <1>4, <1>5, <1>6, <1>7, <1>8, <1>9, <1>10, <1>11 DEF ControlInv

(* Pending::wait of close has its answer.                                  *)
LEMMA CloseWaitControl ==
  ASSUME TypeInv, PlacementInv, ControlInv, NEW c \in Closes, CloseWait(c)
  PROVE  ControlInv'
  <1>1. UNCHANGED <<lifecycle, channel, keyOf, reply, ticket, coordPc, hand,
                     queues, active, maintenanceActive, workers, panicked>>
    BY DEF CloseWait
  <1>2. /\ c \in Calls /\ phase[c] = "done" /\ phase'[c] = "joining"
        /\ \A d \in Calls : d # c => phase'[d] = phase[d]
    BY CallKinds DEF CloseWait, TypeInv, TypeOK
  <1>3. \A d \in Closes : ~panicked /\ phase'[d] \in {"joining", "returned"} => result'[d] = reply[d]
    <2>1. ASSUME ~panicked PROVE result'[c] = reply[c]
      <3>1. reply[c] = CloseAnswer(lifecycle) /\ reply[c] # "none"
        BY <1>2, <2>1 DEF ControlInv, ReplyInv, AnswerInv
      <3>2. reply[c] # "Dropped"
        BY <3>1 DEF CloseAnswer
      <3> QED
        BY <3>1, <3>2 DEF CloseWait, TypeInv, TypeOK
    <2>2. \A d \in Closes : d # c => result'[d] = result[d]
      BY DEF CloseWait, TypeInv, TypeOK
    <2> QED
      BY <1>2, <2>1, <2>2, CallKinds DEF ControlInv, AnswerInv
  <1>4. KindInv'
    BY <1>1, <1>2, <1>3, CallKinds DEF ControlInv, KindInv, InFlight
  <1>5. ReplyInv'
    BY <1>1, <1>2, <1>3, CallKinds DEF ControlInv, ReplyInv
  <1>6. SentLast'
    BY <1>1, <1>2, <1>3 DEF ControlInv, SentLast
  <1>7. SettleInv'
    BY <1>1, <1>2, <1>3, CallKinds DEF ControlInv, SettleInv, InFlight
  <1>8. MaintenanceInv'
    BY <1>1, <1>2, <1>3, CallKinds DEF ControlInv, MaintenanceInv, InFlight,
       Earlier, Sent
  <1>9. CutInv'
    BY <1>1, <1>2, <1>3, CallKinds DEF ControlInv, CutInv, Earlier, Sent
  <1>10. CloseInv'
    BY <1>1, <1>2, <1>3, CallKinds DEF ControlInv, CloseInv, Earlier, Sent
  <1>11. EndInv'
    BY <1>1, <1>2, <1>3, EndBeside DEF ControlInv, InFlight
  <1>12. AnswerInv'
    BY <1>1, <1>2, <1>3, CallKinds DEF ControlInv, AnswerInv
  <1> QED
    BY <1>4, <1>5, <1>6, <1>7, <1>8, <1>9, <1>10, <1>11, <1>12 DEF ControlInv

(* close has joined the coordinator.                                       *)
LEMMA CloseJoinControl ==
  ASSUME TypeInv, PlacementInv, ControlInv, NEW c \in Closes, CloseJoin(c)
  PROVE  ControlInv'
  <1>1. UNCHANGED <<lifecycle, channel, keyOf, reply, result, ticket, coordPc, hand,
                     queues, active, maintenanceActive, workers, panicked>>
    BY DEF CloseJoin
  <1>2. /\ c \in Calls /\ phase[c] = "joining" /\ phase'[c] = "returned"
        /\ \A d \in Calls : d # c => phase'[d] = phase[d]
    BY CallKinds DEF CloseJoin, TypeInv, TypeOK
  <1>3. KindInv'
    BY <1>1, <1>2, CallKinds DEF ControlInv, KindInv, InFlight
  <1>4. ReplyInv'
    BY <1>1, <1>2, CallKinds DEF ControlInv, ReplyInv
  <1>5. SentLast'
    BY <1>1, <1>2 DEF ControlInv, SentLast
  <1>6. SettleInv'
    BY <1>1, <1>2, CallKinds DEF ControlInv, SettleInv, InFlight
  <1>7. MaintenanceInv'
    BY <1>1, <1>2, CallKinds DEF ControlInv, MaintenanceInv, InFlight, Earlier,
       Sent
  <1>8. CutInv'
    BY <1>1, <1>2, CallKinds DEF ControlInv, CutInv, Earlier, Sent
  <1>9. CloseInv'
    BY <1>1, <1>2, CallKinds DEF ControlInv, CloseInv, Earlier, Sent
  <1>10. EndInv'
    BY <1>1, <1>2, EndBeside DEF ControlInv, InFlight
  <1>11. AnswerInv'
    BY <1>1, <1>2, CallKinds DEF ControlInv, AnswerInv
  <1> QED
    BY <1>3, <1>4, <1>5, <1>6, <1>7, <1>8, <1>9, <1>10, <1>11 DEF ControlInv

(* A worker receives a job.                                                *)
LEMMA WorkerTakeControl ==
  ASSUME TypeInv, PlacementInv, ControlInv, NEW c \in Ops \cup Maintenances, WorkerTake(c)
  PROVE  ControlInv'
  <1>1. UNCHANGED <<lifecycle, channel, keyOf, reply, result, ticket, coordPc, hand,
                     queues, active, maintenanceActive, workers, panicked>>
    BY DEF WorkerTake
  <1>2. /\ c \in Calls /\ phase[c] = "dispatched" /\ phase'[c] = "running"
        /\ \A d \in Calls : d # c => phase'[d] = phase[d]
    BY CallKinds DEF WorkerTake, TypeInv, TypeOK
  <1>3. KindInv'
    BY <1>1, <1>2, CallKinds DEF ControlInv, KindInv, InFlight
  <1>4. ReplyInv'
    BY <1>1, <1>2, CallKinds DEF ControlInv, ReplyInv
  <1>5. SentLast'
    BY <1>1, <1>2 DEF ControlInv, SentLast
  <1>6. SettleInv'
    BY <1>1, <1>2, CallKinds DEF ControlInv, SettleInv, InFlight
  <1>7. MaintenanceInv'
    BY <1>1, <1>2, CallKinds DEF ControlInv, MaintenanceInv, InFlight, Earlier,
       Sent
  <1>8. CutInv'
    BY <1>1, <1>2, CallKinds DEF ControlInv, CutInv, Earlier, Sent
  <1>9. CloseInv'
    BY <1>1, <1>2, CallKinds DEF ControlInv, CloseInv, Earlier, Sent
  <1>10. EndInv'
    BY <1>1, <1>2, EndBeside DEF ControlInv, InFlight
  <1>11. AnswerInv'
    BY <1>1, <1>2, CallKinds DEF ControlInv, AnswerInv
  <1> QED
    BY <1>3, <1>4, <1>5, <1>6, <1>7, <1>8, <1>9, <1>10, <1>11 DEF ControlInv

(* A job ends and sends its completion.                                    *)
LEMMA WorkerFinishControl ==
  ASSUME TypeInv, PlacementInv, ControlInv, NEW c \in Ops \cup Maintenances,
         NEW ok \in BOOLEAN, WorkerFinish(c, ok)
  PROVE  ControlInv'
  <1>1. UNCHANGED <<lifecycle, keyOf, result, ticket, coordPc, hand, queues,
                     active, maintenanceActive, workers, panicked>>
    BY DEF WorkerFinish
  <1>2. /\ c \in Calls /\ phase[c] = "running" /\ phase'[c] = "completing"
        /\ reply'[c] \in {reply[c], "Dropped"}
        /\ \A d \in Calls : d # c => phase'[d] = phase[d] /\ reply'[d] = reply[d]
    BY CallKinds DEF WorkerFinish, TypeInv, TypeOK
  <1>3. coordPc # "done"
    BY <1>2 DEF ControlInv, EndInv, Ending
  <1>4. KindInv'
    BY <1>1, <1>2, <1>3, CallKinds DEF ControlInv, KindInv, InFlight
  <1>5. ReplyInv'
    BY <1>1, <1>2, <1>3, CallKinds DEF ControlInv, ReplyInv
  <1>6. SentLast'
    BY <1>1, <1>2, <1>3 DEF ControlInv, SentLast
  <1>7. SettleInv'
    BY <1>1, <1>2, <1>3, CallKinds DEF ControlInv, SettleInv, InFlight
  <1>8. MaintenanceInv'
    BY <1>1, <1>2, <1>3, CallKinds DEF ControlInv, MaintenanceInv, InFlight,
       Earlier, Sent
  <1>9. CutInv'
    BY <1>1, <1>2, <1>3, CallKinds DEF ControlInv, CutInv, Earlier, Sent
  <1>10. CloseInv'
    BY <1>1, <1>2, <1>3, CallKinds DEF ControlInv, CloseInv, Earlier, Sent
  <1>11. EndInv'
    BY <1>1, <1>2, <1>3, EndBeside DEF ControlInv, InFlight
  <1>12. AnswerInv'
    BY <1>1, <1>2, <1>3, CallKinds DEF ControlInv, AnswerInv
  <1> QED
    BY <1>4, <1>5, <1>6, <1>7, <1>8, <1>9, <1>10, <1>11, <1>12 DEF ControlInv

-----------------------------------------------------------------------------
(* With no operation queued or active and no maintenance, no job is left.  *)
LEMMA QuietCalls ==
  ASSUME TypeInv, PlacementInv, ControlInv, Quiet, ~maintenanceActive, ~panicked,
         coordPc \notin {"dispatch", "available"}
  PROVE  \A c \in Calls : phase[c] \notin InFlight \cup {"queued", "settling"}
  <1> SUFFICES ASSUME NEW c \in Calls, phase[c] \in InFlight \cup {"queued", "settling"}
               PROVE  FALSE
    OBVIOUS
  <1>1. CASE phase[c] \in InFlight
    <2>1. c \in Ops
      BY <1>1 DEF ControlInv, KindInv, MaintenanceInv
    <2> QED
      BY <1>1, <2>1 DEF PlacementInv, ActiveInv, Quiet
  <1>2. CASE phase[c] = "queued"
    <2>1. c \in Ops /\ \E i \in 1..Len(queues[keyOf[c]]) : queues[keyOf[c]][i] = c
      BY <1>2 DEF PlacementInv, QueueInv
    <2>2. queues[keyOf[c]] = <<>>
      BY <2>1 DEF Quiet, TypeInv, TypeOK
    <2> QED
      BY <2>1, <2>2
  <1>3. CASE phase[c] = "settling"
    BY <1>3 DEF ControlInv, KindInv
  <1> QED
    BY <1>1, <1>2, <1>3

(* A step of the coordinator that moves no call, before the end.           *)
LEMMA StillControl ==
  ASSUME ControlInv, NoneMoved, coordPc \notin Ending, coordPc' \notin Ending,
         \/ coordPc' \in {"dispatch", "available"} /\ hand' = hand
         \/ \A d \in Calls : phase[d] # "settling",
         UNCHANGED <<lifecycle, keyOf, result, ticket, maintenanceActive, panicked>>
  PROVE  ControlInv'
  <1>1. \A d \in Calls : phase'[d] = phase[d] /\ reply'[d] = reply[d]
    BY DEF NoneMoved
  <1>2. KindInv'
    BY <1>1, CallKinds DEF ControlInv, KindInv, InFlight
  <1>3. ReplyInv'
    BY <1>1, CallKinds DEF ControlInv, ReplyInv
  <1>4. SentLast'
    BY <1>1 DEF ControlInv, SentLast
  <1>5. SettleInv'
    BY <1>1, CallKinds DEF ControlInv, SettleInv, InFlight
  <1>6. MaintenanceInv'
    BY <1>1, CallKinds DEF ControlInv, MaintenanceInv, InFlight, Earlier, Sent
  <1>7. CutInv'
    BY <1>1, CallKinds DEF ControlInv, CutInv, Earlier, Sent
  <1>8. CloseInv'
    BY <1>1, CallKinds DEF ControlInv, CloseInv, Earlier, Sent, Ending
  <1>9. EndInv'
    BY <1>1, EndBefore DEF ControlInv, InFlight, Ending
  <1>10. AnswerInv'
    BY <1>1, CallKinds DEF ControlInv, AnswerInv
  <1> QED
    BY <1>2, <1>3, <1>4, <1>5, <1>6, <1>7, <1>8, <1>9, <1>10 DEF ControlInv

(* The oldest submission is refused because a close was received.          *)
LEMMA RejectControl ==
  ASSUME TypeInv, PlacementInv, ControlInv, NEW c \in Calls \ Closes,
         phase[c] = "sent", lifecycle # "Open", coordPc = "recv", coordPc' = "recv",
         \A d \in Calls : phase[d] = "sent" /\ d # c => ticket[c] < ticket[d],
         Moved(c, "done", "StoreClosed"),
         UNCHANGED <<lifecycle, keyOf, result, ticket, hand, maintenanceActive, panicked>>
  PROVE  ControlInv'
  <1>1. /\ phase'[c] = "done" /\ reply'[c] = "StoreClosed"
        /\ \A d \in Calls : d # c => phase'[d] = phase[d] /\ reply'[d] = reply[d]
    BY DEF Moved
  <1>2. \A d \in Calls : ticket[d] \in Nat /\ phase[d] # "settling"
    BY CallTypes DEF ControlInv, KindInv
  <1>3. ticket[c] # 0
    BY DEF PlacementInv, TicketInv
  <1>4. \E d \in Closes : Earlier(d, c)
    <2>1. PICK d \in Closes : Sent(d) /\ phase[d] # "sent"
      BY DEF PlacementInv, ActiveInv, ControlInv, CloseInv
    <2> QED
      BY <2>1, CallKinds DEF ControlInv, SentLast, Earlier, Sent
  <1>5. KindInv'
    BY <1>1, <1>2, <1>3, <1>4, CallKinds DEF ControlInv, KindInv, InFlight
  <1>6. ReplyInv'
    BY <1>1, <1>2, <1>3, <1>4, CallKinds DEF ControlInv, ReplyInv
  <1>7. SentLast'
    BY <1>1, <1>2, <1>3, <1>4 DEF ControlInv, SentLast
  <1>8. SettleInv'
    BY <1>1, <1>2, <1>3, <1>4, CallKinds DEF ControlInv, SettleInv, InFlight
  <1>9. MaintenanceInv'
    BY <1>1, <1>2, <1>3, <1>4, CallKinds DEF ControlInv, MaintenanceInv,
       InFlight, Earlier, Sent
  <1>10. CutInv'
    BY <1>1, <1>2, <1>3, <1>4, CallKinds DEF ControlInv, CutInv, Earlier, Sent
  <1>11. CloseInv'
    BY <1>1, <1>2, <1>3, <1>4, CallKinds DEF ControlInv, CloseInv, Earlier,
       Sent
  <1>12. EndInv'
    BY <1>1, <1>2, <1>3, <1>4, EndBefore DEF ControlInv, InFlight, Ending
  <1>13. AnswerInv'
    BY <1>1, <1>2, <1>3, <1>4, CallKinds, AnswerKeep DEF ControlInv, AnswerInv
  <1> QED
    BY <1>5, <1>6, <1>7, <1>8, <1>9, <1>10, <1>11, <1>12, <1>13 DEF ControlInv

(* The oldest submission is deferred.                                      *)
LEMMA DeferControl ==
  ASSUME TypeInv, PlacementInv, ControlInv, NEW c \in Calls \ Closes,
         phase[c] = "sent", lifecycle = "Open", coordPc = "recv",
         coordPc' \in {"recv", "advance"},
         \A d \in Calls : phase[d] = "sent" /\ d # c => ticket[c] < ticket[d],
         Moved(c, "pending", reply[c]),
         UNCHANGED <<lifecycle, keyOf, result, ticket, hand, maintenanceActive, panicked>>
  PROVE  ControlInv'
  <1>1. /\ phase'[c] = "pending" /\ reply'[c] = reply[c]
        /\ \A d \in Calls : d # c => phase'[d] = phase[d] /\ reply'[d] = reply[d]
    BY DEF Moved
  <1>2. \A d \in Calls : ticket[d] \in Nat /\ phase[d] # "settling"
    BY CallTypes DEF ControlInv, KindInv
  <1>3. \A d \in Closes : ~Earlier(d, c)
    BY <1>2, CallKinds DEF PlacementInv, ActiveInv, ControlInv, CloseInv, Earlier, Sent
  <1>4. KindInv'
    BY <1>1, <1>2, <1>3, CallKinds DEF ControlInv, KindInv, InFlight
  <1>5. ReplyInv'
    BY <1>1, <1>2, <1>3, CallKinds DEF ControlInv, ReplyInv
  <1>6. SentLast'
    BY <1>1, <1>2, <1>3 DEF ControlInv, SentLast
  <1>7. SettleInv'
    BY <1>1, <1>2, <1>3, CallKinds DEF ControlInv, SettleInv, InFlight
  <1>8. MaintenanceInv'
    BY <1>1, <1>2, <1>3, CallKinds DEF ControlInv, MaintenanceInv, InFlight,
       Earlier, Sent
  <1>9. CutInv'
    BY <1>1, <1>2, <1>3, CallKinds DEF ControlInv, CutInv, Earlier, Sent
  <1>10. CloseInv'
    BY <1>1, <1>2, <1>3, CallKinds DEF ControlInv, CloseInv, Earlier, Sent
  <1>11. EndInv'
    BY <1>1, <1>2, <1>3, EndBefore DEF ControlInv, InFlight, Ending
  <1>12. AnswerInv'
    BY <1>1, <1>2, <1>3, CallKinds, AnswerKeep DEF ControlInv, AnswerInv
  <1> QED
    BY <1>4, <1>5, <1>6, <1>7, <1>8, <1>9, <1>10, <1>11, <1>12 DEF ControlInv

(* An operation older than all that is sent or pending is queued.          *)
LEMMA EnqueueControl ==
  ASSUME TypeInv, PlacementInv, ControlInv, NEW c \in Ops,
         \/ phase[c] = "sent" /\ lifecycle = "Open"
         \/ phase[c] = "pending",
         coordPc \in {"recv", "advance"}, coordPc' \in {"dispatch", "redispatch"},
         \A d \in Calls : phase[d] = "sent" /\ d # c => ticket[c] < ticket[d],
         ~maintenanceActive, Moved(c, "queued", reply[c]),
         UNCHANGED <<lifecycle, keyOf, result, ticket, maintenanceActive, panicked>>
  PROVE  ControlInv'
  <1>1. /\ c \in Calls /\ c \notin Closes
        /\ phase'[c] = "queued" /\ reply'[c] = reply[c]
        /\ \A d \in Calls : d # c => phase'[d] = phase[d] /\ reply'[d] = reply[d]
    BY CallKinds DEF Moved
  <1>2. \A d \in Calls : ticket[d] \in Nat /\ phase[d] # "settling"
    BY CallTypes DEF ControlInv, KindInv
  <1>3. \A d \in Closes : ~Earlier(d, c)
    <2>1. CASE phase[c] = "pending"
      BY <1>1, <2>1 DEF ControlInv, CutInv
    <2>2. CASE phase[c] = "sent" /\ lifecycle = "Open"
      BY <1>1, <1>2, <2>2, CallKinds
         DEF PlacementInv, ActiveInv, ControlInv, CloseInv, Earlier, Sent
    <2> QED
      BY <2>1, <2>2
  <1>4. \A m \in Maintenances : phase[m] \notin InFlight
    BY DEF PlacementInv, ActiveInv, ControlInv, MaintenanceInv
  <1>5. KindInv'
    BY <1>1, <1>2, <1>3, <1>4, CallKinds DEF ControlInv, KindInv, InFlight
  <1>6. ReplyInv'
    BY <1>1, <1>2, <1>3, <1>4, CallKinds DEF ControlInv, ReplyInv
  <1>7. SentLast'
    BY <1>1, <1>2, <1>3, <1>4 DEF ControlInv, SentLast
  <1>8. SettleInv'
    BY <1>1, <1>2, <1>3, <1>4, CallKinds DEF ControlInv, SettleInv, InFlight
  <1>9. MaintenanceInv'
    BY <1>1, <1>2, <1>3, <1>4, CallKinds DEF ControlInv, MaintenanceInv,
       InFlight, Earlier, Sent
  <1>10. CutInv'
    BY <1>1, <1>2, <1>3, <1>4, CallKinds DEF ControlInv, CutInv, Earlier, Sent
  <1>11. CloseInv'
    BY <1>1, <1>2, <1>3, <1>4, CallKinds DEF ControlInv, CloseInv, Earlier,
       Sent
  <1>12. EndInv'
    BY <1>1, <1>2, <1>3, <1>4, EndBefore DEF ControlInv, InFlight, Ending
  <1>13. AnswerInv'
    BY <1>1, <1>2, <1>3, <1>4, CallKinds, AnswerKeep DEF ControlInv, AnswerInv
  <1> QED
    BY <1>5, <1>6, <1>7, <1>8, <1>9, <1>10, <1>11, <1>12, <1>13 DEF ControlInv

(* The completion of an operation is received.                             *)
LEMMA SettlingControl ==
  ASSUME TypeInv, PlacementInv, ControlInv, NEW c \in Ops,
         phase[c] = "completing", coordPc = "recv", coordPc' = "dispatch", hand' = c,
         Moved(c, "settling", reply[c]),
         UNCHANGED <<lifecycle, keyOf, result, ticket, maintenanceActive, panicked>>
  PROVE  ControlInv'
  <1>1. /\ c \in Calls /\ c \notin Closes
        /\ phase'[c] = "settling" /\ reply'[c] = reply[c]
        /\ \A d \in Calls : d # c => phase'[d] = phase[d] /\ reply'[d] = reply[d]
    BY CallKinds DEF Moved
  <1>2. \A d \in Calls : ticket[d] \in Nat /\ phase[d] # "settling"
    BY CallTypes DEF ControlInv, KindInv
  <1>3. \A d \in Ops : phase[d] \in InFlight \cup {"queued"} /\ keyOf[d] = keyOf[c] /\ d # c
          => ticket[c] < ticket[d]
    BY DEF PlacementInv, OrderInv, ActiveInv, InFlight
  <1>4. KindInv'
    BY <1>1, <1>2, <1>3, CallKinds DEF ControlInv, KindInv, InFlight
  <1>5. ReplyInv'
    BY <1>1, <1>2, <1>3, CallKinds DEF ControlInv, ReplyInv
  <1>6. SentLast'
    BY <1>1, <1>2, <1>3 DEF ControlInv, SentLast
  <1>7. SettleInv'
    BY <1>1, <1>2, <1>3, CallKinds DEF ControlInv, SettleInv, InFlight
  <1>8. MaintenanceInv'
    BY <1>1, <1>2, <1>3, CallKinds DEF ControlInv, MaintenanceInv, InFlight,
       Earlier, Sent
  <1>9. CutInv'
    BY <1>1, <1>2, <1>3, CallKinds DEF ControlInv, CutInv, Earlier, Sent
  <1>10. CloseInv'
    BY <1>1, <1>2, <1>3, CallKinds DEF ControlInv, CloseInv, Earlier, Sent
  <1>11. EndInv'
    BY <1>1, <1>2, <1>3, EndBefore DEF ControlInv, InFlight, Ending
  <1>12. AnswerInv'
    BY <1>1, <1>2, <1>3, CallKinds, AnswerKeep DEF ControlInv, AnswerInv
  <1> QED
    BY <1>4, <1>5, <1>6, <1>7, <1>8, <1>9, <1>10, <1>11, <1>12 DEF ControlInv

(* The completion of a maintenance is received.                            *)
LEMMA MaintainedControl ==
  ASSUME TypeInv, PlacementInv, ControlInv, NEW c \in Maintenances,
         phase[c] = "completing", coordPc = "recv", coordPc' = "advance",
         Moved(c, "done", IF reply[c] = "none" THEN "Ran" ELSE reply[c]),
         maintenanceActive' = FALSE,
         UNCHANGED <<lifecycle, keyOf, result, ticket, hand, panicked>>
  PROVE  ControlInv'
  <1>1. /\ c \in Calls /\ c \notin Closes
        /\ phase'[c] = "done"
        /\ reply'[c] = IF reply[c] = "none" THEN "Ran" ELSE reply[c]
        /\ \A d \in Calls : d # c => phase'[d] = phase[d] /\ reply'[d] = reply[d]
    BY CallKinds DEF Moved
  <1>2. \A d \in Calls : ticket[d] \in Nat /\ phase[d] # "settling"
    BY CallTypes DEF ControlInv, KindInv
  <1>3. /\ ticket[c] # 0
        /\ \A d \in Calls : phase[d] \in {"sent", "pending"} => ticket[c] < ticket[d]
        /\ \A d \in Calls : d # c => phase[d] \notin InFlight
        /\ \A d \in Closes : ~Earlier(d, c)
    BY <1>1 DEF PlacementInv, TicketInv, OrderInv, Held, InFlight, ControlInv, MaintenanceInv, CutInv
  <1>4. KindInv'
    BY <1>1, <1>2, <1>3, CallKinds DEF ControlInv, KindInv, InFlight
  <1>5. ReplyInv'
    BY <1>1, <1>2, <1>3, CallKinds DEF ControlInv, ReplyInv
  <1>6. SentLast'
    BY <1>1, <1>2, <1>3 DEF ControlInv, SentLast
  <1>7. SettleInv'
    BY <1>1, <1>2, <1>3, CallKinds DEF ControlInv, SettleInv, InFlight
  <1>8. MaintenanceInv'
    BY <1>1, <1>2, <1>3, CallKinds DEF ControlInv, MaintenanceInv, InFlight,
       Earlier, Sent
  <1>9. CutInv'
    BY <1>1, <1>2, <1>3, CallKinds DEF ControlInv, CutInv, Earlier, Sent
  <1>10. CloseInv'
    BY <1>1, <1>2, <1>3, CallKinds DEF ControlInv, CloseInv, Earlier, Sent
  <1>11. EndInv'
    BY <1>1, <1>2, <1>3, EndBefore DEF ControlInv, InFlight, Ending
  <1>12. AnswerInv'
    BY <1>1, <1>2, <1>3, CallKinds, AnswerKeep DEF ControlInv, AnswerInv
  <1> QED
    BY <1>4, <1>5, <1>6, <1>7, <1>8, <1>9, <1>10, <1>11, <1>12 DEF ControlInv

(* A close is received and waits behind all that was deferred.             *)
LEMMA ClosingControl ==
  ASSUME TypeInv, PlacementInv, ControlInv, NEW c \in Closes,
         phase[c] = "sent", coordPc = "recv", coordPc' = "advance",
         \A d \in Calls : phase[d] = "sent" /\ d # c => ticket[c] < ticket[d],
         lifecycle \in {"Open", "Closing"}, lifecycle' = "Closing",
         Moved(c, "pending", "none"),
         UNCHANGED <<keyOf, result, ticket, hand, maintenanceActive, panicked>>
  PROVE  ControlInv'
  <1>1. /\ c \in Calls /\ reply[c] = "none" /\ ticket[c] # 0
        /\ phase'[c] = "pending" /\ reply'[c] = reply[c]
        /\ \A d \in Calls : d # c => phase'[d] = phase[d] /\ reply'[d] = reply[d]
    BY CallKinds DEF Moved, ControlInv, ReplyInv, PlacementInv, TicketInv
  <1>2. \A d \in Calls : ticket[d] \in Nat /\ phase[d] # "settling"
    BY CallTypes DEF ControlInv, KindInv
  <1>3. KindInv'
    BY <1>1, <1>2, CallKinds DEF ControlInv, KindInv, InFlight
  <1>4. ReplyInv'
    BY <1>1, <1>2, CallKinds DEF ControlInv, ReplyInv
  <1>5. SentLast'
    BY <1>1, <1>2 DEF ControlInv, SentLast
  <1>6. SettleInv'
    BY <1>1, <1>2, CallKinds DEF ControlInv, SettleInv, InFlight
  <1>7. MaintenanceInv'
    BY <1>1, <1>2, CallKinds DEF ControlInv, MaintenanceInv, InFlight, Earlier,
       Sent
  <1>8. CutInv'
    BY <1>1, <1>2, CallKinds DEF ControlInv, CutInv, Earlier, Sent
  <1>9. CloseInv'
    BY <1>1, <1>2, CallKinds DEF ControlInv, CloseInv, Earlier, Sent
  <1>10. EndInv'
    BY <1>1, <1>2, EndBefore DEF ControlInv, InFlight, Ending
  <1>11. AnswerInv'
    BY <1>1, <1>2, CallKinds, AnswerKeep DEF ControlInv, AnswerInv, Stopped
  <1> QED
    BY <1>3, <1>4, <1>5, <1>6, <1>7, <1>8, <1>9, <1>10, <1>11 DEF ControlInv

-----------------------------------------------------------------------------
(* The first operation of a queue is a queued one of its key.              *)
LEMMA QueueFront ==
  ASSUME TypeInv, PlacementInv, NEW k \in Keys, queues[k] # <<>>
  PROVE  LET c == Head(queues[k]) IN
         c \in Ops /\ phase[c] = "queued" /\ keyOf[c] = k
  <1> DEFINE q == queues[k]
  <1>1. q \in Seq(Ops) /\ q # <<>>
    BY DEF TypeInv, TypeOK
  <1>2. Len(q) \in Nat \ {0} /\ Head(q) = q[1] /\ q[1] \in Ops
    <2> HIDE DEF q
    <2> QED
      BY <1>1, TailElements
  <1>3. phase[q[1]] = "queued" /\ keyOf[q[1]] = k
    BY <1>2 DEF PlacementInv, QueueInv
  <1> QED
    BY <1>2, <1>3

(* dispatch_if_idle takes an operation from its queue: it is handed over   *)
(* or answered.                                                            *)
LEMMA DispatchControl ==
  ASSUME TypeInv, PlacementInv, ControlInv, NEW k \in Keys,
         Dispatchable(k), Dispatch(k),
         coordPc \in {"dispatch", "redispatch", "available"},
         \/ coordPc' = "available" /\ hand' = hand
         \/ coordPc = "redispatch" /\ coordPc' = "advance",
         UNCHANGED <<lifecycle, keyOf, result, ticket, maintenanceActive, panicked>>
  PROVE  ControlInv'
  <1> DEFINE c == Head(queues[k])
  <1>1. c \in Ops /\ c \in Calls /\ c \notin Closes /\ phase[c] = "queued" /\ keyOf[c] = k
    BY QueueFront, CallKinds DEF Dispatchable
  <1>2. /\ \/ phase'[c] = "dispatched" /\ reply'[c] = reply[c]
           \/ phase'[c] = "done" /\ reply'[c] = "WorkerUnavailable"
        /\ \A d \in Calls : d # c => phase'[d] = phase[d] /\ reply'[d] = reply[d]
    BY <1>1 DEF Dispatch, TypeInv, TypeOK
  <1>3. \A d \in Calls : ticket[d] \in Nat
    BY CallTypes
  <1> HIDE DEF c
  <1>4. KindInv'
    BY <1>1, <1>2, <1>3, CallKinds DEF ControlInv, KindInv, InFlight
  <1>5. ReplyInv'
    BY <1>1, <1>2, <1>3, CallKinds DEF ControlInv, ReplyInv
  <1>6. SentLast'
    BY <1>1, <1>2, <1>3 DEF ControlInv, SentLast
  <1>7. SettleInv'
    BY <1>1, <1>2, <1>3, CallKinds DEF ControlInv, SettleInv, InFlight
  <1>8. MaintenanceInv'
    BY <1>1, <1>2, <1>3, CallKinds DEF ControlInv, MaintenanceInv, InFlight,
       Earlier, Sent
  <1>9. CutInv'
    BY <1>1, <1>2, <1>3, CallKinds DEF ControlInv, CutInv, Earlier, Sent
  <1>10. CloseInv'
    BY <1>1, <1>2, <1>3, CallKinds DEF ControlInv, CloseInv, Earlier, Sent
  <1>11. EndInv'
    BY <1>1, <1>2, <1>3, EndBefore DEF ControlInv, InFlight, Ending
  <1>12. AnswerInv'
    BY <1>1, <1>2, <1>3, CallKinds, AnswerKeep DEF ControlInv, AnswerInv
  <1> QED
    BY <1>4, <1>5, <1>6, <1>7, <1>8, <1>9, <1>10, <1>11, <1>12 DEF ControlInv

(* The handler of a completion delivers the result.                        *)
LEMMA DeliverControl ==
  ASSUME TypeInv, PlacementInv, ControlInv, NEW c \in Ops, phase[c] = "settling",
         coordPc = "available", coordPc' = "advance",
         Moved(c, "done", IF reply[c] = "none" THEN "Ran" ELSE reply[c]),
         UNCHANGED <<lifecycle, keyOf, result, ticket, maintenanceActive, panicked>>
  PROVE  ControlInv'
  <1>1. /\ c \in Calls /\ c \notin Closes
        /\ phase'[c] = "done"
        /\ reply'[c] = IF reply[c] = "none" THEN "Ran" ELSE reply[c]
        /\ \A d \in Calls : d # c => phase'[d] = phase[d] /\ reply'[d] = reply[d]
    BY CallKinds DEF Moved
  <1>2. \A d \in Calls : ticket[d] \in Nat /\ (phase[d] = "settling" => d = c)
    BY <1>1, CallTypes DEF ControlInv, KindInv
  <1>3. /\ ticket[c] # 0
        /\ \A d \in Calls : phase[d] \in {"sent", "pending"} => ticket[c] < ticket[d]
        /\ \A d \in Maintenances : phase[d] \notin InFlight
        /\ \A d \in Closes : ~Earlier(d, c)
    BY <1>1, CallKinds DEF PlacementInv, TicketInv, OrderInv, Held, ControlInv,
       MaintenanceInv, CutInv, InFlight
  <1>4. KindInv'
    BY <1>1, <1>2, <1>3, CallKinds DEF ControlInv, KindInv, InFlight
  <1>5. ReplyInv'
    BY <1>1, <1>2, <1>3, CallKinds DEF ControlInv, ReplyInv
  <1>6. SentLast'
    BY <1>1, <1>2, <1>3 DEF ControlInv, SentLast
  <1>7. SettleInv'
    BY <1>1, <1>2, <1>3, CallKinds DEF ControlInv, SettleInv, InFlight
  <1>8. MaintenanceInv'
    BY <1>1, <1>2, <1>3, CallKinds DEF ControlInv, MaintenanceInv, InFlight,
       Earlier, Sent
  <1>9. CutInv'
    BY <1>1, <1>2, <1>3, CallKinds DEF ControlInv, CutInv, Earlier, Sent
  <1>10. CloseInv'
    BY <1>1, <1>2, <1>3, CallKinds DEF ControlInv, CloseInv, Earlier, Sent
  <1>11. EndInv'
    BY <1>1, <1>2, <1>3, EndBefore DEF ControlInv, InFlight, Ending
  <1>12. AnswerInv'
    BY <1>1, <1>2, <1>3, CallKinds, AnswerKeep DEF ControlInv, AnswerInv
  <1> QED
    BY <1>4, <1>5, <1>6, <1>7, <1>8, <1>9, <1>10, <1>11, <1>12 DEF ControlInv

(* The maintenance at the front of pending is handed over, or answered for *)
(* want of a worker.                                                       *)
LEMMA MaintainControl ==
  ASSUME TypeInv, PlacementInv, ControlInv, NEW c \in Maintenances, phase[c] = "pending",
         coordPc = "advance", coordPc' = "closecheck",
         \A d \in Calls : phase[d] \notin InFlight \cup {"queued", "settling"},
         \/ Moved(c, "dispatched", reply[c])
         \/ Moved(c, "completing", "WorkerUnavailable"),
         maintenanceActive' = TRUE,
         UNCHANGED <<lifecycle, keyOf, result, ticket, hand, panicked>>
  PROVE  ControlInv'
  <1>1. /\ c \in Calls /\ c \notin Closes
        /\ \/ phase'[c] = "dispatched" /\ reply'[c] = reply[c]
           \/ phase'[c] = "completing" /\ reply'[c] = "WorkerUnavailable"
        /\ \A d \in Calls : d # c => phase'[d] = phase[d] /\ reply'[d] = reply[d]
    BY CallKinds DEF Moved
  <1>2. \A d \in Calls : ticket[d] \in Nat
    BY CallTypes
  <1>3. KindInv'
    BY <1>1, <1>2, CallKinds DEF ControlInv, KindInv, InFlight
  <1>4. ReplyInv'
    BY <1>1, <1>2, CallKinds DEF ControlInv, ReplyInv
  <1>5. SentLast'
    BY <1>1, <1>2 DEF ControlInv, SentLast
  <1>6. SettleInv'
    BY <1>1, <1>2, CallKinds DEF ControlInv, SettleInv, InFlight
  <1>7. MaintenanceInv'
    BY <1>1, <1>2, CallKinds DEF ControlInv, MaintenanceInv, InFlight, Earlier,
       Sent
  <1>8. CutInv'
    BY <1>1, <1>2, CallKinds DEF ControlInv, CutInv, Earlier, Sent
  <1>9. CloseInv'
    BY <1>1, <1>2, CallKinds DEF ControlInv, CloseInv, Earlier, Sent
  <1>10. EndInv'
    BY <1>1, <1>2, EndBefore DEF ControlInv, InFlight, Ending
  <1>11. AnswerInv'
    BY <1>1, <1>2, CallKinds, AnswerKeep DEF ControlInv, AnswerInv
  <1> QED
    BY <1>3, <1>4, <1>5, <1>6, <1>7, <1>8, <1>9, <1>10, <1>11 DEF ControlInv

(* The flush at the front of pending is answered.                          *)
LEMMA FlushControl ==
  ASSUME TypeInv, PlacementInv, ControlInv, NEW c \in Flushes, phase[c] = "pending",
         coordPc = "advance", coordPc' = "advance", Moved(c, "done", "Ok"),
         UNCHANGED <<lifecycle, keyOf, result, ticket, hand, maintenanceActive, panicked>>
  PROVE  ControlInv'
  <1>1. /\ c \in Calls /\ c \notin Closes
        /\ phase'[c] = "done" /\ reply'[c] = "Ok"
        /\ \A d \in Calls : d # c => phase'[d] = phase[d] /\ reply'[d] = reply[d]
    BY CallKinds DEF Moved
  <1>2. \A d \in Calls : ticket[d] \in Nat /\ phase[d] # "settling"
    BY CallTypes DEF ControlInv, KindInv
  <1>3. \A d \in Closes : ~Earlier(d, c)
    BY <1>1 DEF ControlInv, CutInv
  <1>4. KindInv'
    BY <1>1, <1>2, <1>3, CallKinds DEF ControlInv, KindInv, InFlight
  <1>5. ReplyInv'
    BY <1>1, <1>2, <1>3, CallKinds DEF ControlInv, ReplyInv
  <1>6. SentLast'
    BY <1>1, <1>2, <1>3 DEF ControlInv, SentLast
  <1>7. SettleInv'
    BY <1>1, <1>2, <1>3, CallKinds DEF ControlInv, SettleInv, InFlight
  <1>8. MaintenanceInv'
    BY <1>1, <1>2, <1>3, CallKinds DEF ControlInv, MaintenanceInv, InFlight,
       Earlier, Sent
  <1>9. CutInv'
    BY <1>1, <1>2, <1>3, CallKinds DEF ControlInv, CutInv, Earlier, Sent
  <1>10. CloseInv'
    BY <1>1, <1>2, <1>3, CallKinds DEF ControlInv, CloseInv, Earlier, Sent
  <1>11. EndInv'
    BY <1>1, <1>2, <1>3, EndBefore DEF ControlInv, InFlight, Ending
  <1>12. AnswerInv'
    BY <1>1, <1>2, <1>3, CallKinds, AnswerKeep DEF ControlInv, AnswerInv
  <1> QED
    BY <1>4, <1>5, <1>6, <1>7, <1>8, <1>9, <1>10, <1>11, <1>12 DEF ControlInv

-----------------------------------------------------------------------------
(* The pool is shut down: a close is at the front of pending, so that all  *)
(* before it is finished and nothing behind it but closes is deferred.     *)
LEMMA ShutdownControl ==
  ASSUME TypeInv, PlacementInv, ControlInv, Shutdown
  PROVE  ControlInv'
  <1>1. /\ coordPc = "closecheck" /\ coordPc' = "notify" /\ workers' = 0
        /\ lifecycle' \in {"Closed", "ShutdownFailed"}
        /\ CloseReady
        /\ UNCHANGED <<channel, keyOf, phase, reply, result, ticket, hand, queues,
                       active, pending, maintenanceActive, panicked>>
    BY DEF Shutdown
  <1>2. ~panicked /\ lifecycle \notin Stopped
    BY <1>1 DEF PlacementInv, ActiveInv, ControlInv, EndInv, Ending
  <1>3. \A d \in Calls : phase[d] \notin InFlight \cup {"queued", "settling"}
    BY <1>1, <1>2, QuietCalls DEF CloseReady
  <1>4. \E c \in Closes : /\ Sent(c) /\ phase[c] = "pending"
                          /\ \A d \in Calls : phase[d] = "pending" => d \in Closes
    <2> DEFINE c == Head(pending)
    <2>1. /\ c \in Closes /\ phase[c] = "pending" /\ c \in Calls
          /\ \A d \in Calls : phase[d] = "pending" /\ d # c => ticket[c] < ticket[d]
      BY <1>1, PendingFront DEF CloseReady, FrontIn
    <2>2. Sent(c)
      BY <2>1 DEF PlacementInv, TicketInv, Held, Sent
    <2>3. \A d \in Calls : phase[d] = "pending" => d \in Closes
      BY <2>1, <2>2 DEF ControlInv, CutInv, Earlier
    <2> QED
      BY <2>1, <2>2, <2>3
  <1>5. KindInv'
    BY <1>1, <1>2, <1>3, <1>4, CallKinds DEF ControlInv, KindInv, InFlight
  <1>6. ReplyInv'
    BY <1>1, <1>2, <1>3, <1>4, CallKinds DEF ControlInv, ReplyInv
  <1>7. SentLast'
    BY <1>1, <1>2, <1>3, <1>4 DEF ControlInv, SentLast
  <1>8. SettleInv'
    BY <1>1, <1>2, <1>3, <1>4, CallKinds DEF ControlInv, SettleInv, InFlight
  <1>9. MaintenanceInv'
    BY <1>1, <1>2, <1>3, <1>4, CallKinds DEF ControlInv, MaintenanceInv,
       InFlight, Earlier, Sent
  <1>10. CutInv'
    BY <1>1, <1>2, <1>3, <1>4, CallKinds DEF ControlInv, CutInv, Earlier, Sent
  <1>11. CloseInv'
    BY <1>1, <1>2, <1>3, <1>4, CallKinds DEF ControlInv, CloseInv, Earlier,
       Sent
  <1>12. EndInv'
    BY <1>1, <1>2, <1>3, <1>4 DEF EndInv, Ending, Stopped, CloseReady, Quiet, InFlight
  <1>13. AnswerInv'
    BY <1>1, <1>2, CallKinds DEF ControlInv, AnswerInv, ReplyInv
  <1> QED
    BY <1>5, <1>6, <1>7, <1>8, <1>9, <1>10, <1>11, <1>12, <1>13 DEF ControlInv

(* A waiting close is told the outcome.                                    *)
LEMMA NotifyControl ==
  ASSUME TypeInv, PlacementInv, ControlInv, NEW c \in Closes, phase[c] = "pending",
         coordPc = "notify", Moved(c, "done", CloseAnswer(lifecycle)),
         UNCHANGED <<lifecycle, channel, keyOf, result, ticket, coordPc, hand, queues,
                     active, maintenanceActive, workers, panicked>>
  PROVE  ControlInv'
  <1>1. /\ c \in Calls
        /\ phase'[c] = "done" /\ reply'[c] = CloseAnswer(lifecycle)
        /\ \A d \in Calls : d # c => phase'[d] = phase[d] /\ reply'[d] = reply[d]
    BY CallKinds DEF Moved
  <1>2. \A d \in Calls : ticket[d] \in Nat /\ phase[d] # "settling"
    BY CallTypes DEF ControlInv, KindInv
  <1>3. ~panicked /\ lifecycle \in Stopped /\ CloseAnswer(lifecycle) \in {"Ok", "ShutdownFailure"}
    BY DEF PlacementInv, ActiveInv, ControlInv, EndInv, Ending, Stopped, CloseAnswer
  <1>4. KindInv'
    BY <1>1, <1>2, <1>3, CallKinds DEF ControlInv, KindInv, InFlight
  <1>5. ReplyInv'
    BY <1>1, <1>2, <1>3, CallKinds DEF ControlInv, ReplyInv
  <1>6. SentLast'
    BY <1>1, <1>2, <1>3 DEF ControlInv, SentLast
  <1>7. SettleInv'
    BY <1>1, <1>2, <1>3, CallKinds DEF ControlInv, SettleInv, InFlight
  <1>8. MaintenanceInv'
    BY <1>1, <1>2, <1>3, CallKinds DEF ControlInv, MaintenanceInv, InFlight,
       Earlier, Sent
  <1>9. CutInv'
    BY <1>1, <1>2, <1>3, CallKinds DEF ControlInv, CutInv, Earlier, Sent
  <1>10. CloseInv'
    BY <1>1, <1>2, <1>3, CallKinds DEF ControlInv, CloseInv, Earlier, Sent
  <1>11. EndInv'
    BY <1>1, <1>2, <1>3, EndBeside DEF ControlInv, InFlight
  <1>12. AnswerInv'
    BY <1>1, <1>2, <1>3, CallKinds DEF ControlInv, AnswerInv
  <1> QED
    BY <1>4, <1>5, <1>6, <1>7, <1>8, <1>9, <1>10, <1>11, <1>12 DEF ControlInv

(* All waiting closes are told.                                            *)
LEMMA NotifiedControl ==
  ASSUME TypeInv, PlacementInv, ControlInv, coordPc = "notify", coordPc' = "drain",
         ~FrontIn(Closes), NoneMoved,
         UNCHANGED <<lifecycle, channel, keyOf, result, ticket, hand, queues,
                     active, maintenanceActive, workers, panicked>>
  PROVE  ControlInv'
  <1>1. \A d \in Calls : phase'[d] = phase[d] /\ reply'[d] = reply[d]
    BY DEF NoneMoved
  <1>2. \A d \in Calls : ticket[d] \in Nat /\ phase[d] # "settling"
    BY CallTypes DEF ControlInv, KindInv
  <1>3. \A d \in Calls : phase[d] # "pending"
    <2>1. pending = <<>>
      BY PendingFront DEF FrontIn, ControlInv, EndInv, Ending
    <2> QED
      BY <2>1 DEF PlacementInv, PendingInv
  <1>4. KindInv'
    BY <1>1, <1>2, <1>3, CallKinds DEF ControlInv, KindInv, InFlight
  <1>5. ReplyInv'
    BY <1>1, <1>2, <1>3, CallKinds DEF ControlInv, ReplyInv
  <1>6. SentLast'
    BY <1>1, <1>2, <1>3 DEF ControlInv, SentLast
  <1>7. SettleInv'
    BY <1>1, <1>2, <1>3, CallKinds DEF ControlInv, SettleInv, InFlight
  <1>8. MaintenanceInv'
    BY <1>1, <1>2, <1>3, CallKinds DEF ControlInv, MaintenanceInv, InFlight,
       Earlier, Sent
  <1>9. CutInv'
    BY <1>1, <1>2, <1>3, CallKinds DEF ControlInv, CutInv, Earlier, Sent
  <1>10. CloseInv'
    BY <1>1, <1>2, <1>3, CallKinds DEF ControlInv, CloseInv, Earlier, Sent
  <1>11. EndInv'
    BY <1>1, <1>3 DEF ControlInv, EndInv, Ending
  <1>12. AnswerInv'
    BY <1>1, <1>2, <1>3, CallKinds DEF ControlInv, AnswerInv
  <1> QED
    BY <1>4, <1>5, <1>6, <1>7, <1>8, <1>9, <1>10, <1>11, <1>12 DEF ControlInv

(* What was sent behind the first close is answered.                       *)
LEMMA DrainControl ==
  ASSUME TypeInv, PlacementInv, ControlInv, NEW c \in Calls, phase[c] = "sent",
         coordPc = "drain",
         \A d \in Calls : phase[d] = "sent" /\ d # c => ticket[c] < ticket[d],
         Moved(c, "done", IF c \in Closes THEN CloseAnswer(lifecycle) ELSE "StoreClosed"),
         UNCHANGED <<lifecycle, keyOf, result, ticket, coordPc, hand, queues,
                     active, maintenanceActive, workers, panicked>>
  PROVE  ControlInv'
  <1>1. /\ phase'[c] = "done"
        /\ reply'[c] = IF c \in Closes THEN CloseAnswer(lifecycle) ELSE "StoreClosed"
        /\ \A d \in Calls : d # c => phase'[d] = phase[d] /\ reply'[d] = reply[d]
    BY DEF Moved
  <1>2. \A d \in Calls : ticket[d] \in Nat /\ phase[d] # "settling"
    BY CallTypes DEF ControlInv, KindInv
  <1>3. ~panicked /\ lifecycle \in Stopped /\ CloseAnswer(lifecycle) \in {"Ok", "ShutdownFailure"}
    BY DEF PlacementInv, ActiveInv, ControlInv, EndInv, Ending, Stopped, CloseAnswer
  <1>4. ticket[c] # 0 /\ \E d \in Closes : Earlier(d, c)
    <2>1. PICK d \in Closes : Sent(d) /\ phase[d] # "sent"
      BY <1>3 DEF ControlInv, CloseInv, Stopped
    <2> QED
      BY <2>1, CallKinds DEF PlacementInv, TicketInv, ControlInv, SentLast, Earlier, Sent
  <1>5. KindInv'
    BY <1>1, <1>2, <1>3, <1>4, CallKinds DEF ControlInv, KindInv, InFlight
  <1>6. ReplyInv'
    BY <1>1, <1>2, <1>3, <1>4, CallKinds DEF ControlInv, ReplyInv
  <1>7. SentLast'
    BY <1>1, <1>2, <1>3, <1>4 DEF ControlInv, SentLast
  <1>8. SettleInv'
    BY <1>1, <1>2, <1>3, <1>4, CallKinds DEF ControlInv, SettleInv, InFlight
  <1>9. MaintenanceInv'
    BY <1>1, <1>2, <1>3, <1>4, CallKinds DEF ControlInv, MaintenanceInv,
       InFlight, Earlier, Sent
  <1>10. CutInv'
    BY <1>1, <1>2, <1>3, <1>4, CallKinds DEF ControlInv, CutInv, Earlier, Sent
  <1>11. CloseInv'
    BY <1>1, <1>2, <1>3, <1>4, CallKinds DEF ControlInv, CloseInv, Earlier,
       Sent
  <1>12. EndInv'
    BY <1>1, <1>2, <1>3, <1>4, EndBeside DEF ControlInv, InFlight
  <1>13. AnswerInv'
    BY <1>1, <1>2, <1>3, <1>4, CallKinds DEF ControlInv, AnswerInv
  <1> QED
    BY <1>5, <1>6, <1>7, <1>8, <1>9, <1>10, <1>11, <1>12, <1>13 DEF ControlInv

(* The coordinator leaves the draining loop.                               *)
LEMMA ExitControl ==
  ASSUME TypeInv, PlacementInv, ControlInv, coordPc \in {"drain", "faildrain"},
         coordPc' = "done", channel = <<>>, NoneMoved,
         UNCHANGED <<lifecycle, channel, keyOf, result, ticket, hand, queues,
                     active, maintenanceActive, workers, panicked>>
  PROVE  ControlInv'
  <1>1. \A d \in Calls : phase'[d] = phase[d] /\ reply'[d] = reply[d]
    BY DEF NoneMoved
  <1>2. \A d \in Calls : ticket[d] \in Nat /\ phase[d] # "settling"
    BY CallTypes DEF ControlInv, KindInv
  <1>3. KindInv'
    BY <1>1, <1>2, CallKinds DEF ControlInv, KindInv, InFlight
  <1>4. ReplyInv'
    BY <1>1, <1>2, CallKinds DEF ControlInv, ReplyInv
  <1>5. SentLast'
    BY <1>1, <1>2 DEF ControlInv, SentLast
  <1>6. SettleInv'
    BY <1>1, <1>2, CallKinds DEF ControlInv, SettleInv, InFlight
  <1>7. MaintenanceInv'
    BY <1>1, <1>2, CallKinds DEF ControlInv, MaintenanceInv, InFlight, Earlier,
       Sent
  <1>8. CutInv'
    BY <1>1, <1>2, CallKinds DEF ControlInv, CutInv, Earlier, Sent
  <1>9. CloseInv'
    BY <1>1, <1>2, CallKinds DEF ControlInv, CloseInv, Earlier, Sent
  <1>10. EndInv'
    BY <1>1 DEF ControlInv, EndInv, Ending
  <1>11. AnswerInv'
    BY <1>1, <1>2, CallKinds DEF ControlInv, AnswerInv
  <1> QED
    BY <1>3, <1>4, <1>5, <1>6, <1>7, <1>8, <1>9, <1>10, <1>11 DEF ControlInv

(* Every sender is gone, and with them every call that could wait.         *)
LEMMA DisconnectedControl ==
  ASSUME TypeInv, PlacementInv, ControlInv, WorkInv, CoordinatorDisconnected
  PROVE  ControlInv'
  <1>1. /\ coordPc = "recv" /\ coordPc' = "done" /\ workers' = 0 /\ lifecycle' = "Closed"
        /\ channel = <<>>
        /\ \A c \in Ops \cup Maintenances :
             phase[c] \notin {"sent", "pending", "queued", "dispatched", "running"}
        /\ UNCHANGED <<channel, keyOf, phase, reply, result, ticket, hand, queues,
                       active, pending, maintenanceActive, panicked>>
    BY DEF CoordinatorDisconnected, Disconnected
  <1>2. ~panicked /\ lifecycle \notin Stopped
    BY <1>1 DEF PlacementInv, ActiveInv, ControlInv, EndInv, Ending
  <1>3. \A c \in Calls : phase[c] \notin InFlight \cup {"settling"}
    BY <1>1 DEF PlacementInv, ChannelInv, ControlInv, KindInv, InFlight
  <1>4. active = {} /\ ~maintenanceActive
    BY <1>3, CallKinds DEF WorkInv, ActiveBacked, ControlInv, MaintenanceInv
  <1>5. \A k \in Keys : queues[k] = <<>>
    BY <1>1, QueueFront
  <1>6. \A c \in Calls : phase[c] # "pending"
    <2>1. pending = <<>>
      BY <1>1, <1>3, CallKinds DEF WorkInv, DeferInv
    <2> QED
      BY <2>1 DEF PlacementInv, PendingInv
  <1>7. KindInv'
    BY <1>1, <1>2, <1>3, <1>4, <1>5, <1>6, CallKinds DEF ControlInv, KindInv,
       InFlight
  <1>8. ReplyInv'
    BY <1>1, <1>2, <1>3, <1>4, <1>5, <1>6, CallKinds DEF ControlInv, ReplyInv
  <1>9. SentLast'
    BY <1>1, <1>2, <1>3, <1>4, <1>5, <1>6 DEF ControlInv, SentLast
  <1>10. SettleInv'
    BY <1>1, <1>2, <1>3, <1>4, <1>5, <1>6, CallKinds DEF ControlInv, SettleInv,
       InFlight
  <1>11. MaintenanceInv'
    BY <1>1, <1>2, <1>3, <1>4, <1>5, <1>6, CallKinds DEF ControlInv,
       MaintenanceInv, InFlight, Earlier, Sent
  <1>12. CutInv'
    BY <1>1, <1>2, <1>3, <1>4, <1>5, <1>6, CallKinds DEF ControlInv, CutInv,
       Earlier, Sent
  <1>13. CloseInv'
    BY <1>1, <1>2, <1>3, <1>4, <1>5, <1>6, CallKinds DEF ControlInv, CloseInv,
       Earlier, Sent
  <1>14. EndInv'
    BY <1>1, <1>2, <1>3, <1>4, <1>5, <1>6 DEF EndInv, Ending, Stopped, InFlight
  <1>15. AnswerInv'
    BY <1>1, <1>2, CallKinds DEF ControlInv, AnswerInv, ReplyInv
  <1> QED
    BY <1>7, <1>8, <1>9, <1>10, <1>11, <1>12, <1>13, <1>14, <1>15 DEF ControlInv

(* The scheduler unwinds.                                                  *)
LEMMA UnwindControl ==
  ASSUME TypeInv, PlacementInv, ControlInv, NEW lost \in SUBSET Calls, Unwind(lost),
         coordPc \in {"recv", "advance", "drain"},
         \A c \in lost : phase[c] \in {"sent", "pending", "completing"},
         \A c \in lost : \A d \in Calls : phase[c] = "sent" /\ phase[d] = "sent" /\ d # c
           => ticket[c] < ticket[d]
  PROVE  ControlInv'
  <1>1. /\ coordPc' = "unwind" /\ panicked' = TRUE /\ maintenanceActive' = FALSE
        /\ active' = {} /\ \A k \in Keys : queues'[k] = <<>>
        /\ UNCHANGED <<lifecycle, keyOf, result, ticket, hand, workers>>
    BY DEF Unwind
  <1>2. \A c \in Calls :
          \/ /\ phase'[c] = phase[c] /\ reply'[c] = reply[c]
             /\ phase[c] \notin {"pending", "queued"}
             /\ c \notin lost
          \/ /\ phase'[c] = "done"
             /\ phase[c] \in {"sent", "pending", "queued", "completing"}
             /\ phase[c] = "sent" => c \in lost
             /\ reply'[c] = IF reply[c] = "none" THEN "Dropped" ELSE reply[c]
    BY DEF Unwind
  <1>3. \A d \in Calls : ticket[d] \in Nat /\ phase[d] # "settling"
    BY CallTypes DEF ControlInv, KindInv
  <1>4. KindInv'
    BY <1>1, <1>2, <1>3, CallKinds DEF ControlInv, KindInv, InFlight
  <1>5. ReplyInv'
    BY <1>1, <1>2, <1>3, CallKinds DEF ControlInv, ReplyInv
  <1>6. SentLast'
    BY <1>1, <1>2, <1>3, SentLastKeep DEF ControlInv, SentLast
  <1>7. SettleInv'
    BY <1>1, <1>2, <1>3, CallKinds DEF ControlInv, SettleInv, InFlight
  <1>8. MaintenanceInv'
    BY <1>1, <1>2, <1>3, CallKinds DEF ControlInv, MaintenanceInv, InFlight,
       Earlier, Sent
  <1>9. CutInv'
    BY <1>1, <1>2, <1>3, CallKinds DEF ControlInv, CutInv, Earlier, Sent
  <1>10. CloseInv'
    BY <1>1, <1>2, <1>3, CallKinds DEF ControlInv, CloseInv, Earlier, Sent
  <1>11. EndInv'
    BY <1>1, <1>2 DEF ControlInv, EndInv, Ending
  <1>12. AnswerInv'
    BY <1>1 DEF AnswerInv
  <1> QED
    BY <1>4, <1>5, <1>6, <1>7, <1>8, <1>9, <1>10, <1>11, <1>12 DEF ControlInv

(* The unwinding coordinator has joined its workers.                       *)
LEMMA UnwindJoinControl ==
  ASSUME TypeInv, PlacementInv, ControlInv, UnwindJoin
  PROVE  ControlInv'
  <1>1. /\ coordPc = "unwind" /\ coordPc' = "faildrain" /\ workers' = 0 /\ lifecycle' = "Failed"
        /\ NoJobs
        /\ UNCHANGED <<channel, keyOf, phase, reply, result, ticket, hand, queues,
                       active, pending, maintenanceActive, panicked>>
    BY DEF UnwindJoin
  <1>2. panicked
    BY <1>1 DEF ControlInv, EndInv
  <1>3. \A d \in Calls : ticket[d] \in Nat /\ phase[d] # "settling"
    BY <1>1, CallTypes DEF ControlInv, KindInv
  <1>4. KindInv'
    BY <1>1, <1>2, <1>3, CallKinds DEF ControlInv, KindInv, InFlight
  <1>5. ReplyInv'
    BY <1>1, <1>2, <1>3, CallKinds DEF ControlInv, ReplyInv
  <1>6. SentLast'
    BY <1>1, <1>2, <1>3 DEF ControlInv, SentLast
  <1>7. SettleInv'
    BY <1>1, <1>2, <1>3, CallKinds DEF ControlInv, SettleInv, InFlight
  <1>8. MaintenanceInv'
    BY <1>1, <1>2, <1>3, CallKinds DEF ControlInv, MaintenanceInv, InFlight,
       Earlier, Sent
  <1>9. CutInv'
    BY <1>1, <1>2, <1>3, CallKinds DEF ControlInv, CutInv, Earlier, Sent
  <1>10. CloseInv'
    BY <1>1, <1>2, <1>3, CallKinds DEF ControlInv, CloseInv, Earlier, Sent
  <1>11. EndInv'
    BY <1>1, <1>2 DEF ControlInv, EndInv, Ending, Stopped, NoJobs
  <1>12. AnswerInv'
    BY <1>1, <1>2 DEF AnswerInv
  <1> QED
    BY <1>4, <1>5, <1>6, <1>7, <1>8, <1>9, <1>10, <1>11, <1>12 DEF ControlInv

(* What is left in the channel of a failed engine is answered.             *)
LEMMA FailDrainControl ==
  ASSUME TypeInv, PlacementInv, ControlInv, NEW c \in Calls,
         phase[c] \in {"sent", "completing"}, coordPc = "faildrain",
         \A d \in Calls : phase[c] = "sent" /\ phase[d] = "sent" /\ d # c => ticket[c] < ticket[d],
         Moved(c, "done", IF reply[c] = "none" THEN FailedAnswer(c) ELSE reply[c]),
         UNCHANGED <<lifecycle, keyOf, result, ticket, coordPc, hand, queues,
                     active, maintenanceActive, workers, panicked>>
  PROVE  ControlInv'
  <1>1. /\ phase'[c] = "done"
        /\ reply'[c] = IF reply[c] = "none" THEN FailedAnswer(c) ELSE reply[c]
        /\ FailedAnswer(c) \in {"ShutdownFailure", "EngineFailed"}
        /\ \A d \in Calls : d # c => phase'[d] = phase[d] /\ reply'[d] = reply[d]
    BY DEF Moved, FailedAnswer
  <1>2. \A d \in Calls : ticket[d] \in Nat /\ phase[d] # "settling"
    BY CallTypes DEF ControlInv, KindInv
  <1>3. panicked /\ ~maintenanceActive
    BY DEF ControlInv, EndInv, Ending
  <1>4. KindInv'
    BY <1>1, <1>2, <1>3, CallKinds DEF ControlInv, KindInv, InFlight
  <1>5. ReplyInv'
    BY <1>1, <1>2, <1>3, CallKinds DEF ControlInv, ReplyInv
  <1>6. SentLast'
    BY <1>1, <1>2, <1>3 DEF ControlInv, SentLast
  <1>7. SettleInv'
    BY <1>1, <1>2, <1>3, CallKinds DEF ControlInv, SettleInv, InFlight
  <1>8. MaintenanceInv'
    BY <1>1, <1>2, <1>3, CallKinds DEF ControlInv, MaintenanceInv, InFlight,
       Earlier, Sent
  <1>9. CutInv'
    BY <1>1, <1>2, <1>3, CallKinds DEF ControlInv, CutInv, Earlier, Sent
  <1>10. CloseInv'
    BY <1>1, <1>2, <1>3, CallKinds DEF ControlInv, CloseInv, Earlier, Sent
  <1>11. EndInv'
    BY <1>1, <1>2, <1>3, EndBeside DEF ControlInv, InFlight
  <1>12. AnswerInv'
    BY <1>3 DEF AnswerInv
  <1> QED
    BY <1>4, <1>5, <1>6, <1>7, <1>8, <1>9, <1>10, <1>11, <1>12 DEF ControlInv

-----------------------------------------------------------------------------
(* Dispatching answers only an operation that no worker can be had for.    *)
LEMMA DispatchLife ==
  ASSUME TypeInv, PlacementInv, ControlInv, NEW k \in Keys,
         Dispatchable(k), Dispatch(k), ticket' = ticket
  PROVE  Life
  <1> DEFINE c == Head(queues[k])
  <1>1. c \in Ops /\ c \in Calls /\ c \notin Flushes /\ phase[c] = "queued"
    BY QueueFront, CallKinds DEF Dispatchable
  <1>2. \/ Moved(c, "dispatched", reply[c])
        \/ Moved(c, "done", "WorkerUnavailable")
    BY <1>1 DEF Dispatch, Moved, TypeInv, TypeOK
  <1>3. reply[c] = "none"
    BY <1>1 DEF ControlInv, ReplyInv
  <1> QED
    BY <1>1, <1>2, <1>3, LifeMoved

(* Unwinding drops the reply channels that were not used.                  *)
LEMMA UnwindLife ==
  ASSUME TypeInv, ControlInv, NEW lost \in SUBSET Calls, Unwind(lost)
  PROVE  Life
  <1>1. \A c \in Calls :
          /\ phase'[c] \in {phase[c], "done"}
          /\ reply'[c] = reply[c] \/ (reply[c] = "none" /\ reply'[c] = "Dropped")
    BY DEF Unwind
  <1>2. ticket' = ticket
    BY DEF Unwind
  <1> QED
    BY <1>1, <1>2 DEF Life

(* The worker of a job that panics drops its reply channel.                *)
LEMMA WorkerLife ==
  ASSUME TypeInv, ControlInv, NEW c \in Ops \cup Maintenances, Worker(c)
  PROVE  Life
  <1>1. c \in Calls /\ c \notin Flushes
    BY CallKinds
  <1>2. ticket' = ticket
    BY DEF Worker, WorkerTake, WorkerFinish
  <1>3. CASE WorkerTake(c)
    <2>1. phase[c] = "dispatched" /\ Moved(c, "running", reply[c])
      BY <1>1, <1>3 DEF WorkerTake, Moved, TypeInv, TypeOK
    <2> QED
      BY <1>1, <1>2, <2>1, LifeMoved DEF ControlInv, ReplyInv
  <1>4. ASSUME NEW ok \in BOOLEAN, WorkerFinish(c, ok) PROVE Life
    <2>1. /\ phase[c] = "running"
          /\ Moved(c, "completing", reply[c]) \/ Moved(c, "completing", "Dropped")
      BY <1>1, <1>4 DEF WorkerFinish, Moved, TypeInv, TypeOK
    <2> QED
      BY <1>1, <1>2, <2>1, LifeMoved DEF ControlInv, ReplyInv
  <1> QED
    BY <1>3, <1>4 DEF Worker

(* A caller of close goes on with the answer it has.                       *)
LEMMA CloserLife ==
  ASSUME TypeInv, NEW c \in Closes, Closer(c)
  PROVE  Life
  <1>1. c \in Calls /\ UNCHANGED <<ticket, reply>>
    BY CallKinds DEF Closer, CloseWait, CloseJoin
  <1>2. \A d \in Calls : d # c => phase'[d] = phase[d]
    BY <1>1 DEF Closer, CloseWait, CloseJoin, TypeInv, TypeOK
  <1> QED
    BY <1>1, <1>2 DEF Life

-----------------------------------------------------------------------------
(* The first step of each event handler of run_scheduler.                  *)
LEMMA ReceiveControl ==
  ASSUME TypeInv, PlacementInv, ControlInv,
         \/ RecvSubmission \/ RecvCompletion \/ RecvBarrier
         \/ RecvMaintenanceCompletion \/ RecvClose
  PROVE  ControlInv' /\ Life
  <1> DEFINE c == Head(channel).call
  <1>1. /\ coordPc = "recv" /\ channel # <<>>
        /\ UNCHANGED <<keyOf, result, ticket, panicked>>
    BY DEF RecvSubmission, RecvCompletion, RecvBarrier,
           RecvMaintenanceCompletion, RecvClose, Receive
  <1>2. /\ c \in Calls
        /\ Head(channel).kind = "submit" => phase[c] = "sent"
        /\ Head(channel).kind = "complete" => phase[c] = "completing"
        /\ Head(channel).kind = "submit" =>
             \A d \in Calls : phase[d] = "sent" /\ d # c => ticket[c] < ticket[d]
    BY <1>1, ChannelFront
  <1>3. lifecycle \in {"Open", "Closing"}
    BY <1>1 DEF ControlInv, EndInv, Ending, Stopped, TypeInv, TypeOK, Lifecycles
  <1>4. CASE RecvSubmission
    <2>1. /\ c \in Ops /\ Head(channel).kind = "submit" /\ c \notin Closes
          /\ UNCHANGED <<lifecycle, maintenanceActive>>
      BY <1>4, CallKinds DEF RecvSubmission, Receive
    <2>2. CASE ~Accepting
      <3>1. Reject(c) /\ UNCHANGED <<coordPc, hand>>
        BY <1>4, <2>2 DEF RecvSubmission
      <3>2. Moved(c, "done", "StoreClosed")
        BY <1>2, <3>1 DEF Reject, Moved, TypeInv, TypeOK
      <3> QED
        BY <1>1, <1>2, <2>1, <2>2, <3>1, <3>2, RejectControl, LifeMoved DEF Accepting
    <2>3. CASE Accepting /\ MustDefer
      <3>1. Defer(c) /\ UNCHANGED <<reply, coordPc, hand>>
        BY <1>4, <2>3 DEF RecvSubmission
      <3>2. Moved(c, "pending", reply[c])
        BY <1>2, <3>1 DEF Defer, Moved, TypeInv, TypeOK
      <3> QED
        BY <1>1, <1>2, <2>1, <2>3, <3>1, <3>2, DeferControl, LifeMoved DEF Accepting
    <2>4. CASE Accepting /\ ~MustDefer
      <3>1. Enqueue(c) /\ coordPc' = "dispatch" /\ reply' = reply
        BY <1>4, <2>4 DEF RecvSubmission
      <3>2. Moved(c, "queued", reply[c])
        BY <1>2, <3>1 DEF Enqueue, Moved, TypeInv, TypeOK
      <3> QED
        BY <1>1, <1>2, <2>1, <2>4, <3>1, <3>2, EnqueueControl, LifeMoved DEF Accepting, MustDefer
    <2> QED
      BY <2>2, <2>3, <2>4
  <1>5. CASE RecvCompletion
    <2>1. /\ c \in Ops /\ Head(channel).kind = "complete"
          /\ hand' = c /\ coordPc' = "dispatch"
          /\ UNCHANGED <<lifecycle, reply, maintenanceActive>>
      BY <1>5 DEF RecvCompletion, Receive
    <2>2. Moved(c, "settling", reply[c])
      BY <1>2, <1>5, <2>1 DEF RecvCompletion, Moved, TypeInv, TypeOK
    <2> QED
      BY <1>1, <1>2, <2>1, <2>2, SettlingControl, LifeMoved
  <1>6. CASE RecvBarrier
    <2>1. /\ c \notin Closes /\ Head(channel).kind = "submit"
          /\ UNCHANGED <<lifecycle, hand, maintenanceActive>>
      BY <1>6, CallKinds DEF RecvBarrier, Receive
    <2>2. CASE ~Accepting
      <3>1. Reject(c) /\ UNCHANGED coordPc
        BY <1>6, <2>2 DEF RecvBarrier
      <3>2. Moved(c, "done", "StoreClosed")
        BY <1>2, <3>1 DEF Reject, Moved, TypeInv, TypeOK
      <3> QED
        BY <1>1, <1>2, <2>1, <2>2, <3>1, <3>2, RejectControl, LifeMoved DEF Accepting
    <2>3. CASE Accepting
      <3>1. Defer(c) /\ coordPc' = "advance" /\ UNCHANGED reply
        BY <1>6, <2>3 DEF RecvBarrier
      <3>2. Moved(c, "pending", reply[c])
        BY <1>2, <3>1 DEF Defer, Moved, TypeInv, TypeOK
      <3> QED
        BY <1>1, <1>2, <2>1, <2>3, <3>1, <3>2, DeferControl, LifeMoved DEF Accepting
    <2> QED
      BY <2>2, <2>3
  <1>7. CASE RecvMaintenanceCompletion
    <2>1. /\ c \in Maintenances /\ Head(channel).kind = "complete"
          /\ maintenanceActive' = FALSE /\ coordPc' = "advance"
          /\ UNCHANGED <<lifecycle, hand>>
      BY <1>7 DEF RecvMaintenanceCompletion, Receive
    <2>2. Moved(c, "done", IF reply[c] = "none" THEN "Ran" ELSE reply[c])
      BY <1>2, <1>7 DEF RecvMaintenanceCompletion, Deliver, Moved, TypeInv, TypeOK
    <2> QED
      BY <1>1, <1>2, <2>1, <2>2, MaintainedControl, LifeMoved
  <1>8. CASE RecvClose
    <2>1. /\ c \in Closes /\ Head(channel).kind = "submit" /\ coordPc' = "advance"
          /\ UNCHANGED <<hand, maintenanceActive>>
      BY <1>8 DEF RecvClose, Receive
    <2>2. CloseAnswer(lifecycle) = "none"
      BY <1>3 DEF CloseAnswer
    <2>3. lifecycle' = "Closing"
      BY <1>3, <1>8 DEF RecvClose
    <2>4. Moved(c, "pending", "none")
      BY <1>2, <1>8, <2>2 DEF RecvClose, Moved, TypeInv, TypeOK
    <2> QED
      BY <1>1, <1>2, <1>3, <2>1, <2>3, <2>4, ClosingControl, LifeMoved
  <1> QED
    BY <1>4, <1>5, <1>6, <1>7, <1>8

(* The steps of dispatching.                                               *)
LEMMA DispatchingControl ==
  ASSUME TypeInv, PlacementInv, ControlInv,
         DispatchIfIdle \/ DispatchAvailable \/ Settle
  PROVE  ControlInv' /\ Life
  <1>1. /\ coordPc \in {"dispatch", "redispatch", "available"} /\ hand \in Ops
        /\ UNCHANGED <<lifecycle, keyOf, result, ticket, maintenanceActive, panicked>>
    BY DEF DispatchIfIdle, DispatchAvailable, Settle, TypeInv, HandHeld
  <1>2. hand \in Calls /\ keyOf[hand] \in Keys
    BY <1>1, CallKinds DEF TypeInv, TypeOK
  <1>3. CASE DispatchIfIdle
    <2>1. \/ coordPc' = "available" /\ hand' = hand
          \/ coordPc = "redispatch" /\ coordPc' = "advance"
      BY <1>3 DEF DispatchIfIdle
    <2>2. CASE Dispatchable(keyOf[hand])
      <3>1. Dispatch(keyOf[hand])
        BY <1>3, <2>2 DEF DispatchIfIdle
      <3> QED
        BY <1>1, <1>2, <2>1, <2>2, <3>1, DispatchControl, DispatchLife
    <2>3. CASE ~Dispatchable(keyOf[hand])
      <3>1. NoneMoved
        BY <1>3, <2>3 DEF DispatchIfIdle, NoneMoved
      <3>2. coordPc = "redispatch" => \A d \in Calls : phase[d] # "settling"
        BY DEF ControlInv, KindInv
      <3> QED
        BY <1>1, <2>1, <3>1, <3>2, StillControl, LifeStill DEF Ending
    <2> QED
      BY <2>2, <2>3
  <1>4. CASE DispatchAvailable
    <2>1. coordPc' = "available" /\ hand' = hand
      BY <1>4 DEF DispatchAvailable
    <2>2. PICK k \in entries : Dispatchable(k) /\ Dispatch(k)
      BY <1>4 DEF DispatchAvailable
    <2>3. k \in Keys
      BY DEF TypeInv, TypeOK
    <2> QED
      BY <1>1, <2>1, <2>2, <2>3, DispatchControl, DispatchLife
  <1>5. CASE Settle
    <2>1. CASE phase[hand] = "settling"
      <3>1. coordPc = "available" /\ coordPc' = "advance"
        BY <1>5, <2>1 DEF Settle
      <3>2. Moved(hand, "done", IF reply[hand] = "none" THEN "Ran" ELSE reply[hand])
        BY <1>2, <1>5, <2>1 DEF Settle, Deliver, Moved, TypeInv, TypeOK
      <3> QED
        BY <1>1, <1>2, <2>1, <3>1, <3>2, DeliverControl, LifeMoved, CallKinds
    <2>2. CASE phase[hand] # "settling"
      <3>1. coordPc = "available" /\ coordPc' = "closecheck" /\ NoneMoved
        BY <1>5, <2>2 DEF Settle, NoneMoved
      <3>2. \A d \in Calls : phase[d] # "settling"
        BY <2>2 DEF ControlInv, KindInv
      <3> QED
        BY <1>1, <3>1, <3>2, StillControl, LifeStill DEF Ending
    <2> QED
      BY <2>1, <2>2
  <1> QED
    BY <1>3, <1>4, <1>5

(* The steps of advance_pending_if_ready.                                  *)
LEMMA AdvancingControl ==
  ASSUME TypeInv, PlacementInv, ControlInv,
         \/ AdvanceSubmission \/ AdvanceMaintenance \/ AdvanceFlush
         \/ AdvanceStop \/ CloseNotReady
  PROVE  ControlInv' /\ Life
  <1> DEFINE c == Head(pending)
  <1>1. /\ coordPc \in {"advance", "closecheck"}
        /\ UNCHANGED <<lifecycle, keyOf, result, ticket, panicked>>
    BY DEF AdvanceSubmission, AdvanceMaintenance, AdvanceFlush, AdvanceStop,
           CloseNotReady
  <1>2. ~panicked /\ \A d \in Calls : phase[d] # "settling"
    BY <1>1 DEF PlacementInv, ActiveInv, ControlInv, KindInv
  <1>3. CASE AdvanceSubmission
    <2>1. /\ c \in Ops /\ pending # <<>> /\ ~maintenanceActive
          /\ coordPc = "advance" /\ coordPc' = "redispatch"
          /\ Enqueue(c) /\ UNCHANGED <<reply, maintenanceActive>>
      BY <1>3 DEF AdvanceSubmission, FrontIn
    <2>2. c \in Calls /\ phase[c] = "pending"
      BY <2>1, PendingFront
    <2>3. Moved(c, "queued", reply[c])
      BY <2>1, <2>2 DEF Enqueue, Moved, TypeInv, TypeOK
    <2>4. \A d \in Calls : phase[d] = "sent" /\ d # c => ticket[c] < ticket[d]
      BY <2>2 DEF PlacementInv, OrderInv, Held
    <2> QED
      BY <1>1, <2>1, <2>2, <2>3, <2>4, EnqueueControl, LifeMoved
  <1>4. CASE AdvanceMaintenance
    <2>1. /\ c \in Maintenances /\ pending # <<>> /\ ~maintenanceActive /\ Quiet
          /\ coordPc = "advance" /\ coordPc' = "closecheck"
          /\ maintenanceActive' = TRUE /\ UNCHANGED hand
      BY <1>4 DEF AdvanceMaintenance, FrontIn
    <2>2. c \in Calls /\ phase[c] = "pending"
      BY <2>1, PendingFront
    <2>3. \A d \in Calls : phase[d] \notin InFlight \cup {"queued", "settling"}
      BY <1>2, <2>1, QuietCalls
    <2>4. \/ Moved(c, "dispatched", reply[c])
          \/ Moved(c, "completing", "WorkerUnavailable")
      BY <1>4, <2>2 DEF AdvanceMaintenance, Moved, TypeInv, TypeOK
    <2> QED
      BY <1>1, <2>1, <2>2, <2>3, <2>4, MaintainControl, LifeMoved
  <1>5. CASE AdvanceFlush
    <2>1. /\ c \in Flushes /\ pending # <<>> /\ coordPc = "advance"
          /\ UNCHANGED <<coordPc, hand, maintenanceActive>>
      BY <1>5 DEF AdvanceFlush, FrontIn
    <2>2. c \in Calls /\ phase[c] = "pending"
      BY <2>1, PendingFront
    <2>3. Moved(c, "done", "Ok")
      BY <1>5, <2>2 DEF AdvanceFlush, Moved, TypeInv, TypeOK
    <2> QED
      BY <1>1, <1>5, <2>1, <2>2, <2>3, FlushControl, LifeMoved
  <1>6. CASE AdvanceStop \/ CloseNotReady
    <2>1. /\ NoneMoved /\ coordPc' \in {"closecheck", "recv"}
          /\ UNCHANGED maintenanceActive
      BY <1>6 DEF AdvanceStop, CloseNotReady, NoneMoved
    <2> QED
      BY <1>1, <1>2, <2>1, StillControl, LifeStill DEF Ending
  <1> QED
    BY <1>3, <1>4, <1>5, <1>6

(* The steps of shutting down and of draining the channel.                 *)
LEMMA StoppingControl ==
  ASSUME TypeInv, PlacementInv, ControlInv, WorkInv,
         \/ Shutdown \/ NotifyClose \/ Drain \/ CoordinatorExit
         \/ CoordinatorDisconnected
  PROVE  ControlInv' /\ Life
  <1>1. CASE Shutdown
    BY <1>1, ShutdownControl DEF Shutdown, Life
  <1>2. CASE NotifyClose
    <2>1. /\ coordPc = "notify"
          /\ UNCHANGED <<lifecycle, channel, keyOf, result, ticket, hand, queues,
                         active, maintenanceActive, workers, panicked>>
      BY <1>2 DEF NotifyClose
    <2>2. CASE FrontIn(Closes)
      <3>1. /\ Head(pending) \in Closes /\ Head(pending) \in Calls
            /\ phase[Head(pending)] = "pending"
        BY <2>2, PendingFront DEF FrontIn
      <3>2. Moved(Head(pending), "done", CloseAnswer(lifecycle)) /\ UNCHANGED coordPc
        BY <1>2, <2>2, <3>1 DEF NotifyClose, Moved, TypeInv, TypeOK
      <3> QED
        BY <2>1, <3>1, <3>2, NotifyControl, LifeMoved, CallKinds DEF CloseAnswer
    <2>3. CASE ~FrontIn(Closes)
      <3>1. NoneMoved /\ coordPc' = "drain"
        BY <1>2, <2>3 DEF NotifyClose, NoneMoved
      <3> QED
        BY <2>1, <2>3, <3>1, NotifiedControl, LifeStill
    <2> QED
      BY <2>2, <2>3
  <1>3. CASE Drain
    <2> DEFINE c == Head(channel).call
    <2>1. /\ coordPc = "drain" /\ channel # <<>>
          /\ UNCHANGED <<lifecycle, keyOf, result, ticket, coordPc, hand, queues,
                         active, maintenanceActive, workers, panicked>>
      BY <1>3 DEF Drain, DrainOne
    <2>2. \A d \in Calls : phase[d] \notin InFlight
      BY <2>1 DEF PlacementInv, ActiveInv, ControlInv, EndInv, Ending
    <2>3. /\ c \in Calls /\ phase[c] = "sent" /\ Head(channel).kind # "complete"
          /\ \A d \in Calls : phase[d] = "sent" /\ d # c => ticket[c] < ticket[d]
      BY <2>1, <2>2, ChannelFront DEF InFlight
    <2>4. reply[c] = "none"
      BY <2>3 DEF ControlInv, ReplyInv
    <2>5. ClosedAnswer(c) = IF c \in Closes THEN CloseAnswer(lifecycle) ELSE "StoreClosed"
      BY <2>3 DEF ClosedAnswer
    <2>6. Moved(c, "done", IF c \in Closes THEN CloseAnswer(lifecycle) ELSE "StoreClosed")
      BY <1>3, <2>3, <2>4, <2>5 DEF Drain, DrainOne, Deliver, Moved, TypeInv, TypeOK
    <2> QED
      BY <2>1, <2>3, <2>6, DrainControl, LifeMoved, CallKinds DEF CloseAnswer
  <1>4. CASE CoordinatorExit
    <2>1. /\ coordPc = "drain" /\ coordPc' = "done" /\ channel = <<>> /\ NoneMoved
          /\ UNCHANGED <<lifecycle, channel, keyOf, result, ticket, hand, queues,
                         active, maintenanceActive, workers, panicked>>
      BY <1>4 DEF CoordinatorExit, NoneMoved
    <2> QED
      BY <2>1, ExitControl, LifeStill
  <1>5. CASE CoordinatorDisconnected
    BY <1>5, DisconnectedControl DEF CoordinatorDisconnected, Life
  <1> QED
    BY <1>1, <1>2, <1>3, <1>4, <1>5

(* The steps of a failing engine.                                          *)
LEMMA FailingControl ==
  ASSUME TypeInv, PlacementInv, ControlInv,
         PanicOnEvent \/ PanicOnFlush \/ PanicOnStopping \/ UnwindJoin \/ FailDrain
  PROVE  ControlInv' /\ Life
  <1>1. CASE PanicOnEvent
    <2>1. coordPc = "recv" /\ channel # <<>> /\ Unwind({Head(channel).call})
      BY <1>1 DEF PanicOnEvent
    <2> QED
      BY <2>1, ChannelFront, UnwindControl, UnwindLife
  <1>2. CASE PanicOnFlush
    <2>1. coordPc = "advance" /\ pending # <<>> /\ Unwind({Head(pending)})
      BY <1>2 DEF PanicOnFlush, FrontIn
    <2> QED
      BY <2>1, PendingFront, UnwindControl, UnwindLife
  <1>3. CASE PanicOnStopping
    BY <1>3, UnwindControl, UnwindLife DEF PanicOnStopping
  <1>4. CASE UnwindJoin
    BY <1>4, UnwindJoinControl DEF UnwindJoin, Life
  <1>5. CASE FailDrain
    <2>1. CASE channel # <<>>
      <3> DEFINE c == Head(channel).call
      <3>1. coordPc = "faildrain" /\ DrainOne(FailedAnswer(c))
        BY <1>5, <2>1 DEF FailDrain
      <3>2. UNCHANGED <<lifecycle, keyOf, result, ticket, coordPc, hand, queues,
                        active, maintenanceActive, workers, panicked>>
        BY <3>1 DEF DrainOne
      <3>3. /\ c \in Calls /\ phase[c] \in {"sent", "completing"}
            /\ \A d \in Calls : phase[c] = "sent" /\ phase[d] = "sent" /\ d # c
                 => ticket[c] < ticket[d]
        BY <2>1, ChannelFront
      <3>4. Moved(c, "done", IF reply[c] = "none" THEN FailedAnswer(c) ELSE reply[c])
        BY <3>1, <3>3 DEF DrainOne, Deliver, Moved, TypeInv, TypeOK
      <3> QED
        BY <3>1, <3>2, <3>3, <3>4, FailDrainControl, LifeMoved DEF FailedAnswer
    <2>2. CASE channel = <<>>
      <3>1. /\ coordPc = "faildrain" /\ coordPc' = "done" /\ NoneMoved
            /\ UNCHANGED <<lifecycle, channel, keyOf, result, ticket, hand, queues,
                           active, maintenanceActive, workers, panicked>>
        BY <1>5, <2>2 DEF FailDrain, NoneMoved
      <3> QED
        BY <2>2, <3>1, ExitControl, LifeStill
    <2> QED
      BY <2>1, <2>2
  <1> QED
    BY <1>1, <1>2, <1>3, <1>4, <1>5

(* What a call is refused with is not the answer of a job or of a flush.   *)
LEMMA RefusalAnswer ==
  ASSUME NEW c \in Calls
  PROVE  Refusal(c) # "Ran" /\ (c \in Flushes => Refusal(c) # "Ok")
  BY CallKinds DEF Refusal, OpenRefusal, CloseAnswer

(* The steps of callers.                                                   *)
LEMMA CallerControl ==
  ASSUME TypeInv, TypeInv', PlacementInv, ControlInv, NEW c \in Calls, Caller(c)
  PROVE  ControlInv' /\ Life
  <1>1. CASE EnsureOpen(c)
    <2>1. /\ phase[c] = "idle"
          /\ UNCHANGED <<lifecycle, channel, keyOf, result, ticket, coordPc, hand,
                         queues, active, maintenanceActive, workers, panicked>>
      BY <1>1 DEF EnsureOpen
    <2>2. \/ Moved(c, "admitting", "none")
          \/ Refusal(c) # "none" /\ Moved(c, "done", Refusal(c))
      BY <1>1 DEF EnsureOpen, Moved, TypeInv, TypeOK
    <2> QED
      BY <2>1, <2>2, ArriveControl, LifeMoved, RefusalAnswer
  <1>2. CASE Submit(c) /\ Refusal(c) # "none"
    <2>1. /\ phase[c] = "admitting"
          /\ UNCHANGED <<lifecycle, channel, keyOf, result, ticket, coordPc, hand,
                         queues, active, maintenanceActive, workers, panicked>>
      BY <1>2 DEF Submit
    <2>2. Moved(c, "done", Refusal(c))
      BY <1>2 DEF Submit, Moved, TypeInv, TypeOK
    <2> QED
      BY <1>2, <2>1, <2>2, ArriveControl, LifeMoved, RefusalAnswer
  <1>3. CASE Submit(c) /\ Refusal(c) = "none"
    <2>1. /\ phase[c] = "admitting"
          /\ UNCHANGED <<lifecycle, keyOf, result, coordPc, hand, queues, active,
                         maintenanceActive, workers, panicked>>
      BY <1>3 DEF Submit
    <2>2. Moved(c, "sent", "none")
      BY <1>3 DEF Submit, Moved, TypeInv, TypeOK
    <2> DEFINE n == Cardinality({d \in Calls : ticket[d] # 0})
    <2>3. /\ \A d \in Calls : d # c => ticket'[d] = ticket[d]
          /\ ticket'[c] = 1 + n
      BY <1>3 DEF Submit, TypeInv, TypeOK
    <2>4. n \in Nat
      BY FS_CardinalityType DEF TypeInv, FiniteLoad
    <2>5. \A d \in Calls : ticket[d] <= n /\ ticket[d] \in Nat
      BY CallTypes DEF PlacementInv, TicketInv
    <2> HIDE DEF n
    <2>6. ticket'[c] # 0 /\ \A d \in Calls : ticket[d] < ticket'[c]
      BY <2>3, <2>4, <2>5
    <2>7. ticket[c] = 0 /\ reply[c] = "none"
      BY <2>1 DEF PlacementInv, TicketInv, ControlInv, ReplyInv
    <2>8. Life
      BY <2>1, <2>2, <2>3, <2>6, <2>7 DEF Life, Moved
    <2> QED
      BY <1>3, <2>1, <2>2, <2>3, <2>6, <2>8, SendControl
  <1> QED
    BY <1>1, <1>2, <1>3 DEF Caller

(* In a store just opened no call is anywhere.                             *)
LEMMA InitControl == Init => ControlInv
  <1> SUFFICES ASSUME Init PROVE ControlInv
    OBVIOUS
  <1>1. \A c \in Calls : phase[c] = "idle" /\ reply[c] = "none" /\ ticket[c] = 0
    BY DEF Init
  <1>2. lifecycle = "Open" /\ coordPc = "recv" /\ ~maintenanceActive
    BY DEF Init
  <1>3. KindInv /\ ReplyInv /\ SentLast
    BY <1>1 DEF KindInv, ReplyInv, SentLast, InFlight
  <1>4. SettleInv /\ MaintenanceInv
    BY <1>1, <1>2, CallKinds DEF SettleInv, MaintenanceInv, InFlight
  <1>5. CutInv /\ CloseInv
    BY <1>1, <1>2, CallKinds DEF CutInv, CloseInv, Earlier, Sent
  <1>6. EndInv
    BY <1>2 DEF EndInv, Stopped, Ending
  <1>7. AnswerInv
    BY <1>1, CallKinds DEF AnswerInv
  <1> QED
    BY <1>3, <1>4, <1>5, <1>6, <1>7 DEF ControlInv

(* Every step keeps ControlInv; the one that needs WorkInv is the exit of  *)
(* a coordinator whose senders are all gone.                               *)
LEMMA NextControl ==
  ASSUME TypeInv, PlacementInv, ControlInv, WorkInv, [Next]_vars
  PROVE  ControlInv' /\ Life
  <1>0. TypeInv'
    BY NextTypeInv
  <1>1. CASE Coordinator
    BY <1>1, ReceiveControl, DispatchingControl, AdvancingControl, StoppingControl,
       FailingControl DEF Coordinator
  <1>2. ASSUME NEW c \in Ops \cup Maintenances, Worker(c) PROVE ControlInv' /\ Life
    BY <1>2, WorkerTakeControl, WorkerFinishControl, WorkerLife DEF Worker
  <1>3. ASSUME NEW c \in Calls, Caller(c) PROVE ControlInv' /\ Life
    BY <1>0, <1>3, CallerControl
  <1>4. ASSUME NEW c \in Closes, Closer(c) PROVE ControlInv' /\ Life
    BY <1>4, CloseWaitControl, CloseJoinControl, CloserLife DEF Closer
  <1>5. CASE DropHandles \/ UNCHANGED vars
    <2>1. UNCHANGED <<lifecycle, channel, keyOf, phase, reply, result, ticket,
                      coordPc, hand, queues, active, pending, maintenanceActive,
                      workers, panicked>>
      BY <1>5 DEF DropHandles, vars
    <2>2. KindInv' /\ ReplyInv' /\ SentLast' /\ SettleInv'
      BY <2>1 DEF ControlInv, KindInv, ReplyInv, SentLast, SettleInv
    <2>3. MaintenanceInv' /\ CutInv' /\ CloseInv'
      BY <2>1 DEF ControlInv, MaintenanceInv, CutInv, CloseInv, Earlier, Sent
    <2>4. EndInv' /\ AnswerInv'
      BY <2>1 DEF ControlInv, EndInv, AnswerInv
    <2>5. Life
      BY <2>1, LifeStill DEF NoneMoved
    <2> QED
      BY <2>2, <2>3, <2>4, <2>5 DEF ControlInv
  <1> QED
    BY <1>1, <1>2, <1>3, <1>4, <1>5 DEF Next, Terminated

-----------------------------------------------------------------------------
(* The second half: slots, workers, the registry and the deferred events.  *)

(* While no maintenance is in flight, each job has an active key of its    *)
(* own.                                                                    *)
LEMMA JobsFit ==
  ASSUME TypeInv, PlacementInv, ~panicked,
         \A m \in Maintenances : phase[m] \notin InFlight
  PROVE  IsFiniteSet(Jobs) /\ Cardinality(Jobs) <= Cardinality(active)
  <1> DEFINE f == [c \in Jobs |-> keyOf[c]]
  <1>1. \A c \in Jobs : c \in Ops /\ phase[c] \in InFlight
    BY DEF Jobs, InFlight
  <1>2. f \in [Jobs -> active]
    BY <1>1 DEF PlacementInv, ActiveInv
  <1>3. \A c, d \in Jobs : f[c] = f[d] => c = d
    BY <1>1 DEF PlacementInv, ActiveInv
  <1>4. f \in Injection(Jobs, active)
    BY <1>2, <1>3 DEF Injection, IsInjective
  <1>5. IsFiniteSet(active)
    BY DEF TypeInv, FiniteLoad
  <1> HIDE DEF f
  <1> QED
    BY <1>4, <1>5, FS_Injection

(* No new job, no worker lost.                                             *)
LEMMA JobsKeep ==
  ASSUME JobsCounted, TypeInv, TypeInv', workers <= workers',
         \A c \in Calls : phase'[c] \in {"dispatched", "running"}
                            => phase[c] \in {"dispatched", "running"}
  PROVE  JobsCounted'
  <1>1. Jobs' \in SUBSET Jobs
    BY CallKinds DEF Jobs
  <1>2. IsFiniteSet(Jobs') /\ Cardinality(Jobs') <= Cardinality(Jobs)
    BY <1>1, FS_Subset DEF JobsCounted
  <1>3. Cardinality(Jobs) \in Nat /\ Cardinality(Jobs') \in Nat
    BY <1>2, FS_CardinalityType DEF JobsCounted
  <1>4. workers \in Int /\ workers' \in Int
    BY MaxConcurrentAssumption DEF TypeInv, TypeOK
  <1> QED
    BY <1>2, <1>3, <1>4 DEF JobsCounted

(* The pool is joined only when there is no job.                           *)
LEMMA JobsOver ==
  ASSUME NoJobs, phase' = phase, workers' = 0
  PROVE  JobsCounted'
  <1>1. Jobs' = {}
    BY CallKinds DEF Jobs, NoJobs
  <1> QED
    BY <1>1, FS_EmptySet DEF JobsCounted

(* A step that leaves the schedule alone, and every job and settling       *)
(* operation where it counts.                                              *)
LEMMA ScheduleKeep ==
  ASSUME WorkInv, TypeInv, TypeInv', workers <= workers',
         UNCHANGED <<keyOf, queues, entries, active>>,
         \A c \in Calls :
           /\ phase[c] \in InFlight => phase'[c] \in InFlight \/ active = {}
           /\ phase[c] = "settling" => phase'[c] = "settling"
           /\ phase'[c] \in {"dispatched", "running"}
                => phase[c] \in {"dispatched", "running"}
  PROVE  ActiveBacked' /\ JobsCounted' /\ RegistryInv'
  <1>1. ActiveBacked'
    BY CallKinds DEF WorkInv, ActiveBacked
  <1>2. JobsCounted'
    BY JobsKeep DEF WorkInv
  <1>3. RegistryInv'
    BY CallKinds DEF WorkInv, RegistryInv
  <1> QED
    BY <1>1, <1>2, <1>3

(* A step beside the coordinator keeps WorkInv.                            *)
LEMMA BesideWork ==
  ASSUME WorkInv, TypeInv, TypeInv',
         UNCHANGED <<keyOf, coordPc, hand, queues, entries, active, pending,
                     maintenanceActive, workers>>,
         \A c \in Calls :
           /\ phase[c] \in InFlight <=> phase'[c] \in InFlight
           /\ phase[c] = "settling" <=> phase'[c] = "settling"
           /\ phase'[c] \in {"dispatched", "running"}
                => phase[c] \in {"dispatched", "running"}
  PROVE  WorkInv'
  <1>1. workers <= workers'
    BY MaxConcurrentAssumption DEF TypeInv, TypeOK
  <1>2. ActiveBacked' /\ JobsCounted' /\ RegistryInv'
    BY <1>1, ScheduleKeep
  <1>3. SlotInv'
    BY DEF WorkInv, SlotInv
  <1>4. DeferInv'
    <2>1. coordPc \in {"dispatch", "available"} => hand \in Calls
      BY CallKinds DEF TypeInv, HandHeld
    <2> QED
      BY <2>1, CallKinds DEF WorkInv, DeferInv, CloseReady, FrontIn, Quiet
  <1> QED
    BY <1>2, <1>3, <1>4 DEF WorkInv

(* The steps of callers and workers.                                       *)
LEMMA OutsideWork ==
  ASSUME TypeInv, TypeInv', WorkInv,
         \/ \E c \in Ops \cup Maintenances : Worker(c)
         \/ \E c \in Calls : Caller(c)
         \/ \E c \in Closes : Closer(c)
         \/ DropHandles
         \/ UNCHANGED vars
  PROVE  WorkInv'
  <1>1. UNCHANGED <<keyOf, coordPc, hand, queues, entries, active, pending,
                    maintenanceActive, workers>>
    BY DEF Worker, WorkerTake, WorkerFinish, Caller, EnsureOpen, Submit, Closer,
           CloseWait, CloseJoin, DropHandles, vars
  <1>2. \A c \in Calls :
          \/ phase'[c] = phase[c]
          \/ phase[c] \in {"idle", "admitting"} /\ phase'[c] \in {"admitting", "sent", "done"}
          \/ phase[c] \in {"done", "joining"} /\ phase'[c] \in {"joining", "returned"}
          \/ phase[c] = "dispatched" /\ phase'[c] = "running"
          \/ phase[c] = "running" /\ phase'[c] = "completing"
    <2>1. ASSUME NEW d \in Ops \cup Maintenances, Worker(d)
          PROVE  \A c \in Calls :
                   \/ phase'[c] = phase[c]
                   \/ phase[c] = "dispatched" /\ phase'[c] = "running"
                   \/ phase[c] = "running" /\ phase'[c] = "completing"
      BY <2>1 DEF Worker, WorkerTake, WorkerFinish, TypeInv, TypeOK
    <2>2. ASSUME NEW d \in Calls, Caller(d)
          PROVE  \A c \in Calls :
                   \/ phase'[c] = phase[c]
                   \/ /\ phase[c] \in {"idle", "admitting"}
                      /\ phase'[c] \in {"admitting", "sent", "done"}
      BY <2>2 DEF Caller, EnsureOpen, Submit, TypeInv, TypeOK
    <2>3. ASSUME NEW d \in Closes, Closer(d)
          PROVE  \A c \in Calls :
                   \/ phase'[c] = phase[c]
                   \/ /\ phase[c] \in {"done", "joining"}
                      /\ phase'[c] \in {"joining", "returned"}
      BY <2>3 DEF Closer, CloseWait, CloseJoin, TypeInv, TypeOK
    <2>4. CASE DropHandles \/ UNCHANGED vars
      BY <2>4 DEF DropHandles, vars
    <2> QED
      BY <2>1, <2>2, <2>3, <2>4
  <1> QED
    BY <1>1, <1>2, BesideWork DEF InFlight

(* What queueing an operation does to the queues and the registry.         *)
LEMMA EnqueueQueues ==
  ASSUME TypeInv, NEW c \in Ops, Enqueue(c)
  PROVE  /\ keyOf[c] \in Keys
         /\ queues'[keyOf[c]] # <<>>
         /\ queues[keyOf[c]] = <<>> => Len(queues'[keyOf[c]]) = 1
         /\ \A k \in Keys : k # keyOf[c] => queues'[k] = queues[k]
         /\ entries' = entries \cup {keyOf[c]}
  <1>1. /\ keyOf[c] \in Keys /\ queues[keyOf[c]] \in Seq(Ops)
        /\ queues'[keyOf[c]] = Append(queues[keyOf[c]], c)
        /\ \A k \in Keys : k # keyOf[c] => queues'[k] = queues[k]
        /\ entries' = entries \cup {keyOf[c]}
    BY DEF Enqueue, TypeInv, TypeOK
  <1>2. ASSUME NEW q \in Seq(Ops)
        PROVE  Append(q, c) # <<>> /\ (q = <<>> => Len(Append(q, c)) = 1)
    OBVIOUS
  <1> QED
    BY <1>1, <1>2

(* The first step of each event handler of run_scheduler.                  *)
LEMMA ReceiveWork ==
  ASSUME TypeInv, TypeInv', PlacementInv, ControlInv, WorkInv,
         \/ RecvSubmission \/ RecvCompletion \/ RecvBarrier
         \/ RecvMaintenanceCompletion \/ RecvClose
  PROVE  WorkInv'
  <1> DEFINE c == Head(channel).call
  <1>1. coordPc = "recv" /\ channel # <<>> /\ UNCHANGED <<keyOf, workers>>
    BY DEF RecvSubmission, RecvCompletion, RecvBarrier,
           RecvMaintenanceCompletion, RecvClose, Receive
  <1>2. /\ c \in Calls
        /\ Head(channel).kind = "submit" => phase[c] = "sent"
        /\ Head(channel).kind = "complete" => phase[c] = "completing"
    BY <1>1, ChannelFront
  <1>3. /\ \A d \in Calls : phase[d] # "settling"
        /\ workers <= workers'
    BY <1>1, MaxConcurrentAssumption DEF ControlInv, KindInv, TypeInv, TypeOK
  <1>4. ASSUME Head(channel).kind = "submit", NEW p \in {"done", "pending"},
               phase' = [phase EXCEPT ![c] = p],
               UNCHANGED <<queues, entries, active>>,
               coordPc' \in {"recv", "advance"},
               coordPc' = "recv" /\ pending' # <<>> => pending # <<>> \/ maintenanceActive
        PROVE  WorkInv'
    <2>1. phase[c] = "sent" /\ phase'[c] = p /\ \A d \in Calls : d # c => phase'[d] = phase[d]
      BY <1>2, <1>4 DEF TypeInv, TypeOK
    <2> HIDE DEF c
    <2>2. ActiveBacked' /\ JobsCounted' /\ RegistryInv'
      BY <1>1, <1>3, <1>4, <2>1, ScheduleKeep DEF InFlight
    <2>3. SlotInv'
      BY <1>1, <1>4 DEF WorkInv, SlotInv
    <2>4. DeferInv'
      <3>1. SUFFICES ASSUME coordPc' = "recv", pending' # <<>>
                     PROVE  \E d \in Ops \cup Maintenances : phase'[d] \in InFlight
        BY <1>4 DEF DeferInv
      <3>2. PICK d \in Ops \cup Maintenances : phase[d] \in InFlight
        BY <1>1, <1>4, <3>1 DEF WorkInv, DeferInv, ControlInv, MaintenanceInv
      <3> QED
        BY <2>1, <3>2, CallKinds DEF InFlight
    <2> QED
      BY <2>2, <2>3, <2>4 DEF WorkInv
  <1>5. CASE RecvSubmission
    <2>1. /\ c \in Ops /\ Head(channel).kind = "submit"
          /\ UNCHANGED active
      BY <1>5 DEF RecvSubmission, Receive
    <2>2. CASE ~Accepting
      BY <1>1, <1>4, <1>5, <2>1, <2>2 DEF RecvSubmission, Reject
    <2>3. CASE Accepting /\ MustDefer
      BY <1>1, <1>4, <1>5, <2>1, <2>3 DEF RecvSubmission, Defer, MustDefer
    <2>4. CASE Accepting /\ ~MustDefer
      <3>1. /\ Enqueue(c) /\ hand' = c /\ coordPc' = "dispatch"
            /\ pending' = <<>>
        BY <1>5, <2>4 DEF RecvSubmission, MustDefer
      <3>2. /\ phase[c] = "sent" /\ phase'[c] = "queued"
            /\ \A d \in Calls : d # c => phase'[d] = phase[d]
        BY <1>2, <2>1, <3>1 DEF Enqueue, TypeInv, TypeOK
      <3>3. /\ queues'[keyOf[c]] # <<>> /\ keyOf[c] \in Keys
            /\ \A k \in Keys : k # keyOf[c] => queues'[k] = queues[k]
            /\ entries' = entries \cup {keyOf[c]}
        BY <2>1, <3>1, EnqueueQueues
      <3> HIDE DEF c
      <3>4. ActiveBacked'
        BY <1>1, <2>1, <3>2, CallKinds DEF WorkInv, ActiveBacked, InFlight
      <3>5. JobsCounted'
        BY <1>3, <3>2, JobsKeep DEF WorkInv
      <3>6. RegistryInv'
        BY <1>1, <1>3, <2>1, <3>3, CallKinds DEF WorkInv, RegistryInv, TypeInv, TypeOK
      <3>7. SlotInv' /\ DeferInv'
        BY <3>1 DEF SlotInv, DeferInv
      <3> QED
        BY <3>4, <3>5, <3>6, <3>7 DEF WorkInv
    <2> QED
      BY <2>2, <2>3, <2>4
  <1>6. CASE RecvCompletion
    <2>1. /\ c \in Ops /\ Head(channel).kind = "complete"
          /\ active' = active \ {keyOf[c]} /\ hand' = c /\ coordPc' = "dispatch"
          /\ UNCHANGED <<queues, entries>>
      BY <1>6 DEF RecvCompletion, Receive
    <2>2. /\ phase[c] = "completing" /\ phase'[c] = "settling"
          /\ \A d \in Calls : d # c => phase'[d] = phase[d]
      BY <1>2, <1>6, <2>1 DEF RecvCompletion, TypeInv, TypeOK
    <2> HIDE DEF c
    <2>3. ActiveBacked'
      BY <1>1, <2>1, <2>2, CallKinds DEF WorkInv, ActiveBacked
    <2>4. JobsCounted'
      BY <1>3, <2>2, JobsKeep DEF WorkInv
    <2>5. RegistryInv'
      BY <1>1, <1>3, <2>1, <2>2, CallKinds DEF WorkInv, RegistryInv
    <2>6. SlotInv' /\ DeferInv'
      BY <2>1, <2>2 DEF SlotInv, DeferInv
    <2> QED
      BY <2>3, <2>4, <2>5, <2>6 DEF WorkInv
  <1>7. CASE RecvBarrier
    <2>1. Head(channel).kind = "submit" /\ UNCHANGED <<queues, entries, active>>
      BY <1>7 DEF RecvBarrier, Receive
    <2>2. CASE ~Accepting
      BY <1>1, <1>4, <1>7, <2>1, <2>2 DEF RecvBarrier, Reject
    <2>3. CASE Accepting
      BY <1>1, <1>4, <1>7, <2>1, <2>3 DEF RecvBarrier, Defer
    <2> QED
      BY <2>2, <2>3
  <1>8. CASE RecvMaintenanceCompletion
    <2>1. /\ c \in Maintenances /\ Head(channel).kind = "complete"
          /\ coordPc' = "advance" /\ UNCHANGED <<queues, entries, active>>
      BY <1>8 DEF RecvMaintenanceCompletion, Receive
    <2>2. /\ phase[c] = "completing" /\ phase'[c] = "done"
          /\ \A d \in Calls : d # c => phase'[d] = phase[d]
      BY <1>2, <1>8, <2>1 DEF RecvMaintenanceCompletion, TypeInv, TypeOK
    <2> HIDE DEF c
    <2>3. active = {}
      <3>1. \A d \in Ops : phase[d] \notin InFlight
        BY <2>1, <2>2, CallKinds DEF ControlInv, MaintenanceInv, InFlight
      <3> QED
        BY <3>1 DEF WorkInv, ActiveBacked
    <2>4. ActiveBacked' /\ JobsCounted' /\ RegistryInv'
      BY <1>1, <1>3, <2>1, <2>2, <2>3, ScheduleKeep
    <2>5. SlotInv'
      BY <1>1, <2>1 DEF WorkInv, SlotInv
    <2>6. DeferInv'
      BY <2>1 DEF DeferInv
    <2> QED
      BY <2>4, <2>5, <2>6 DEF WorkInv
  <1>9. CASE RecvClose
    <2>1. /\ Head(channel).kind = "submit" /\ coordPc' = "advance"
          /\ UNCHANGED <<queues, entries, active>>
      BY <1>9 DEF RecvClose, Receive
    <2>2. \E p \in {"done", "pending"} : phase' = [phase EXCEPT ![c] = p]
      BY <1>9 DEF RecvClose
    <2> QED
      BY <1>4, <2>1, <2>2
  <1> QED
    BY <1>5, <1>6, <1>7, <1>8, <1>9

(* The tail of a sequence of one element.                                  *)
LEMMA OneElement ==
  ASSUME NEW T, NEW q \in Seq(T), q # <<>>, Len(q) = 1
  PROVE  Tail(q) = <<>>
  <1>2. Tail(q) \in Seq(T) /\ Len(Tail(q)) = 0
    OBVIOUS
  <1>3. \A s \in Seq(T) : Len(s) = 0 => s = <<>>
    OBVIOUS
  <1> QED
    BY <1>2, <1>3

(* dispatch_if_idle takes an operation from the queue of an idle key.      *)
LEMMA DispatchSchedule ==
  ASSUME TypeInv, TypeInv', PlacementInv, ControlInv, WorkInv, NEW k \in Keys,
         Dispatchable(k), Dispatch(k),
         coordPc \in {"dispatch", "redispatch", "available"}, keyOf' = keyOf
  PROVE  /\ ActiveBacked' /\ JobsCounted' /\ RegistryInv'
         /\ \A d \in Calls : phase[d] = "settling" => phase'[d] = "settling"
         /\ \A d \in Keys : d # k => queues'[d] = queues[d]
         /\ active \subseteq active'
         /\ k \in active' \/ queues'[k] = Tail(queues[k])
  <1> DEFINE c == Head(queues[k])
             n == Cardinality(active) + 1
  <1>1. c \in Ops /\ c \in Calls /\ phase[c] = "queued" /\ keyOf[c] = k
    BY QueueFront, CallKinds DEF Dispatchable
  <1>2. PICK ok \in BOOLEAN :
          /\ queues' = [queues EXCEPT ![k] = Tail(@)]
          /\ workers' = PreparedWorkers(n, ok)
          /\ active' = IF ok THEN active \cup {k} ELSE active
          /\ entries' = IF ~ok /\ Tail(queues[k]) = <<>> THEN entries \ {k} ELSE entries
          /\ phase' = [phase EXCEPT ![c] = IF ok THEN "dispatched" ELSE "done"]
    BY DEF Dispatch, PrepareOutcomes
  <1>3. /\ queues'[k] = Tail(queues[k])
        /\ \A d \in Keys : d # k => queues'[d] = queues[d]
    BY <1>2 DEF TypeInv, TypeOK
  <1>4. /\ phase'[c] = IF ok THEN "dispatched" ELSE "done"
        /\ \A d \in Calls : d # c => phase'[d] = phase[d]
    BY <1>1, <1>2 DEF TypeInv, TypeOK
  <1>5. /\ n \in Nat /\ Cardinality(active) \in Nat
        /\ workers \in Nat /\ workers' \in Nat
        /\ workers <= workers' /\ (ok => n <= workers')
    <2>1. Cardinality(active) \in Nat
      BY FS_CardinalityType DEF TypeInv, FiniteLoad
    <2>2. workers \in Nat /\ workers' \in Nat
      BY MaxConcurrentAssumption DEF TypeInv, TypeOK
    <2> QED
      BY <1>2, <2>1, <2>2 DEF PreparedWorkers
  <1>6. ~panicked /\ \A m \in Maintenances : phase[m] \notin InFlight
    BY <1>1, CallKinds DEF PlacementInv, ActiveInv, ControlInv, MaintenanceInv, InFlight
  <1>7. k \in entries /\ k \notin active
    BY DEF Dispatchable, WorkInv, RegistryInv
  <1>8. IsFiniteSet(Jobs) /\ Cardinality(Jobs) <= Cardinality(active) /\ Cardinality(Jobs) \in Nat
    BY <1>6, JobsFit, FS_CardinalityType
  <1> HIDE DEF c, n
  <1>9. ActiveBacked'
    BY <1>1, <1>2, <1>4, CallKinds DEF WorkInv, ActiveBacked, InFlight
  <1>10. JobsCounted'
    <2>1. CASE ok
      <3>1. Jobs' = Jobs \cup {c}
        BY <1>1, <1>4, <2>1, CallKinds DEF Jobs
      <3>2. IsFiniteSet(Jobs') /\ Cardinality(Jobs') <= Cardinality(Jobs) + 1
        BY <1>8, <3>1, FS_AddElement
      <3>3. Cardinality(Jobs') \in Nat
        BY <3>2, FS_CardinalityType
      <3> QED
        BY <1>5, <1>8, <2>1, <3>2, <3>3 DEF JobsCounted, n
    <2>2. CASE ~ok
      BY <1>1, <1>4, <1>5, <2>2, JobsKeep DEF WorkInv
    <2> QED
      BY <2>1, <2>2
  <1>11. \A d \in Calls : phase[d] = "settling" => phase'[d] = "settling"
    BY <1>1, <1>4
  <1>12. RegistryInv'
    <2>1. active' \subseteq entries'
      BY <1>2, <1>7 DEF WorkInv, RegistryInv
    <2>2. \A d \in Keys : queues'[d] # <<>> => d \in entries'
      BY <1>2, <1>3, <1>7 DEF WorkInv, RegistryInv
    <2>3. ASSUME NEW d \in entries'
          PROVE  \/ d \in active' \/ queues'[d] # <<>>
                 \/ \E e \in Ops : phase'[e] = "settling" /\ d = keyOf'[e]
      <3>1. d \in entries /\ d \in Keys
        BY <1>2 DEF TypeInv, TypeOK
      <3>2. CASE d = k
        BY <1>2, <1>3, <2>3, <3>2
      <3>3. CASE d # k
        BY <1>2, <1>3, <1>11, <3>1, <3>3, CallKinds DEF WorkInv, RegistryInv
      <3> QED
        BY <3>2, <3>3
    <2> QED
      BY <2>1, <2>2, <2>3 DEF RegistryInv
  <1> QED
    BY <1>2, <1>3, <1>9, <1>10, <1>11, <1>12

(* The steps of dispatching.                                               *)
LEMMA DispatchingWork ==
  ASSUME TypeInv, TypeInv', PlacementInv, ControlInv, WorkInv,
         DispatchIfIdle \/ DispatchAvailable \/ Settle
  PROVE  WorkInv'
  <1>1. /\ coordPc \in {"dispatch", "redispatch", "available"} /\ hand \in Ops
        /\ UNCHANGED <<keyOf, pending>>
    BY DEF DispatchIfIdle, DispatchAvailable, Settle, TypeInv, HandHeld
  <1>2. hand \in Calls /\ keyOf[hand] \in Keys
    BY <1>1, CallKinds DEF TypeInv, TypeOK
  <1>3. CASE DispatchIfIdle
    <2>1. \/ coordPc = "dispatch" /\ coordPc' = "available" /\ hand' = hand
          \/ coordPc = "redispatch" /\ coordPc' = "advance"
      BY <1>3 DEF DispatchIfIdle
    <2>2. CASE Dispatchable(keyOf[hand])
      <3> DEFINE k == keyOf[hand]
      <3>1. Dispatch(k)
        BY <1>3, <2>2 DEF DispatchIfIdle
      <3>2. /\ ActiveBacked' /\ JobsCounted' /\ RegistryInv'
            /\ \A d \in Calls : phase[d] = "settling" => phase'[d] = "settling"
            /\ \A d \in Keys : d # k => queues'[d] = queues[d]
            /\ active \subseteq active'
            /\ k \in active' \/ queues'[k] = Tail(queues[k])
        BY <1>1, <1>2, <2>2, <3>1, DispatchSchedule
      <3>3. SlotInv'
        <4>1. CASE coordPc = "redispatch"
          <5>1. /\ k \notin active /\ queues[k] # <<>> /\ queues[k] \in Seq(Ops)
                /\ \A d \in Keys : queues[d] # <<>> => d \in active \/ (d = k /\ Len(queues[d]) = 1)
            BY <1>2, <2>2, <4>1 DEF Dispatchable, WorkInv, SlotInv, TypeInv, TypeOK
          <5>2. Len(queues[k]) = 1
            BY <1>2, <5>1
          <5>3. Tail(queues[k]) = <<>>
            BY <5>1, <5>2, OneElement
          <5>4. \A d \in Keys : queues'[d] # <<>> => d \in active'
            BY <3>2, <5>1, <5>3
          <5> QED
            BY <5>4 DEF SlotInv
        <4>2. CASE coordPc = "dispatch"
          BY <2>1, <4>2 DEF SlotInv
        <4> QED
          BY <2>1, <4>1, <4>2
      <3>4. DeferInv'
        BY <1>1, <1>2, <2>1, <3>2 DEF WorkInv, DeferInv
      <3> QED
        BY <3>2, <3>3, <3>4 DEF WorkInv
    <2>3. CASE ~Dispatchable(keyOf[hand])
      <3>1. UNCHANGED <<queues, entries, active, workers, phase>>
        BY <1>3, <2>3 DEF DispatchIfIdle
      <3>2. ActiveBacked' /\ JobsCounted' /\ RegistryInv'
        BY <1>1, <3>1 DEF WorkInv, ActiveBacked, JobsCounted, Jobs, RegistryInv
      <3>3. SlotInv'
        BY <1>1, <2>1, <2>3, <3>1 DEF WorkInv, SlotInv, Dispatchable
      <3>4. DeferInv'
        BY <1>1, <2>1, <3>1 DEF WorkInv, DeferInv
      <3> QED
        BY <3>2, <3>3, <3>4 DEF WorkInv
    <2> QED
      BY <2>2, <2>3
  <1>4. CASE DispatchAvailable
    <2>1. coordPc = "available" /\ coordPc' = "available" /\ hand' = hand
      BY <1>4 DEF DispatchAvailable
    <2>2. PICK k \in entries : Dispatchable(k) /\ Dispatch(k)
      BY <1>4 DEF DispatchAvailable
    <2>3. k \in Keys
      BY DEF TypeInv, TypeOK
    <2>4. /\ ActiveBacked' /\ JobsCounted' /\ RegistryInv'
          /\ \A d \in Calls : phase[d] = "settling" => phase'[d] = "settling"
      BY <1>1, <2>2, <2>3, DispatchSchedule
    <2>5. SlotInv' /\ DeferInv'
      BY <1>1, <1>2, <2>1, <2>4 DEF WorkInv, SlotInv, DeferInv
    <2> QED
      BY <2>4, <2>5 DEF WorkInv
  <1>5. CASE Settle
    <2>1. /\ coordPc = "available" /\ UNCHANGED <<queues, active, workers>>
          /\ ~\E k \in entries : Dispatchable(k)
      BY <1>5 DEF Settle
    <2>2. coordPc' \in {"advance", "closecheck"} => SlotInv'
      BY <2>1 DEF WorkInv, RegistryInv, SlotInv, Dispatchable
    <2>3. CASE phase[hand] = "settling"
      <3>1. /\ entries' = ForgetIfIdle(keyOf[hand]) /\ coordPc' = "advance"
            /\ phase'[hand] = "done" /\ \A d \in Calls : d # hand => phase'[d] = phase[d]
        BY <1>2, <1>5, <2>3 DEF Settle, TypeInv, TypeOK
      <3>2. \A d \in Calls : phase[d] = "settling" => d = hand
        BY <2>1 DEF ControlInv, KindInv
      <3>3. ActiveBacked'
        BY <1>1, <2>1, <2>3, <3>1, CallKinds DEF WorkInv, ActiveBacked, InFlight
      <3>4. JobsCounted'
        <4>1. workers <= workers'
          BY <2>1, MaxConcurrentAssumption DEF TypeInv, TypeOK
        <4> QED
          BY <1>2, <3>1, <4>1, JobsKeep DEF WorkInv
      <3>5. RegistryInv'
        BY <1>1, <1>2, <2>1, <3>1, <3>2, CallKinds DEF WorkInv, RegistryInv, ForgetIfIdle
      <3>6. DeferInv'
        BY <3>1 DEF DeferInv
      <3> QED
        BY <2>2, <3>1, <3>3, <3>4, <3>5, <3>6 DEF WorkInv
    <2>4. CASE phase[hand] # "settling"
      <3>1. coordPc' = "closecheck" /\ UNCHANGED <<entries, phase>>
        BY <1>5, <2>4 DEF Settle
      <3>2. ActiveBacked' /\ JobsCounted' /\ RegistryInv'
        BY <1>1, <2>1, <3>1 DEF WorkInv, ActiveBacked, JobsCounted, Jobs, RegistryInv
      <3>3. DeferInv'
        BY <1>1, <2>1, <2>4, <3>1 DEF WorkInv, DeferInv
      <3> QED
        BY <2>2, <3>1, <3>2, <3>3 DEF WorkInv
    <2> QED
      BY <2>3, <2>4
  <1> QED
    BY <1>3, <1>4, <1>5

(* The steps of advance_pending_if_ready.                                  *)
LEMMA AdvancingWork ==
  ASSUME TypeInv, TypeInv', PlacementInv, ControlInv, WorkInv,
         \/ AdvanceSubmission \/ AdvanceMaintenance \/ AdvanceFlush
         \/ AdvanceStop \/ CloseNotReady
  PROVE  WorkInv'
  <1> DEFINE c == Head(pending)
  <1>1. coordPc \in {"advance", "closecheck"} /\ UNCHANGED <<keyOf, active>>
    BY DEF AdvanceSubmission, AdvanceMaintenance, AdvanceFlush, AdvanceStop,
           CloseNotReady
  <1>2. ~panicked /\ \A d \in Calls : phase[d] # "settling"
    BY <1>1 DEF PlacementInv, ActiveInv, ControlInv, KindInv
  <1>3. CASE AdvanceSubmission
    <2>1. /\ c \in Ops /\ pending # <<>> /\ Enqueue(c) /\ hand' = c
          /\ coordPc = "advance" /\ coordPc' = "redispatch" /\ UNCHANGED workers
      BY <1>3 DEF AdvanceSubmission, FrontIn
    <2>2. c \in Calls /\ phase[c] = "pending"
      BY <2>1, PendingFront
    <2>3. phase'[c] = "queued" /\ \A d \in Calls : d # c => phase'[d] = phase[d]
      BY <2>1, <2>2 DEF Enqueue, TypeInv, TypeOK
    <2>4. /\ keyOf[c] \in Keys
          /\ queues'[keyOf[c]] # <<>>
          /\ queues[keyOf[c]] = <<>> => Len(queues'[keyOf[c]]) = 1
          /\ \A k \in Keys : k # keyOf[c] => queues'[k] = queues[k]
          /\ entries' = entries \cup {keyOf[c]}
      BY <2>1, EnqueueQueues
    <2> HIDE DEF c
    <2>5. ActiveBacked'
      BY <1>1, <2>2, <2>3, CallKinds DEF WorkInv, ActiveBacked, InFlight
    <2>6. JobsCounted'
      <3>1. workers <= workers'
        BY <2>1, MaxConcurrentAssumption DEF TypeInv, TypeOK
      <3> QED
        BY <2>2, <2>3, <3>1, JobsKeep DEF WorkInv
    <2>7. RegistryInv'
      BY <1>1, <1>2, <2>4, CallKinds DEF WorkInv, RegistryInv, TypeInv, TypeOK
    <2>8. SlotInv'
      BY <1>1, <2>1, <2>4 DEF WorkInv, SlotInv
    <2>9. DeferInv'
      BY <2>1 DEF DeferInv
    <2> QED
      BY <2>5, <2>6, <2>7, <2>8, <2>9 DEF WorkInv
  <1>4. CASE AdvanceMaintenance
    <2>1. /\ c \in Maintenances /\ pending # <<>> /\ ~maintenanceActive /\ Quiet
          /\ coordPc = "advance" /\ coordPc' = "closecheck"
          /\ UNCHANGED <<queues, entries>>
      BY <1>4 DEF AdvanceMaintenance, FrontIn
    <2>2. c \in Calls /\ phase[c] = "pending"
      BY <2>1, PendingFront
    <2>3. \A d \in Calls : phase[d] \notin InFlight \cup {"queued", "settling"}
      BY <1>2, <2>1, QuietCalls
    <2>4. PICK ok \in BOOLEAN :
            /\ workers' = PreparedWorkers(1, ok)
            /\ phase'[c] = IF ok THEN "dispatched" ELSE "completing"
            /\ \A d \in Calls : d # c => phase'[d] = phase[d]
      BY <1>4, <2>2 DEF AdvanceMaintenance, PrepareOutcomes, TypeInv, TypeOK
    <2> HIDE DEF c
    <2>5. ActiveBacked'
      BY <1>1, <2>1 DEF ActiveBacked, Quiet
    <2>6. JobsCounted'
      <3>1. Jobs' \subseteq {c} /\ (~ok => Jobs' = {})
        BY <2>3, <2>4, CallKinds DEF Jobs, InFlight
      <3>2. IsFiniteSet({c}) /\ Cardinality({c}) = 1
        BY FS_Singleton
      <3>3. /\ IsFiniteSet(Jobs') /\ Cardinality(Jobs') <= 1 /\ Cardinality(Jobs') \in Nat
        BY <3>1, <3>2, FS_Subset, FS_CardinalityType
      <3>4. workers \in Nat /\ workers' \in Nat
        BY MaxConcurrentAssumption DEF TypeInv, TypeOK
      <3>5. CASE ok
        BY <2>4, <3>3, <3>4, <3>5 DEF PreparedWorkers, JobsCounted
      <3>6. CASE ~ok
        BY <3>1, <3>4, <3>6, FS_EmptySet DEF JobsCounted
      <3> QED
        BY <3>5, <3>6
    <2>7. RegistryInv'
      BY <1>1, <1>2, <2>1, CallKinds DEF WorkInv, RegistryInv
    <2>8. SlotInv'
      BY <1>1, <2>1 DEF WorkInv, SlotInv
    <2>9. DeferInv'
      BY <2>1, <2>4 DEF DeferInv, InFlight
    <2> QED
      BY <2>5, <2>6, <2>7, <2>8, <2>9 DEF WorkInv
  <1>5. CASE AdvanceFlush
    <2>1. /\ pending # <<>> /\ coordPc = "advance" /\ coordPc' = "advance"
          /\ UNCHANGED <<queues, entries, workers>>
      BY <1>5 DEF AdvanceFlush, FrontIn
    <2>2. c \in Calls /\ phase[c] = "pending"
      BY <2>1, PendingFront
    <2>3. phase'[c] = "done" /\ \A d \in Calls : d # c => phase'[d] = phase[d]
      BY <1>5, <2>2 DEF AdvanceFlush, TypeInv, TypeOK
    <2>4. workers <= workers'
      BY <2>1, MaxConcurrentAssumption DEF TypeInv, TypeOK
    <2> HIDE DEF c
    <2>5. ActiveBacked' /\ JobsCounted' /\ RegistryInv'
      BY <1>1, <2>1, <2>2, <2>3, <2>4, ScheduleKeep DEF InFlight
    <2>6. SlotInv'
      BY <1>1, <2>1 DEF WorkInv, SlotInv
    <2>7. DeferInv'
      BY <2>1 DEF DeferInv
    <2> QED
      BY <2>5, <2>6, <2>7 DEF WorkInv
  <1>6. CASE AdvanceStop \/ CloseNotReady
    <2>1. UNCHANGED <<keyOf, phase, queues, entries, active, workers, pending, maintenanceActive>>
      BY <1>6 DEF AdvanceStop, CloseNotReady
    <2>2. ActiveBacked' /\ JobsCounted' /\ RegistryInv'
      BY <2>1 DEF WorkInv, ActiveBacked, JobsCounted, Jobs, RegistryInv
    <2>3. SlotInv'
      <3>1. coordPc' \in {"closecheck", "recv"}
        BY <1>6 DEF AdvanceStop, CloseNotReady
      <3> QED
        BY <1>1, <2>1, <3>1 DEF WorkInv, SlotInv
    <2>4. CASE CloseNotReady
      <3>1. coordPc = "closecheck" /\ ~CloseReady /\ coordPc' = "recv"
        BY <2>4 DEF CloseNotReady
      <3>2. DeferInv'
        BY <2>1, <3>1 DEF WorkInv, DeferInv
      <3> QED
        BY <2>2, <2>3, <3>2 DEF WorkInv
    <2>5. CASE AdvanceStop
      <3>1. coordPc = "advance" /\ ~CanAdvance /\ coordPc' = "closecheck"
        BY <2>5 DEF AdvanceStop
      <3>2. ASSUME pending # <<>>, ~CloseReady
            PROVE  \E d \in Ops \cup Maintenances : phase[d] \in InFlight
        <4>1. Head(pending) \in Calls
          BY <3>2, PendingFront
        <4>2. maintenanceActive \/ ~Quiet
          BY <3>1, <3>2, <4>1 DEF CanAdvance, FrontIn, CloseReady, Calls
        <4>3. CASE maintenanceActive
          BY <4>3 DEF ControlInv, MaintenanceInv
        <4>4. CASE active # {}
          BY <4>4 DEF WorkInv, ActiveBacked
        <4>5. CASE active = {} /\ ~Quiet
          <5>1. Cardinality(active) < MaxConcurrent
            BY <4>5, FS_EmptySet, MaxConcurrentAssumption
          <5> QED
            BY <3>1, <4>5, <5>1 DEF Quiet, WorkInv, SlotInv
        <4> QED
          BY <4>2, <4>3, <4>4, <4>5
      <3>3. CloseReady' = CloseReady
        BY <2>1 DEF CloseReady, FrontIn, Quiet
      <3>4. DeferInv'
        BY <2>1, <3>1, <3>2, <3>3 DEF DeferInv
      <3> QED
        BY <2>2, <2>3, <3>4 DEF WorkInv
    <2> QED
      BY <1>6, <2>4, <2>5
  <1> QED
    BY <1>3, <1>4, <1>5, <1>6

(* The steps of the end: nothing is active or queued any more.             *)
LEMMA EndingWork ==
  ASSUME TypeInv, TypeInv', PlacementInv, ControlInv, WorkInv,
         \/ Shutdown \/ NotifyClose \/ Drain \/ CoordinatorExit
         \/ CoordinatorDisconnected
         \/ PanicOnEvent \/ PanicOnFlush \/ PanicOnStopping \/ UnwindJoin \/ FailDrain
  PROVE  WorkInv'
  <1>1. coordPc' \in Ending
    BY DEF Shutdown, NotifyClose, Drain, CoordinatorExit, CoordinatorDisconnected,
           PanicOnEvent, PanicOnFlush, PanicOnStopping, UnwindJoin, FailDrain,
           Unwind, DrainOne, Ending
  <1>2. SlotInv' /\ DeferInv'
    BY <1>1 DEF SlotInv, DeferInv, Ending
  <1>3. CASE Shutdown \/ CoordinatorDisconnected \/ UnwindJoin
    <2>1. /\ NoJobs /\ workers' = 0
          /\ UNCHANGED <<keyOf, phase, queues, entries, active>>
      BY <1>3 DEF Shutdown, CoordinatorDisconnected, UnwindJoin
    <2>2. JobsCounted'
      BY <2>1, JobsOver
    <2>3. ActiveBacked' /\ RegistryInv'
      BY <2>1 DEF WorkInv, ActiveBacked, RegistryInv
    <2> QED
      BY <1>2, <2>2, <2>3 DEF WorkInv
  <1>4. CASE NotifyClose \/ Drain \/ CoordinatorExit \/ FailDrain
    <2>1. /\ coordPc \in Ending
          /\ UNCHANGED <<keyOf, queues, entries, active, workers>>
      BY <1>4 DEF NotifyClose, Drain, CoordinatorExit, FailDrain, DrainOne, Ending
    <2>2. active = {} /\ \A c \in Calls : phase[c] # "settling"
      BY <2>1 DEF ControlInv, EndInv, KindInv, Ending
    <2>3. \A c \in Calls : phase'[c] \in {phase[c], "done"}
      BY <1>4, ChannelFront, PendingFront
         DEF NotifyClose, Drain, CoordinatorExit, FailDrain, DrainOne, FrontIn, TypeInv, TypeOK
    <2>4. workers <= workers'
      BY <2>1, MaxConcurrentAssumption DEF TypeInv, TypeOK
    <2>5. ActiveBacked' /\ JobsCounted' /\ RegistryInv'
      BY <2>1, <2>2, <2>3, <2>4, ScheduleKeep
    <2> QED
      BY <1>2, <2>5 DEF WorkInv
  <1>5. CASE PanicOnEvent \/ PanicOnFlush \/ PanicOnStopping
    <2>1. /\ active' = {} /\ entries' = {} /\ workers' = workers
          /\ \A k \in Keys : queues'[k] = <<>>
          /\ \A c \in Calls : phase'[c] \in {phase[c], "done"}
      BY <1>5 DEF PanicOnEvent, PanicOnFlush, PanicOnStopping, Unwind
    <2>2. ActiveBacked' /\ RegistryInv'
      BY <2>1 DEF ActiveBacked, RegistryInv
    <2>3. JobsCounted'
      <3>1. workers <= workers'
        BY <2>1, MaxConcurrentAssumption DEF TypeInv, TypeOK
      <3> QED
        BY <2>1, <3>1, JobsKeep DEF WorkInv
    <2> QED
      BY <1>2, <2>2, <2>3 DEF WorkInv
  <1> QED
    BY <1>3, <1>4, <1>5

(* In a store just opened there is nothing to do.                          *)
LEMMA InitWork == Init => WorkInv
  <1> SUFFICES ASSUME Init PROVE WorkInv
    OBVIOUS
  <1>1. Jobs = {}
    BY CallKinds DEF Init, Jobs
  <1>2. JobsCounted
    BY <1>1, FS_EmptySet DEF Init, JobsCounted
  <1>3. ActiveBacked /\ RegistryInv
    BY DEF Init, ActiveBacked, RegistryInv
  <1>4. SlotInv /\ DeferInv
    BY DEF Init, SlotInv, DeferInv
  <1> QED
    BY <1>2, <1>3, <1>4 DEF WorkInv

(* Every step keeps WorkInv.                                               *)
LEMMA NextWork ==
  ASSUME TypeInv, PlacementInv, ControlInv, WorkInv, [Next]_vars
  PROVE  WorkInv'
  <1>0. TypeInv'
    BY NextTypeInv
  <1>1. CASE Coordinator
    BY <1>0, <1>1, ReceiveWork, DispatchingWork, AdvancingWork, EndingWork DEF Coordinator
  <1>2. CASE \/ \E c \in Ops \cup Maintenances : Worker(c)
             \/ \E c \in Calls : Caller(c)
             \/ \E c \in Closes : Closer(c)
             \/ DropHandles
             \/ UNCHANGED vars
    BY <1>0, <1>2, OutsideWork
  <1> QED
    BY <1>1, <1>2 DEF Next, Terminated

-----------------------------------------------------------------------------
(* What EngineInv says about the properties of the engine.                 *)

(* A stopped store is at the end of its coordinator.                       *)
LEMMA EngineStopped == TypeInv /\ EngineInv => StoppedIsQuiet
  <1> SUFFICES ASSUME TypeInv, EngineInv, lifecycle \in Stopped
               PROVE  StoppedIsQuiet
    BY DEF StoppedIsQuiet, Stopped
  <1>1. /\ coordPc \in Ending /\ workers = 0
        /\ \A c \in Calls : /\ phase[c] # "settling"
                            /\ phase[c] = "pending" => c \in Closes
    BY DEF EngineInv, ControlInv, EndInv, KindInv, Ending
  <1>3. \A c \in Calls : phase[c] \notin {"dispatched", "running"}
    <2>1. Jobs = {}
      <3>1. IsFiniteSet(Jobs) /\ Cardinality(Jobs) <= 0 /\ Cardinality(Jobs) \in Nat
        BY <1>1, FS_CardinalityType DEF EngineInv, WorkInv, JobsCounted
      <3> QED
        BY <3>1, FS_EmptySet
    <2> QED
      BY <2>1 DEF Jobs, EngineInv, ControlInv, KindInv, InFlight
  <1>2. \A c \in Calls : phase[c] # "queued"
    BY <1>1 DEF EngineInv, PlacementInv, QueueInv, ControlInv, EndInv, Ending,
                TypeInv, TypeOK
  <1> QED
    BY <1>1, <1>2, <1>3 DEF StoppedIsQuiet

(* What a call has left to do when the channel is empty and the            *)
(* coordinator gone.                                                       *)
LEMMA EngineLosesNothing == TypeInv /\ EngineInv => NoCallLost
  <1> SUFFICES ASSUME TypeInv, EngineInv, coordPc = "done"
               PROVE  NoCallLost
    BY DEF NoCallLost
  <1>1. lifecycle \in Stopped /\ channel = <<>>
    BY DEF EngineInv, ControlInv, EndInv, Ending
  <1>2. \A c \in Calls : phase[c] \notin {"sent", "completing"}
    BY <1>1 DEF EngineInv, PlacementInv, ChannelInv
  <1>3. \A c \in Calls : phase[c] # "queued"
    BY DEF EngineInv, PlacementInv, QueueInv, ControlInv, EndInv, Ending,
           TypeInv, TypeOK
  <1>4. \A c \in Calls : phase[c] \notin {"pending", "dispatched", "running", "settling"}
    BY DEF EngineInv, ControlInv, EndInv, KindInv, Ending
  <1>5. \A c \in Calls : Sent(c) => phase[c] \notin {"idle", "admitting"}
    BY DEF EngineInv, PlacementInv, TicketInv, Sent
  <1>6. \A c \in Calls : Sent(c) => phase[c] \in {"done", "joining", "returned"}
    BY <1>2, <1>3, <1>4, <1>5 DEF TypeInv, TypeOK, Phases
  <1>7. \A c \in Calls : Sent(c) => reply[c] # "none"
    BY <1>6 DEF EngineInv, ControlInv, ReplyInv
  <1> QED
    BY <1>1, <1>6, <1>7 DEF NoCallLost, Stopped

(* Maintenance is alone, and nothing stands between a call and its end     *)
(* that would let an earlier one wait or a later one start.                *)
LEMMA EngineBarrier == TypeInv /\ EngineInv => MaintenanceBarrier
  <1> SUFFICES ASSUME TypeInv, EngineInv, NEW m \in Maintenances,
                      phase[m] \in InFlight, NEW c \in (Ops \cup Maintenances) \ {m}
               PROVE  /\ phase[c] \notin InFlight
                      /\ Earlier(c, m) => phase[c] = "done"
                      /\ Earlier(m, c) => phase[c] \notin {"queued", "settling"}
                                          /\ reply[c] # "Ran"
    BY DEF MaintenanceBarrier
  <1>1. m \in Calls /\ c \in Calls /\ c \notin Closes
    BY CallKinds
  <1>2. phase[c] \notin InFlight \cup {"queued", "settling"}
    BY <1>1 DEF EngineInv, ControlInv, MaintenanceInv
  <1>3. ASSUME Earlier(c, m) PROVE phase[c] = "done"
    <2>1. ticket[c] # 0 /\ ticket[c] < ticket[m] /\ ticket[m] \in Nat /\ ticket[c] \in Nat
      BY <1>1, <1>3, CallTypes DEF Earlier, Sent
    <2>2. ~(ticket[m] < ticket[c])
      BY <2>1
    <2>3. phase[c] # "sent"
      BY <1>1, <2>2 DEF EngineInv, PlacementInv, OrderInv, Held, InFlight
    <2>4. phase[c] # "pending"
      BY <1>1, <2>2 DEF EngineInv, PlacementInv, OrderInv, Held, InFlight
    <2>5. phase[c] \notin {"idle", "admitting", "joining", "returned"}
      BY <1>1, <2>1 DEF EngineInv, PlacementInv, TicketInv
    <2> QED
      BY <1>1, <1>2, <2>3, <2>4, <2>5 DEF TypeInv, TypeOK, Phases, InFlight
  <1>4. Earlier(m, c) => reply[c] # "Ran"
    BY <1>1 DEF EngineInv, ControlInv, MaintenanceInv
  <1> QED
    BY <1>2, <1>3, <1>4

(* The close is the cut because the coordinator takes calls in order.      *)
LEMMA EngineCut == TypeInv /\ EngineInv => CloseCut
  BY DEF EngineInv, ControlInv, CutInv, CloseInv, CloseCut

(* Callers of close that have their answer have the lifecycle's.           *)
LEMMA EngineAgrees == TypeInv /\ EngineInv => CloseAgreement
  <1> SUFFICES ASSUME TypeInv, EngineInv, NEW c \in Closes, NEW d \in Closes,
                      phase[c] = "returned", phase[d] \in {"joining", "returned"},
                      ~panicked
               PROVE  result[c] = result[d] /\ result[c] \in {"Ok", "ShutdownFailure"}
    BY DEF CloseAgreement
  <1>1. reply[c] # "none" /\ reply[d] # "none"
    BY CallKinds DEF EngineInv, ControlInv, ReplyInv
  <1>2. /\ lifecycle \in Stopped
        /\ result[c] = CloseAnswer(lifecycle) /\ result[d] = CloseAnswer(lifecycle)
    BY <1>1 DEF EngineInv, ControlInv, AnswerInv
  <1>3. CloseAnswer(lifecycle) \in {"Ok", "ShutdownFailure"}
    BY <1>2 DEF CloseAnswer, Stopped
  <1> QED
    BY <1>2, <1>3

(* Every job is counted against the pool.                                  *)
LEMMA EngineServes == TypeInv /\ EngineInv => EveryJobHasAWorker
  BY MaxConcurrentAssumption
  DEF EngineInv, WorkInv, JobsCounted, EveryJobHasAWorker, TypeInv, TypeOK

(* Between events nothing waits without reason.                            *)
LEMMA EngineTidy == TypeInv /\ EngineInv => NothingLeftBehind
  <1> SUFFICES ASSUME TypeInv, EngineInv, coordPc = "recv"
               PROVE  NothingLeftBehind
    BY DEF NothingLeftBehind, WorkConserving, RegistryTight
  <1>1. WorkConserving
    BY DEF EngineInv, WorkInv, SlotInv, DeferInv, WorkConserving
  <1>2. \A c \in Ops : phase[c] # "settling"
    BY CallKinds DEF EngineInv, ControlInv, KindInv
  <1>3. /\ active \subseteq entries
        /\ \A k \in Keys : queues[k] # <<>> => k \in entries
        /\ \A k \in entries : k \in active \/ queues[k] # <<>>
    BY <1>2 DEF EngineInv, WorkInv, RegistryInv
  <1>4. entries = active \cup {k \in Keys : queues[k] # <<>>}
    BY <1>3 DEF TypeInv, TypeOK
  <1> QED
    BY <1>1, <1>4 DEF NothingLeftBehind, RegistryTight

-----------------------------------------------------------------------------
(* The two properties about answers that EngineInv does not contain; they  *)
(* are kept by what Life says of a step.                                   *)

(* When a flush is answered, everything before it is done.                 *)
LEMMA FlushTurn ==
  ASSUME TypeInv, EngineInv, AdvanceFlush, NEW c \in Calls,
         Earlier(c, Head(pending))
  PROVE  phase[c] = "done"
  <1> DEFINE f == Head(pending)
  <1>1. /\ coordPc = "advance" /\ ~maintenanceActive /\ Quiet
        /\ pending # <<>> /\ f \in Flushes
    BY DEF AdvanceFlush, FrontIn
  <1>2. /\ f \in Calls /\ phase[f] = "pending"
        /\ \A d \in Calls : phase[d] = "pending" /\ d # f => ticket[f] < ticket[d]
    BY <1>1, PendingFront DEF EngineInv
  <1>3. ticket[c] # 0 /\ ticket[c] < ticket[f] /\ ticket[f] \in Nat /\ ticket[c] \in Nat
    BY <1>2, CallTypes DEF Earlier, Sent
  <1>4. ~(ticket[f] < ticket[c]) /\ c # f
    BY <1>3
  <1>5. ~panicked
    BY <1>1 DEF EngineInv, PlacementInv, ActiveInv
  <1>6. phase[c] \notin InFlight \cup {"queued", "settling"}
    BY <1>1, <1>5, QuietCalls DEF EngineInv
  <1>7. phase[c] \notin {"sent", "pending"}
    BY <1>2, <1>4 DEF EngineInv, PlacementInv, OrderInv, Held
  <1>8. phase[c] \notin {"idle", "admitting"}
    BY <1>3 DEF EngineInv, PlacementInv, TicketInv
  <1>9. c \notin Closes
    <2>1. f \notin Closes
      BY <1>1, CallKinds
    <2> QED
      BY <1>2, <2>1 DEF EngineInv, ControlInv, CutInv
  <1>10. phase[c] \notin {"joining", "returned"}
    BY <1>9 DEF EngineInv, PlacementInv, TicketInv
  <1> QED
    BY <1>6, <1>7, <1>8, <1>10 DEF TypeInv, TypeOK, Phases, InFlight

(* A step keeps FlushBarrier.                                              *)
LEMMA NextFlush ==
  ASSUME TypeInv, TypeInv', EngineInv, FlushBarrier, Life
  PROVE  FlushBarrier'
  <1> SUFFICES ASSUME NEW f \in Flushes, reply'[f] = "Ok", NEW c \in Calls,
                      ticket'[c] # 0, ticket'[c] < ticket'[f]
               PROVE  phase'[c] = "done" /\ reply'[c] # "none"
    BY DEF FlushBarrier, Earlier, Sent
  <1>1. f \in Calls /\ f \notin Closes
    BY CallKinds
  <1>2. \A d \in Calls : ticket[d] \in Nat /\ ticket'[d] \in Nat
    BY DEF TypeInv, TypeOK
  <1>3. ticket'[f] = ticket[f]
    <2>1. CASE reply[f] = "Ok"
      BY <1>1, <2>1 DEF Life
    <2>2. CASE reply[f] # "Ok"
      <3>1. AdvanceFlush
        BY <1>1, <2>2 DEF Life
      <3> QED
        BY <3>1 DEF AdvanceFlush
    <2> QED
      BY <2>1, <2>2
  <1>4. ticket'[c] = ticket[c]
    <2>1. ticket'[c] # ticket[c] => ticket[f] < ticket'[c]
      BY <1>1 DEF Life
    <2> QED
      BY <1>1, <1>2, <1>3, <2>1
  <1>5. Earlier(c, f)
    BY <1>3, <1>4 DEF Earlier, Sent
  <1>6. phase[c] = "done" /\ c \notin Closes
    <2>1. CASE reply[f] = "Ok"
      BY <1>1, <1>5, <2>1 DEF FlushBarrier, EngineInv, ControlInv, CutInv
    <2>2. CASE reply[f] # "Ok"
      <3>1. AdvanceFlush /\ f = Head(pending)
        BY <1>1, <2>2 DEF Life
      <3>2. phase[f] = "pending"
        BY <3>1, PendingFront DEF EngineInv, AdvanceFlush, FrontIn
      <3>3. c \notin Closes
        BY <1>1, <1>5, <3>2 DEF EngineInv, ControlInv, CutInv
      <3> QED
        BY <1>5, <3>1, <3>3, FlushTurn
    <2> QED
      BY <2>1, <2>2
  <1>7. reply[c] # "none"
    BY <1>6 DEF EngineInv, ControlInv, ReplyInv
  <1> QED
    BY <1>6, <1>7 DEF Life

(* No step changes the key of an operation.                                *)
LEMMA NextKeyOf == [Next]_vars => keyOf' = keyOf
  <1> SUFFICES ASSUME [Next]_vars PROVE keyOf' = keyOf
    OBVIOUS
  <1>1. CASE \/ RecvSubmission \/ RecvCompletion \/ RecvBarrier
             \/ RecvMaintenanceCompletion \/ RecvClose
    BY <1>1 DEF RecvSubmission, RecvCompletion, RecvBarrier,
                RecvMaintenanceCompletion, RecvClose, Receive
  <1>2. CASE \/ DispatchIfIdle \/ DispatchAvailable \/ Settle
             \/ AdvanceSubmission \/ AdvanceMaintenance \/ AdvanceFlush \/ AdvanceStop
    BY <1>2 DEF DispatchIfIdle, DispatchAvailable, Settle, AdvanceSubmission,
                AdvanceMaintenance, AdvanceFlush, AdvanceStop
  <1>3. CASE \/ CloseNotReady \/ Shutdown \/ NotifyClose \/ Drain \/ CoordinatorExit
             \/ CoordinatorDisconnected
    BY <1>3 DEF CloseNotReady, Shutdown, NotifyClose, Drain, DrainOne,
                CoordinatorExit, CoordinatorDisconnected
  <1>4. CASE PanicOnEvent \/ PanicOnFlush \/ PanicOnStopping \/ UnwindJoin \/ FailDrain
    BY <1>4 DEF PanicOnEvent, PanicOnFlush, PanicOnStopping, Unwind, UnwindJoin,
                FailDrain, DrainOne
  <1>5. CASE \/ \E c \in Ops \cup Maintenances : Worker(c)
             \/ \E c \in Calls : Caller(c)
             \/ \E c \in Closes : Closer(c)
    BY <1>5 DEF Worker, WorkerTake, WorkerFinish, Caller, EnsureOpen, Submit,
                Closer, CloseWait, CloseJoin
  <1>6. CASE DropHandles \/ UNCHANGED vars
    BY <1>6 DEF DropHandles, vars
  <1> QED
    BY <1>1, <1>2, <1>3, <1>4, <1>5, <1>6 DEF Next, Coordinator, Terminated

(* When an operation settles, the ones before it on its key are answered.  *)
LEMMA SettleTurn ==
  ASSUME TypeInv, EngineInv, NEW c \in Ops, NEW d \in Ops, keyOf[c] = keyOf[d],
         Earlier(c, d), phase[d] = "settling"
  PROVE  reply[c] # "none"
  <1>1. c \in Calls /\ d \in Calls /\ c \notin Closes
    BY CallKinds
  <1>2. ticket[c] # 0 /\ ~(ticket[d] < ticket[c]) /\ c # d
    BY <1>1, CallTypes DEF Earlier, Sent
  <1>3. phase[c] \notin {"sent", "pending"}
    BY <1>1, <1>2 DEF EngineInv, PlacementInv, OrderInv, Held
  <1>4. phase[c] \notin InFlight \cup {"queued"}
    BY <1>2 DEF EngineInv, ControlInv, SettleInv
  <1>5. phase[c] # "settling"
    BY <1>1, <1>2 DEF EngineInv, ControlInv, KindInv
  <1>6. phase[c] \notin {"idle", "admitting", "joining", "returned"}
    BY <1>1, <1>2 DEF EngineInv, PlacementInv, TicketInv
  <1>7. phase[c] = "done"
    BY <1>1, <1>3, <1>4, <1>5, <1>6 DEF TypeInv, TypeOK, Phases, InFlight
  <1> QED
    BY <1>1, <1>7 DEF EngineInv, ControlInv, ReplyInv

(* A step keeps SameKeyAnswerOrder.                                        *)
LEMMA NextAnswerOrder ==
  ASSUME TypeInv, TypeInv', EngineInv, SameKeyAnswerOrder, Life, keyOf' = keyOf
  PROVE  SameKeyAnswerOrder'
  <1> SUFFICES ASSUME NEW c \in Ops, NEW d \in Ops, keyOf[c] = keyOf[d],
                      reply'[d] = "Ran", ticket'[c] # 0, ticket'[c] < ticket'[d]
               PROVE  reply'[c] # "none"
    BY DEF SameKeyAnswerOrder, Earlier, Sent
  <1>1. c \in Calls /\ d \in Calls /\ d \notin Maintenances
    BY CallKinds
  <1>2. \A e \in Calls : ticket[e] \in Nat /\ ticket'[e] \in Nat
    BY DEF TypeInv, TypeOK
  <1>3. reply[d] = "Ran" \/ phase[d] = "settling"
    BY <1>1 DEF Life
  <1>4. ticket'[d] = ticket[d]
    <2>1. ticket[d] # 0
      BY <1>1, <1>3 DEF EngineInv, PlacementInv, TicketInv, Held, ControlInv, ReplyInv
    <2> QED
      BY <1>1, <2>1 DEF Life
  <1>5. ticket'[c] = ticket[c]
    <2>1. ticket'[c] # ticket[c] => ticket[d] < ticket'[c]
      BY <1>1 DEF Life
    <2> QED
      BY <1>1, <1>2, <1>4, <2>1
  <1>6. Earlier(c, d)
    BY <1>4, <1>5 DEF Earlier, Sent
  <1>7. reply[c] # "none"
    BY <1>3, <1>6, SettleTurn DEF SameKeyAnswerOrder
  <1> QED
    BY <1>1, <1>7 DEF Life

-----------------------------------------------------------------------------
(* The inductive invariant of the whole engine.                            *)
Whole == TypeInv /\ EngineInv /\ FlushBarrier /\ SameKeyAnswerOrder

(* A store just opened satisfies it.                                       *)
LEMMA InitWhole == Init => Whole
  <1>1. Init => FlushBarrier /\ SameKeyAnswerOrder
    BY CallKinds DEF Init, FlushBarrier, SameKeyAnswerOrder
  <1> QED
    BY <1>1, InitTypeInv, InitPlacement, InitControl, InitWork DEF Whole, EngineInv

(* Every step keeps it and treats every call as Life says.                 *)
LEMMA NextWhole == Whole /\ [Next]_vars => Whole' /\ Life
  <1> SUFFICES ASSUME Whole, [Next]_vars PROVE Whole' /\ Life
    OBVIOUS
  <1>1. TypeInv'
    BY NextTypeInv DEF Whole
  <1>2. PlacementInv' /\ WorkInv'
    BY NextPlacement, NextWork DEF Whole, EngineInv
  <1>3. ControlInv' /\ Life
    BY NextControl DEF Whole, EngineInv
  <1>4. FlushBarrier'
    BY <1>1, <1>3, NextFlush DEF Whole
  <1>5. SameKeyAnswerOrder'
    BY <1>1, <1>3, NextKeyOf, NextAnswerOrder DEF Whole
  <1> QED
    BY <1>1, <1>2, <1>3, <1>4, <1>5 DEF Whole, EngineInv

(* The engine keeps the whole of its inductive invariant: where calls are, *)
(* what the coordinator knows, and what the pool and the registry hold.    *)
THEOREM EngineCorrect == Spec => []EngineInv
  <1>1. Whole => EngineInv
    BY DEF Whole
  <1> QED
    BY <1>1, InitWhole, NextWhole, PTL DEF Spec

(* A store that says it stopped has no worker and no work left: the        *)
(* coordinator writes the lifecycle after joining the workers.             *)
THEOREM StoppedIsQuietCorrect == Spec => []StoppedIsQuiet
  <1>1. Whole => StoppedIsQuiet
    BY EngineStopped DEF Whole
  <1> QED
    BY <1>1, InitWhole, NextWhole, PTL DEF Spec

(* A coordinator that exits leaves no call behind: it drains the channel   *)
(* after the lifecycle refuses new senders.                                *)
THEOREM NoCallLostCorrect == Spec => []NoCallLost
  <1>1. Whole => NoCallLost
    BY EngineLosesNothing DEF Whole
  <1> QED
    BY <1>1, InitWhole, NextWhole, PTL DEF Spec

(* Maintenance runs alone, after all that was submitted before it and      *)
(* before all that was submitted after it.                                 *)
THEOREM MaintenanceBarrierCorrect == Spec => []MaintenanceBarrier
  <1>1. Whole => MaintenanceBarrier
    BY EngineBarrier DEF Whole
  <1> QED
    BY <1>1, InitWhole, NextWhole, PTL DEF Spec

(* The first close cuts the order: nothing before it is refused, nothing   *)
(* behind it runs.                                                         *)
THEOREM CloseCutCorrect == Spec => []CloseCut
  <1>1. Whole => CloseCut
    BY EngineCut DEF Whole
  <1> QED
    BY <1>1, InitWhole, NextWhole, PTL DEF Spec

(* All the callers of close are told the outcome of the one shutdown.      *)
THEOREM CloseAgreementCorrect == Spec => []CloseAgreement
  <1>1. Whole => CloseAgreement
    BY EngineAgrees DEF Whole
  <1> QED
    BY <1>1, InitWhole, NextWhole, PTL DEF Spec

(* A job that was handed over never waits for another one's worker, and    *)
(* the pool stays within max_concurrent_operations.                        *)
THEOREM EveryJobHasAWorkerCorrect == Spec => []EveryJobHasAWorker
  <1>1. Whole => EveryJobHasAWorker
    BY EngineServes DEF Whole
  <1> QED
    BY <1>1, InitWhole, NextWhole, PTL DEF Spec

(* Between events no slot, deferred event or registry entry is left behind *)
(* by whatever path the last handler took.                                 *)
THEOREM NothingLeftBehindCorrect == Spec => []NothingLeftBehind
  <1>1. Whole => NothingLeftBehind
    BY EngineTidy DEF Whole
  <1> QED
    BY <1>1, InitWhole, NextWhole, PTL DEF Spec

(* flush answers Ok only when all that was submitted before it is answered.*)
THEOREM FlushBarrierCorrect == Spec => []FlushBarrier
  <1>1. Whole => FlushBarrier
    BY DEF Whole
  <1> QED
    BY <1>1, InitWhole, NextWhole, PTL DEF Spec

(* The results of one key are delivered in submission order.               *)
THEOREM SameKeyAnswerOrderCorrect == Spec => []SameKeyAnswerOrder
  <1>1. Whole => SameKeyAnswerOrder
    BY DEF Whole
  <1> QED
    BY <1>1, InitWhole, NextWhole, PTL DEF Spec

(* A reply channel is used once: no step changes an answer that was given, *)
(* whichever of the coordinator, a worker or the unwinding gave it, and no *)
(* operation, maintenance or flush that is done comes back to life.        *)
AnsweredOnce ==
  \A c \in Calls :
    /\ reply[c] # "none" => reply'[c] = reply[c]
    /\ phase[c] = "done" /\ c \notin Closes => phase'[c] = "done"

(* Every step of the engine is AnsweredOnce.                               *)
THEOREM AnsweredOnceCorrect == Spec => [][AnsweredOnce]_vars
  <1>1. Whole /\ [Next]_vars => [AnsweredOnce]_vars
    BY NextWhole DEF Life, AnsweredOnce
  <1> QED
    BY <1>1, InitWhole, NextWhole, PTL DEF Spec

-----------------------------------------------------------------------------
(* The engine implements the contract.                                     *)

(* The stage of a call in phase p whose reply channel holds r.             *)
StageOf(p, r) ==
  IF r # "none" THEN "answered"
  ELSE CASE p \in {"idle", "admitting"}      -> "new"
         [] p \in {"dispatched", "running"}  -> "executing"
         [] p \in {"completing", "settling"} -> "executed"
         [] OTHER                            -> "accepted"

(* A step of the engine as the contract sees it.                           *)
ContractStep == [Contract!CNext]_(Contract!cvars)

(* Engine and contract have the same calls and the same final gates.       *)
LEMMA SameSets == Contract!Calls = Calls /\ Contract!Stopped = Stopped
  BY DEF Contract!Calls, Calls, Contract!Stopped, Stopped

(* The contract's instance of FiniteSets counts as the engine's does.      *)
LEMMA SameCardinality == \A S : Contract!Cardinality(S) = Cardinality(S)
  BY DEF Contract!Cardinality, Cardinality

(* What StageOf is for each phase.                                         *)
LEMMA Stages ==
  ASSUME NEW p \in Phases, NEW r \in Replies
  PROVE  /\ r # "none" <=> StageOf(p, r) = "answered"
         /\ r = "none" /\ p \in {"idle", "admitting"} <=> StageOf(p, r) = "new"
         /\ r = "none" /\ p \in {"dispatched", "running"} <=> StageOf(p, r) = "executing"
         /\ r = "none" /\ p \in {"completing", "settling"} <=> StageOf(p, r) = "executed"
         /\ r = "none" /\ p \in {"sent", "pending", "queued", "done", "joining", "returned"}
              <=> StageOf(p, r) = "accepted"
  <1>1. CASE r # "none"
    BY <1>1 DEF StageOf
  <1>2. CASE r = "none" /\ p \in {"idle", "admitting"}
    BY <1>2 DEF StageOf
  <1>3. CASE r = "none" /\ p \in {"dispatched", "running"}
    BY <1>3 DEF StageOf
  <1>4. CASE r = "none" /\ p \in {"completing", "settling"}
    BY <1>4 DEF StageOf
  <1>5. CASE r = "none" /\ p \in {"sent", "pending", "queued", "done", "joining", "returned"}
    BY <1>5 DEF StageOf
  <1> QED
    BY <1>1, <1>2, <1>3, <1>4, <1>5 DEF Phases

(* The mapping, call by call.                                              *)
LEMMA StageMap ==
  ASSUME TypeInv
  PROVE  \A c \in Calls :
           /\ ContractStage[c] = StageOf(phase[c], reply[c])
           /\ phase[c] \in Phases /\ reply[c] \in Replies
  BY DEF ContractStage, StageOf, TypeInv, TypeOK

(* The mapping after a step.                                               *)
LEMMA StageMapNext ==
  ASSUME TypeInv'
  PROVE  /\ ContractStage' = [c \in Calls |-> StageOf(phase'[c], reply'[c])]
         /\ \A c \in Calls : phase'[c] \in Phases /\ reply'[c] \in Replies
  <1>1. ContractStage' = [c \in Calls |-> StageOf(phase'[c], reply'[c])]
    BY DEF ContractStage, StageOf
  <1> QED
    BY <1>1 DEF TypeInv, TypeOK

(* A step is invisible when it gives no answer and changes no stage.       *)
LEMMA Unseen ==
  ASSUME TypeInv, TypeInv',
         \A c \in Calls : /\ reply'[c] = reply[c]
                          /\ StageOf(phase'[c], reply[c]) = StageOf(phase[c], reply[c]),
         UNCHANGED <<lifecycle, keyOf, ticket, panicked>>
  PROVE  ContractStep
  <1>1. ContractStage' = ContractStage
    <2>1. ContractStage = [c \in Calls |-> StageOf(phase[c], reply[c])]
      BY DEF ContractStage, StageOf
    <2>2. ContractStage' = [c \in Calls |-> StageOf(phase'[c], reply'[c])]
      BY StageMapNext
    <2> QED
      BY <2>1, <2>2
  <1>2. reply' = reply
    BY DEF TypeInv, TypeOK
  <1> QED
    BY <1>1, <1>2 DEF ContractStep, Contract!cvars

(* A call moves without an answer and without leaving its stage.           *)
LEMMA UnseenMove ==
  ASSUME TypeInv, TypeInv', NEW c \in Calls, NEW q, Moved(c, q, reply[c]),
         \/ reply[c] # "none"
         \/ phase[c] = "idle" /\ q = "admitting"
         \/ phase[c] \in {"sent", "pending"} /\ q \in {"pending", "queued"}
         \/ phase[c] = "dispatched" /\ q = "running"
         \/ phase[c] = "completing" /\ q = "settling",
         UNCHANGED <<lifecycle, keyOf, ticket, panicked>>
  PROVE  ContractStep
  <1>1. ASSUME NEW d \in Calls
        PROVE  /\ reply'[d] = reply[d]
               /\ StageOf(phase'[d], reply[d]) = StageOf(phase[d], reply[d])
    <2>1. /\ phase[d] \in Phases /\ phase'[d] \in Phases /\ reply[d] \in Replies
          /\ reply'[d] = reply[d] /\ (d = c => phase'[d] = q) /\ (d # c => phase'[d] = phase[d])
      BY StageMap, StageMapNext DEF Moved
    <2>2. CASE d = c
      BY <2>1, <2>2, Stages
    <2> QED
      BY <2>1, <2>2
  <1> QED
    BY <1>1, Unseen

(* No call moves.                                                          *)
LEMMA UnseenStill ==
  ASSUME TypeInv, TypeInv', NoneMoved, UNCHANGED <<lifecycle, keyOf, ticket, panicked>>
  PROVE  ContractStep
  BY Unseen DEF NoneMoved

(* What the mapping of a call shows after it got its answer.               *)
LEMMA AnswerStep ==
  ASSUME TypeInv, TypeInv', NEW c \in Calls, NEW q, NEW r, Moved(c, q, r), r # "none"
  PROVE  /\ ContractStage' =
              [d \in Calls |-> IF d \in {c} THEN "answered" ELSE ContractStage[d]]
         /\ reply' = [d \in Calls |-> IF d \in {c} THEN r ELSE reply[d]]
  <1>1. ASSUME NEW d \in Calls
        PROVE  StageOf(phase'[d], reply'[d]) =
                 IF d \in {c} THEN "answered" ELSE ContractStage[d]
    <2>1. CASE d = c
      BY <2>1 DEF Moved, StageOf
    <2>2. CASE d # c
      BY <2>2, StageMap DEF Moved
    <2> QED
      BY <2>1, <2>2
  <1>2. reply' = [d \in Calls |-> IF d \in {c} THEN r ELSE reply[d]]
    BY DEF Moved, TypeInv, TypeOK
  <1> QED
    BY <1>1, <1>2, StageMapNext

(* What it shows after the call moved without an answer.                   *)
LEMMA MoveStep ==
  ASSUME TypeInv, TypeInv', NEW c \in Calls, NEW q \in Phases, reply[c] = "none",
         Moved(c, q, "none")
  PROVE  /\ ContractStage' = [ContractStage EXCEPT ![c] = StageOf(q, "none")]
         /\ reply' = reply
  <1>1. ASSUME NEW d \in Calls
        PROVE  StageOf(phase'[d], reply'[d]) =
                 IF d = c THEN StageOf(q, "none") ELSE ContractStage[d]
    <2>1. CASE d = c
      BY <2>1 DEF Moved
    <2>2. CASE d # c
      BY <2>2, StageMap DEF Moved
    <2> QED
      BY <2>1, <2>2
  <1>2. reply' = reply
    BY DEF Moved, TypeInv, TypeOK
  <1>3. ContractStage \in [Calls -> {"answered", "new", "executing", "executed", "accepted"}]
    BY DEF ContractStage
  <1>4. ContractStage' = [d \in Calls |-> StageOf(phase'[d], reply'[d])]
    BY StageMapNext
  <1> QED
    BY <1>1, <1>2, <1>3, <1>4

(* The contract's steps about one call.                                    *)
LEMMA CallStep ==
  ASSUME NEW c \in Calls,
         \/ Contract!Accept(c) \/ Contract!Refuse(c) \/ Contract!Start(c)
         \/ Contract!Finish(c) \/ Contract!Return(c) \/ Contract!Flush(c)
         \/ Contract!Cut(c) \/ Contract!Fail(c)
  PROVE  ContractStep
  BY SameSets DEF ContractStep, Contract!CNext

-----------------------------------------------------------------------------
(* Callers and workers.                                                    *)

(* A refused call.                                                         *)
LEMMA RefuseStep ==
  ASSUME TypeInv, TypeInv', NEW c \in Calls, phase[c] \in {"idle", "admitting"},
         reply[c] = "none", Refusal(c) # "none", Moved(c, "done", Refusal(c)),
         UNCHANGED <<lifecycle, keyOf, ticket, panicked>>
  PROVE  ContractStep
  <1>1. ContractStage[c] = "new"
    BY StageMap, Stages
  <1>2. /\ ContractStage' =
             [d \in Calls |-> IF d \in {c} THEN "answered" ELSE ContractStage[d]]
        /\ reply' = [d \in Calls |-> IF d \in {c} THEN Refusal(c) ELSE reply[d]]
    BY AnswerStep
  <1>3. lifecycle \in Lifecycles
    BY DEF TypeInv, TypeOK
  <1>4. /\ Refusal(c) = IF c \in Closes
                          THEN IF lifecycle = "Closed" THEN "Ok" ELSE "ShutdownFailure"
                          ELSE IF lifecycle = "Failed" THEN "EngineFailed" ELSE "StoreClosed"
        /\ lifecycle \in Stopped \cup (IF c \in Closes THEN {} ELSE {"Closing"})
    BY <1>3 DEF Refusal, CloseAnswer, OpenRefusal, Stopped, Lifecycles
  <1>5. Contract!Refuse(c)
    BY <1>1, <1>2, <1>4, SameSets DEF Contract!Refuse, Contract!Answered
  <1> QED
    BY <1>5, CallStep

(* A call that is sent.                                                    *)
LEMMA AcceptStep ==
  ASSUME TypeInv, TypeInv', NEW c \in Calls, phase[c] = "admitting",
         reply[c] = "none", Refusal(c) = "none", Moved(c, "sent", "none"),
         ticket' = [ticket EXCEPT ![c] = 1 + Cardinality({d \in Calls : ticket[d] # 0})],
         UNCHANGED <<lifecycle, keyOf, panicked>>
  PROVE  ContractStep
  <1>1. ContractStage[c] = "new"
    BY StageMap, Stages
  <1>2. /\ ContractStage' = [ContractStage EXCEPT ![c] = "accepted"]
        /\ reply' = reply
    BY MoveStep, Stages DEF Phases, Replies
  <1>3. lifecycle = "Open" \/ (c \in Closes /\ lifecycle = "Closing")
    BY DEF Refusal, CloseAnswer, OpenRefusal, TypeInv, TypeOK, Lifecycles
  <1>4. Contract!Accept(c)
    BY <1>1, <1>2, <1>3, SameCardinality DEF Contract!Accept, Contract!Calls, Calls
  <1> QED
    BY <1>4, CallStep

(* The steps of callers.                                                   *)
LEMMA CallerStep ==
  ASSUME TypeInv, TypeInv', EngineInv, NEW c \in Calls, Caller(c)
  PROVE  ContractStep
  <1>1. CASE EnsureOpen(c)
    <2>1. phase[c] = "idle" /\ UNCHANGED <<lifecycle, keyOf, ticket, panicked>>
      BY <1>1 DEF EnsureOpen
    <2>2. reply[c] = "none"
      BY <2>1 DEF EngineInv, ControlInv, ReplyInv
    <2>3. \/ Moved(c, "admitting", reply[c])
          \/ Refusal(c) # "none" /\ Moved(c, "done", Refusal(c))
      BY <1>1, <2>2 DEF EnsureOpen, Moved, TypeInv, TypeOK
    <2> QED
      BY <2>1, <2>2, <2>3, UnseenMove, RefuseStep
  <1>2. CASE Submit(c) /\ Refusal(c) # "none"
    <2>1. phase[c] = "admitting" /\ UNCHANGED <<lifecycle, keyOf, ticket, panicked>>
      BY <1>2 DEF Submit
    <2>2. reply[c] = "none"
      BY <2>1 DEF EngineInv, ControlInv, ReplyInv
    <2>3. Moved(c, "done", Refusal(c))
      BY <1>2 DEF Submit, Moved, TypeInv, TypeOK
    <2> QED
      BY <1>2, <2>1, <2>2, <2>3, RefuseStep
  <1>3. CASE Submit(c) /\ Refusal(c) = "none"
    <2>1. /\ phase[c] = "admitting" /\ UNCHANGED <<lifecycle, keyOf, panicked>>
          /\ ticket' = [ticket EXCEPT ![c] = 1 + Cardinality({d \in Calls : ticket[d] # 0})]
      BY <1>3 DEF Submit
    <2>2. reply[c] = "none"
      BY <2>1 DEF EngineInv, ControlInv, ReplyInv
    <2>3. Moved(c, "sent", "none")
      BY <1>3 DEF Submit, Moved, TypeInv, TypeOK
    <2> QED
      BY <1>3, <2>1, <2>2, <2>3, AcceptStep
  <1> QED
    BY <1>1, <1>2, <1>3 DEF Caller

(* A call gets the answer of its job, or of the lack of one.               *)
LEMMA ReturnStep ==
  ASSUME TypeInv, TypeInv', NEW c \in Ops \cup Maintenances, NEW q, NEW r,
         reply[c] = "none", Moved(c, q, r),
         \/ phase[c] \in {"completing", "settling"} /\ r = "Ran"
         \/ phase[c] \in {"dispatched", "running"} /\ r = "Dropped"
         \/ Contract!Turn(c) /\ r = "WorkerUnavailable",
         UNCHANGED <<lifecycle, keyOf, ticket, panicked>>
  PROVE  ContractStep
  <1>1. c \in Calls
    BY CallKinds
  <1>2. \/ ContractStage[c] = "executed" /\ r = "Ran"
        \/ ContractStage[c] = "executing" /\ r = "Dropped"
        \/ Contract!Turn(c) /\ ContractStage[c] = "accepted" /\ r = "WorkerUnavailable"
    BY <1>1, StageMap, Stages DEF Contract!Turn
  <1>3. /\ ContractStage' =
             [d \in Calls |-> IF d \in {c} THEN "answered" ELSE ContractStage[d]]
        /\ reply' = [d \in Calls |-> IF d \in {c} THEN r ELSE reply[d]]
    BY <1>1, <1>2, AnswerStep
  <1>4. Contract!Return(c)
    BY <1>2, <1>3, SameSets DEF Contract!Return, Contract!Answered
  <1> QED
    BY <1>1, <1>4, CallStep

(* The steps of workers.                                                   *)
LEMMA WorkerStep ==
  ASSUME TypeInv, TypeInv', EngineInv, NEW c \in Ops \cup Maintenances, Worker(c)
  PROVE  ContractStep
  <1>1. c \in Calls
    BY CallKinds
  <1>2. UNCHANGED <<lifecycle, keyOf, ticket, panicked>>
    BY DEF Worker, WorkerTake, WorkerFinish
  <1>3. CASE WorkerTake(c)
    <2>1. phase[c] = "dispatched" /\ Moved(c, "running", reply[c])
      BY <1>1, <1>3 DEF WorkerTake, Moved, TypeInv, TypeOK
    <2> QED
      BY <1>1, <1>2, <2>1, UnseenMove
  <1>4. CASE WorkerFinish(c, TRUE)
    <2>1. phase[c] = "running"
      BY <1>4 DEF WorkerFinish
    <2>2. reply[c] = "none"
      BY <1>1, <2>1 DEF EngineInv, ControlInv, ReplyInv
    <2>3. Moved(c, "completing", "none")
      BY <1>1, <1>4, <2>2 DEF WorkerFinish, Moved, TypeInv, TypeOK
    <2>4. ContractStage[c] = "executing"
      BY <1>1, <2>1, <2>2, StageMap, Stages
    <2>5. ContractStage' = [ContractStage EXCEPT ![c] = "executed"] /\ reply' = reply
      BY <1>1, <2>2, <2>3, MoveStep, Stages DEF Phases, Replies
    <2>6. Contract!Finish(c)
      BY <1>2, <2>4, <2>5 DEF Contract!Finish
    <2> QED
      BY <1>1, <2>6, CallStep
  <1>5. CASE WorkerFinish(c, FALSE)
    <2>1. phase[c] = "running"
      BY <1>5 DEF WorkerFinish
    <2>2. reply[c] = "none"
      BY <1>1, <2>1 DEF EngineInv, ControlInv, ReplyInv
    <2>3. Moved(c, "completing", "Dropped")
      BY <1>1, <1>5, <2>2 DEF WorkerFinish, Moved, TypeInv, TypeOK
    <2> QED
      BY <1>2, <2>1, <2>2, <2>3, ReturnStep
  <1> QED
    BY <1>3, <1>4, <1>5 DEF Worker

(* A caller of close that has its answer.                                  *)
LEMMA CloserStep ==
  ASSUME TypeInv, TypeInv', EngineInv, NEW c \in Closes, Closer(c)
  PROVE  ContractStep
  <1>1. c \in Calls
    BY CallKinds
  <1>2. UNCHANGED <<lifecycle, keyOf, reply, ticket, panicked>>
    BY DEF Closer, CloseWait, CloseJoin
  <1>3. phase[c] \in {"done", "joining"}
    BY DEF Closer, CloseWait, CloseJoin
  <1>4. Moved(c, "joining", reply[c]) \/ Moved(c, "returned", reply[c])
    BY <1>1 DEF Closer, CloseWait, CloseJoin, Moved, TypeInv, TypeOK
  <1>5. reply[c] # "none"
    BY <1>1, <1>3 DEF EngineInv, ControlInv, ReplyInv
  <1> QED
    BY <1>1, <1>2, <1>4, <1>5, UnseenMove

-----------------------------------------------------------------------------
(* Whose turn it is.                                                       *)

(* A call is in a state from which the contract knows where it stands.     *)
LEMMA TurnStep ==
  ASSUME TypeInv, EngineInv, NEW c \in Calls, c \notin Closes,
         phase[c] \in {"pending", "queued"}, ~panicked, coordPc \notin Ending,
         \A d \in Calls : Earlier(d, c) /\ d \notin Closes =>
           \/ phase[d] \in {"completing", "settling", "done"}
           \/ c \in Ops /\ d \in Ops /\ keyOf[c] # keyOf[d]
  PROVE  Contract!Turn(c)
  <1>1. reply[c] = "none"
    BY DEF EngineInv, ControlInv, ReplyInv
  <1>2. ContractStage[c] = "accepted"
    BY <1>1, StageMap, Stages
  <1>3. lifecycle \notin Stopped
    BY DEF EngineInv, ControlInv, EndInv
  <1>4. \A d \in Contract!Ahead(c) : d \in Calls /\ Earlier(d, c)
    BY SameSets DEF Contract!Ahead, Earlier, Sent
  <1>5. Contract!Ahead(c) \cap Closes = {}
    BY <1>4 DEF EngineInv, ControlInv, CutInv
  <1>6. ASSUME NEW d \in Contract!Ahead(c)
        PROVE  \/ Contract!Finished(d)
               \/ c \in Ops /\ d \in Ops /\ keyOf[c] # keyOf[d]
    <2>1. d \in Calls /\ d \notin Closes /\ Earlier(d, c)
      BY <1>4, <1>5
    <2>2. CASE phase[d] \in {"completing", "settling", "done"}
      <3>1. phase[d] = "done" => reply[d] # "none"
        BY <2>1 DEF EngineInv, ControlInv, ReplyInv
      <3>2. ContractStage[d] \in {"executed", "answered"}
        BY <2>1, <2>2, <3>1, StageMap, Stages
      <3> QED
        BY <3>2 DEF Contract!Finished
    <2> QED
      BY <2>1, <2>2
  <1> QED
    BY <1>2, <1>3, <1>5, <1>6, SameSets DEF Contract!Turn

(* The head of the queue of an idle key.                                   *)
LEMMA QueueTurn ==
  ASSUME TypeInv, EngineInv, NEW k \in Keys, Dispatchable(k),
         coordPc \in {"dispatch", "redispatch", "available"}
  PROVE  Contract!Turn(Head(queues[k]))
  <1> DEFINE c == Head(queues[k])
             q == queues[k]
  <1>1. c \in Ops /\ phase[c] = "queued" /\ keyOf[c] = k /\ k \notin active /\ q # <<>>
    BY QueueFront DEF Dispatchable, EngineInv
  <1>2. c \in Calls /\ c \notin Closes
    BY <1>1, CallKinds
  <1>3. ~panicked
    BY DEF EngineInv, PlacementInv, ActiveInv
  <1>4. q \in Seq(Ops)
    BY DEF TypeInv, TypeOK
  <1>5. Len(q) \in Nat \ {0} /\ c = q[1]
    <2> HIDE DEF q
    <2>1. c = Head(q)
      BY DEF q
    <2> QED
      BY <1>1, <1>4, <2>1, TailElements
  <1>6. \A d \in Ops : phase[d] = "queued" /\ keyOf[d] = k /\ d # c => ticket[c] < ticket[d]
    <2> SUFFICES ASSUME NEW d \in Ops, phase[d] = "queued", keyOf[d] = k, d # c
                 PROVE  ticket[c] < ticket[d]
      OBVIOUS
    <2>1. PICK i \in 1..Len(q) : q[i] = d
      BY CallKinds DEF EngineInv, PlacementInv, QueueInv
    <2>2. 1 \in 1..Len(q) /\ 1 < i
      BY <1>5, <2>1
    <2>3. \A j, l \in 1..Len(q) : j < l => ticket[q[j]] < ticket[q[l]]
      BY DEF EngineInv, PlacementInv, QueueInv
    <2> QED
      BY <1>5, <2>1, <2>2, <2>3
  <1>7. ASSUME NEW d \in Calls, Earlier(d, c), d \notin Closes
        PROVE  \/ phase[d] \in {"completing", "settling", "done"}
               \/ c \in Ops /\ d \in Ops /\ keyOf[c] # keyOf[d]
    <2>1. ticket[d] # 0 /\ ~(ticket[c] < ticket[d]) /\ d # c
      BY <1>2, <1>7, CallTypes DEF Earlier, Sent
    <2>2. phase[d] \notin {"sent", "pending"}
      BY <1>1, <1>2, <2>1 DEF EngineInv, PlacementInv, OrderInv, Held
    <2>3. phase[d] \notin {"idle", "admitting", "joining", "returned"}
      BY <1>7, <2>1 DEF EngineInv, PlacementInv, TicketInv
    <2>4. phase[d] \in {"dispatched", "running"} => d \in Ops /\ keyOf[d] # k
      BY <1>1, <1>2, <1>3, <2>1
      DEF EngineInv, PlacementInv, ActiveInv, ControlInv, KindInv, MaintenanceInv, InFlight
    <2>5. phase[d] = "queued" => d \in Ops /\ keyOf[d] # k
      BY <1>6, <2>1 DEF EngineInv, PlacementInv, QueueInv
    <2> QED
      BY <1>1, <2>2, <2>3, <2>4, <2>5 DEF TypeInv, TypeOK, Phases
  <1> QED
    BY <1>1, <1>2, <1>3, <1>7, TurnStep DEF Ending

(* The front of pending, when no operation is queued or on a worker.       *)
LEMMA PendingTurn ==
  ASSUME TypeInv, EngineInv, coordPc = "advance", Quiet, ~maintenanceActive,
         pending # <<>>, Head(pending) \notin Closes
  PROVE  Contract!Turn(Head(pending))
  <1> DEFINE c == Head(pending)
  <1>1. /\ c \in Calls /\ phase[c] = "pending"
        /\ \A d \in Calls : phase[d] = "pending" /\ d # c => ticket[c] < ticket[d]
    BY PendingFront DEF EngineInv
  <1>2. ~panicked
    BY DEF EngineInv, PlacementInv, ActiveInv
  <1>3. \A d \in Calls : phase[d] \notin InFlight \cup {"queued", "settling"}
    BY <1>2, QuietCalls DEF EngineInv
  <1>4. ASSUME NEW d \in Calls, Earlier(d, c), d \notin Closes
        PROVE  phase[d] = "done"
    <2>1. ticket[d] # 0 /\ ~(ticket[c] < ticket[d]) /\ d # c
      BY <1>1, <1>4, CallTypes DEF Earlier, Sent
    <2>2. phase[d] \notin {"sent", "pending"}
      BY <1>1, <2>1 DEF EngineInv, PlacementInv, OrderInv, Held
    <2>3. phase[d] \notin {"idle", "admitting", "joining", "returned"}
      BY <1>4, <2>1 DEF EngineInv, PlacementInv, TicketInv
    <2> QED
      BY <1>3, <2>2, <2>3 DEF TypeInv, TypeOK, Phases, InFlight
  <1> QED
    BY <1>1, <1>2, <1>4, TurnStep DEF Ending

(* The contract's executing calls are the jobs handed over.                *)
LEMMA ExecutingJobs ==
  ASSUME TypeInv, EngineInv
  PROVE  Contract!Executing = Jobs
  <1>1. ASSUME NEW c \in Calls
        PROVE  ContractStage[c] = "executing" <=> phase[c] \in {"dispatched", "running"}
    <2>1. phase[c] \in {"dispatched", "running"} => reply[c] = "none"
      BY DEF EngineInv, ControlInv, ReplyInv
    <2> QED
      BY <2>1, StageMap, Stages
  <1>2. \A c \in Calls : phase[c] \in {"dispatched", "running"} => c \in Ops \cup Maintenances
    BY DEF EngineInv, ControlInv, KindInv, InFlight
  <1> QED
    BY <1>1, <1>2, SameSets, CallKinds DEF Contract!Executing, Jobs

(* A call's job is handed to the workers.                                  *)
LEMMA StartStep ==
  ASSUME TypeInv, TypeInv', NEW c \in Calls, reply[c] = "none",
         Moved(c, "dispatched", "none"), Contract!Turn(c),
         Cardinality(Contract!Executing) < MaxConcurrent,
         c \in Maintenances => Contract!Executing = {},
         UNCHANGED <<lifecycle, keyOf, ticket, panicked>>
  PROVE  ContractStep
  <1>1. ContractStage' = [ContractStage EXCEPT ![c] = "executing"] /\ reply' = reply
    BY MoveStep, Stages DEF Phases, Replies
  <1>2. Contract!Start(c)
    BY <1>1, SameCardinality DEF Contract!Start
  <1> QED
    BY <1>2, CallStep

(* dispatch_if_idle past its guards.                                       *)
LEMMA DispatchStep ==
  ASSUME TypeInv, TypeInv', EngineInv, NEW k \in Keys, Dispatchable(k), Dispatch(k),
         coordPc \in {"dispatch", "redispatch", "available"},
         UNCHANGED <<lifecycle, keyOf, ticket, panicked>>
  PROVE  ContractStep
  <1> DEFINE c == Head(queues[k])
  <1>1. c \in Ops /\ c \in Calls /\ c \notin Maintenances /\ phase[c] = "queued"
    BY QueueFront, CallKinds DEF Dispatchable, EngineInv
  <1>2. reply[c] = "none"
    BY <1>1 DEF EngineInv, ControlInv, ReplyInv
  <1>3. Contract!Turn(c)
    BY QueueTurn
  <1>4. \/ Moved(c, "dispatched", "none")
        \/ Moved(c, "done", "WorkerUnavailable")
    BY <1>1, <1>2 DEF Dispatch, Moved, TypeInv, TypeOK
  <1>5. Cardinality(Contract!Executing) < MaxConcurrent
    <2>1. ~panicked
      BY DEF EngineInv, PlacementInv, ActiveInv
    <2>2. \A m \in Maintenances : phase[m] \notin InFlight
      BY <1>1 DEF EngineInv, ControlInv, MaintenanceInv
    <2>3. IsFiniteSet(Jobs) /\ Cardinality(Jobs) <= Cardinality(active)
      BY <2>1, <2>2, JobsFit DEF EngineInv
    <2>4. Cardinality(active) < MaxConcurrent
      BY DEF Dispatchable
    <2>5. Cardinality(Jobs) \in Nat /\ Cardinality(active) \in Nat
      BY <2>3, FS_CardinalityType DEF TypeInv, FiniteLoad
    <2> QED
      BY <2>3, <2>4, <2>5, ExecutingJobs, MaxConcurrentAssumption
  <1> QED
    BY <1>1, <1>2, <1>3, <1>4, <1>5, StartStep, ReturnStep

-----------------------------------------------------------------------------
(* The coordinator.                                                        *)

(* What stands behind a close is answered without having run.              *)
LEMMA CutStep ==
  ASSUME TypeInv, TypeInv', EngineInv, NEW c \in Calls, c \notin Closes, phase[c] = "sent",
         lifecycle # "Open", ~panicked, coordPc # "done",
         Moved(c, "done", "StoreClosed"),
         UNCHANGED <<lifecycle, keyOf, ticket, panicked>>
  PROVE  ContractStep
  <1>1. reply[c] = "none"
    BY DEF EngineInv, ControlInv, ReplyInv
  <1>2. ContractStage[c] = "accepted"
    BY <1>1, StageMap, Stages
  <1>3. PICK d \in Closes : Sent(d) /\ phase[d] # "sent"
    BY DEF EngineInv, ControlInv, CloseInv
  <1>4. d \in Calls /\ ticket[d] # 0 /\ ticket[d] < ticket[c]
    BY <1>3, CallKinds DEF EngineInv, ControlInv, SentLast, Sent
  <1>5. Contract!Ahead(c) \cap Closes # {}
    BY <1>4, SameSets DEF Contract!Ahead
  <1>6. /\ ContractStage' =
             [e \in Calls |-> IF e \in {c} THEN "answered" ELSE ContractStage[e]]
        /\ reply' = [e \in Calls |-> IF e \in {c} THEN "StoreClosed" ELSE reply[e]]
    BY AnswerStep
  <1>7. Contract!Cut(c)
    BY <1>2, <1>5, <1>6, SameSets DEF Contract!Cut, Contract!Answered
  <1> QED
    BY <1>7, CallStep

(* A close that waited is told the outcome of the shutdown.                *)
LEMMA CloseStep ==
  ASSUME TypeInv, TypeInv', EngineInv, NEW c \in Closes, phase[c] \in {"sent", "pending"},
         lifecycle \in {"Closed", "ShutdownFailed"},
         Moved(c, "done", CloseAnswer(lifecycle)),
         UNCHANGED <<lifecycle, keyOf, ticket, panicked>>
  PROVE  ContractStep
  <1>1. c \in Calls
    BY CallKinds
  <1>2. reply[c] = "none"
    BY <1>1 DEF EngineInv, ControlInv, ReplyInv
  <1>3. ContractStage[c] = "accepted"
    BY <1>1, <1>2, StageMap, Stages
  <1>4. CloseAnswer(lifecycle) = IF lifecycle = "Closed" THEN "Ok" ELSE "ShutdownFailure"
    BY DEF CloseAnswer
  <1>5. /\ ContractStage' =
             [e \in Calls |-> IF e \in {c} THEN "answered" ELSE ContractStage[e]]
        /\ reply' = [e \in Calls |-> IF e \in {c} THEN CloseAnswer(lifecycle) ELSE reply[e]]
    BY <1>1, <1>4, AnswerStep
  <1>6. Contract!Cut(c)
    BY <1>3, <1>4, <1>5, SameSets DEF Contract!Cut, Contract!Answered
  <1> QED
    BY <1>1, <1>6, CallStep

(* Only the gate changes.                                                  *)
LEMMA GateStep ==
  ASSUME TypeInv, TypeInv',
         \A c \in Calls : /\ reply'[c] = reply[c]
                          /\ StageOf(phase'[c], reply[c]) = StageOf(phase[c], reply[c])
  PROVE  ContractStage' = ContractStage /\ reply' = reply
  <1>1. ContractStage = [c \in Calls |-> StageOf(phase[c], reply[c])]
    BY DEF ContractStage, StageOf
  <1>2. ContractStage' = [c \in Calls |-> StageOf(phase'[c], reply'[c])]
    BY StageMapNext
  <1>3. reply' = reply
    BY DEF TypeInv, TypeOK
  <1> QED
    BY <1>1, <1>2, <1>3

(* The first step of each event handler of run_scheduler.                  *)
LEMMA ReceiveStep ==
  ASSUME TypeInv, TypeInv', EngineInv,
         \/ RecvSubmission \/ RecvCompletion \/ RecvBarrier
         \/ RecvMaintenanceCompletion \/ RecvClose
  PROVE  ContractStep
  <1> DEFINE c == Head(channel).call
  <1>1. coordPc = "recv" /\ channel # <<>> /\ UNCHANGED <<keyOf, ticket, panicked>>
    BY DEF RecvSubmission, RecvCompletion, RecvBarrier,
           RecvMaintenanceCompletion, RecvClose, Receive
  <1>2. /\ c \in Calls
        /\ Head(channel).kind = "submit" => phase[c] = "sent"
        /\ Head(channel).kind = "complete" => phase[c] = "completing"
    BY <1>1, ChannelFront DEF EngineInv
  <1>3. ~panicked /\ lifecycle \in {"Open", "Closing"}
    BY <1>1 DEF EngineInv, PlacementInv, ActiveInv, ControlInv, EndInv, Ending, Stopped,
                TypeInv, TypeOK, Lifecycles
  <1>4. CASE RecvSubmission \/ RecvBarrier
    <2>1. /\ c \notin Closes /\ phase[c] = "sent" /\ UNCHANGED lifecycle
      BY <1>2, <1>4, CallKinds DEF RecvSubmission, RecvBarrier, Receive
    <2>2. \/ lifecycle # "Open" /\ Reject(c)
          \/ (Defer(c) \/ Enqueue(c)) /\ UNCHANGED reply
      BY <1>4 DEF RecvSubmission, RecvBarrier, Accepting
    <2>3. \/ lifecycle # "Open" /\ Moved(c, "done", "StoreClosed")
          \/ Moved(c, "pending", reply[c])
          \/ Moved(c, "queued", reply[c])
      BY <1>2, <2>2 DEF Reject, Defer, Enqueue, Moved, TypeInv, TypeOK
    <2> QED
      BY <1>1, <1>2, <1>3, <2>1, <2>3, CutStep, UnseenMove
  <1>5. CASE RecvCompletion
    <2>1. phase[c] = "completing" /\ UNCHANGED <<lifecycle, reply>>
      BY <1>2, <1>5 DEF RecvCompletion, Receive
    <2>2. Moved(c, "settling", reply[c])
      BY <1>2, <1>5, <2>1 DEF RecvCompletion, Moved, TypeInv, TypeOK
    <2> QED
      BY <1>1, <1>2, <2>1, <2>2, UnseenMove
  <1>6. CASE RecvMaintenanceCompletion
    <2>1. c \in Maintenances /\ phase[c] = "completing" /\ UNCHANGED lifecycle
      BY <1>2, <1>6 DEF RecvMaintenanceCompletion, Receive
    <2>2. Moved(c, "done", IF reply[c] = "none" THEN "Ran" ELSE reply[c])
      BY <1>2, <1>6 DEF RecvMaintenanceCompletion, Deliver, Moved, TypeInv, TypeOK
    <2> QED
      BY <1>1, <1>2, <2>1, <2>2, ReturnStep, UnseenMove
  <1>7. CASE RecvClose
    <2>1. c \in Closes /\ phase[c] = "sent"
      BY <1>2, <1>7 DEF RecvClose, Receive
    <2>2. CloseAnswer(lifecycle) = "none"
      BY <1>3 DEF CloseAnswer
    <2>3. lifecycle' = "Closing"
      BY <1>3, <1>7 DEF RecvClose
    <2>4. reply[c] = "none"
      BY <1>2, <2>1 DEF EngineInv, ControlInv, ReplyInv
    <2>5. Moved(c, "pending", reply[c])
      BY <1>2, <1>7, <2>2, <2>4 DEF RecvClose, Moved, TypeInv, TypeOK
    <2>6. CASE lifecycle = "Closing"
      BY <1>1, <1>2, <2>1, <2>3, <2>5, <2>6, UnseenMove
    <2>7. CASE lifecycle = "Open"
      <3>1. ContractStage[c] = "accepted"
        BY <1>2, <2>1, <2>4, StageMap, Stages
      <3>2. ASSUME NEW d \in Calls
            PROVE  /\ reply'[d] = reply[d]
                   /\ StageOf(phase'[d], reply[d]) = StageOf(phase[d], reply[d])
        <4>1. CASE d = c
          BY <1>2, <2>1, <2>4, <2>5, <4>1, Stages DEF Moved, Phases, Replies
        <4> QED
          BY <2>5, <4>1 DEF Moved
      <3>3. ContractStage' = ContractStage /\ reply' = reply
        BY <3>2, GateStep
      <3>4. Contract!CloseGate
        BY <1>1, <2>1, <2>3, <2>7, <3>1, <3>3 DEF Contract!CloseGate
      <3> QED
        BY <3>4 DEF ContractStep, Contract!CNext
    <2> QED
      BY <1>3, <2>6, <2>7
  <1> QED
    BY <1>4, <1>5, <1>6, <1>7

(* The steps of dispatching.                                               *)
LEMMA DispatchingStep ==
  ASSUME TypeInv, TypeInv', EngineInv,
         DispatchIfIdle \/ DispatchAvailable \/ Settle
  PROVE  ContractStep
  <1>1. /\ coordPc \in {"dispatch", "redispatch", "available"} /\ hand \in Ops
        /\ UNCHANGED <<lifecycle, keyOf, ticket, panicked>>
    BY DEF DispatchIfIdle, DispatchAvailable, Settle, TypeInv, HandHeld
  <1>2. hand \in Calls /\ keyOf[hand] \in Keys
    BY <1>1, CallKinds DEF TypeInv, TypeOK
  <1>3. CASE DispatchIfIdle
    <2>1. CASE Dispatchable(keyOf[hand])
      <3>1. Dispatch(keyOf[hand])
        BY <1>3, <2>1 DEF DispatchIfIdle
      <3> QED
        BY <1>1, <1>2, <2>1, <3>1, DispatchStep
    <2>2. CASE ~Dispatchable(keyOf[hand])
      <3>1. NoneMoved
        BY <1>3, <2>2 DEF DispatchIfIdle, NoneMoved
      <3> QED
        BY <1>1, <3>1, UnseenStill
    <2> QED
      BY <2>1, <2>2
  <1>4. CASE DispatchAvailable
    <2>1. PICK k \in entries : Dispatchable(k) /\ Dispatch(k)
      BY <1>4 DEF DispatchAvailable
    <2>2. k \in Keys
      BY DEF TypeInv, TypeOK
    <2> QED
      BY <1>1, <2>1, <2>2, DispatchStep
  <1>5. CASE Settle
    <2>1. CASE phase[hand] = "settling"
      <3>1. Moved(hand, "done", IF reply[hand] = "none" THEN "Ran" ELSE reply[hand])
        BY <1>2, <1>5, <2>1 DEF Settle, Deliver, Moved, TypeInv, TypeOK
      <3> QED
        BY <1>1, <1>2, <2>1, <3>1, ReturnStep, UnseenMove
    <2>2. CASE phase[hand] # "settling"
      <3>1. NoneMoved
        BY <1>5, <2>2 DEF Settle, NoneMoved
      <3> QED
        BY <1>1, <3>1, UnseenStill
    <2> QED
      BY <2>1, <2>2
  <1> QED
    BY <1>3, <1>4, <1>5

(* The steps of advance_pending_if_ready.                                  *)
LEMMA AdvancingStep ==
  ASSUME TypeInv, TypeInv', EngineInv,
         \/ AdvanceSubmission \/ AdvanceMaintenance \/ AdvanceFlush
         \/ AdvanceStop \/ CloseNotReady
  PROVE  ContractStep
  <1> DEFINE c == Head(pending)
  <1>1. UNCHANGED <<lifecycle, keyOf, ticket, panicked>>
    BY DEF AdvanceSubmission, AdvanceMaintenance, AdvanceFlush, AdvanceStop, CloseNotReady
  <1>2. CASE AdvanceSubmission
    <2>1. pending # <<>> /\ Enqueue(c) /\ UNCHANGED reply
      BY <1>2 DEF AdvanceSubmission, FrontIn
    <2>2. c \in Calls /\ phase[c] = "pending"
      BY <2>1, PendingFront DEF EngineInv
    <2>3. Moved(c, "queued", reply[c])
      BY <2>1, <2>2 DEF Enqueue, Moved, TypeInv, TypeOK
    <2> QED
      BY <1>1, <2>2, <2>3, UnseenMove
  <1>3. CASE AdvanceMaintenance
    <2>1. /\ c \in Maintenances /\ c \notin Closes /\ pending # <<>>
          /\ ~maintenanceActive /\ Quiet /\ coordPc = "advance"
      BY <1>3, CallKinds DEF AdvanceMaintenance, FrontIn
    <2>2. c \in Calls /\ phase[c] = "pending"
      BY <2>1, PendingFront DEF EngineInv
    <2>3. reply[c] = "none"
      BY <2>2 DEF EngineInv, ControlInv, ReplyInv
    <2>4. Contract!Turn(c)
      BY <2>1, PendingTurn
    <2>5. \/ Moved(c, "dispatched", "none")
          \/ Moved(c, "completing", "WorkerUnavailable")
      BY <1>3, <2>2, <2>3 DEF AdvanceMaintenance, Moved, TypeInv, TypeOK
    <2>6. Contract!Executing = {}
      <3>1. ~panicked
        BY <2>1 DEF EngineInv, PlacementInv, ActiveInv
      <3>2. \A d \in Calls : phase[d] \notin InFlight
        BY <2>1, <3>1, QuietCalls DEF EngineInv
      <3>3. Jobs = {}
        BY <3>2, CallKinds DEF Jobs, InFlight
      <3> QED
        BY <3>3, ExecutingJobs
    <2>7. Cardinality(Contract!Executing) < MaxConcurrent
      BY <2>6, FS_EmptySet, MaxConcurrentAssumption
    <2> QED
      BY <1>1, <2>1, <2>2, <2>3, <2>4, <2>5, <2>6, <2>7, StartStep, ReturnStep
  <1>4. CASE AdvanceFlush
    <2>1. /\ c \in Flushes /\ c \notin Closes /\ pending # <<>>
          /\ ~maintenanceActive /\ Quiet /\ coordPc = "advance"
      BY <1>4, CallKinds DEF AdvanceFlush, FrontIn
    <2>2. c \in Calls
      BY <2>1, CallKinds
    <2>3. Contract!Turn(c)
      BY <2>1, PendingTurn
    <2>4. ASSUME NEW d \in Contract!Ahead(c) PROVE ContractStage[d] = "answered"
      <3>1. d \in Calls /\ Earlier(d, c)
        BY <2>4, SameSets DEF Contract!Ahead, Earlier, Sent
      <3>2. phase[d] = "done"
        BY <1>4, <3>1, FlushTurn
      <3>3. reply[d] # "none"
        BY <3>1, <3>2 DEF EngineInv, ControlInv, ReplyInv
      <3> QED
        BY <3>1, <3>3, StageMap, Stages
    <2>5. Moved(c, "done", "Ok")
      BY <1>4, <2>2 DEF AdvanceFlush, Moved, TypeInv, TypeOK
    <2>6. /\ ContractStage' =
               [d \in Calls |-> IF d \in {c} THEN "answered" ELSE ContractStage[d]]
          /\ reply' = [d \in Calls |-> IF d \in {c} THEN "Ok" ELSE reply[d]]
      BY <2>2, <2>5, AnswerStep
    <2>7. Contract!Flush(c)
      BY <1>1, <2>1, <2>3, <2>4, <2>6, SameSets DEF Contract!Flush, Contract!Answered
    <2> QED
      BY <2>2, <2>7, CallStep
  <1>5. CASE AdvanceStop \/ CloseNotReady
    <2>1. NoneMoved
      BY <1>5 DEF AdvanceStop, CloseNotReady, NoneMoved
    <2> QED
      BY <1>1, <2>1, UnseenStill
  <1> QED
    BY <1>2, <1>3, <1>4, <1>5

(* The store stops when what is left is behind a close, or nothing is.     *)
LEMMA StopStep ==
  ASSUME TypeInv, TypeInv', EngineInv, ~panicked, coordPc \notin Ending,
         UNCHANGED <<phase, reply, keyOf, ticket, panicked>>,
         \A c \in Calls :
           reply[c] = "none" /\ phase[c] \notin {"idle", "admitting"} =>
             lifecycle = "Closing" /\ (c \in Closes \/ \E d \in Closes : Earlier(d, c)),
         \/ lifecycle' = "Closed"
         \/ lifecycle = "Closing" /\ lifecycle' = "ShutdownFailed"
  PROVE  ContractStep
  <1>1. lifecycle \in {"Open", "Closing"}
    BY DEF EngineInv, ControlInv, EndInv, Stopped, TypeInv, TypeOK, Lifecycles
  <1>2. ContractStage' = ContractStage
    BY GateStep
  <1>3. ASSUME NEW c \in Calls, ContractStage[c] \in {"accepted", "executing", "executed"}
        PROVE  lifecycle = "Closing" /\ (c \in Closes \/ Contract!Ahead(c) \cap Closes # {})
    <2>1. reply[c] = "none" /\ phase[c] \notin {"idle", "admitting"}
      BY <1>3, StageMap, Stages
    <2>2. (\E d \in Closes : Earlier(d, c)) => Contract!Ahead(c) \cap Closes # {}
      BY SameSets, CallKinds DEF Contract!Ahead, Earlier, Sent
    <2> QED
      BY <2>1, <2>2
  <1>4. Contract!StopGate
    BY <1>1, <1>2, <1>3, SameSets DEF Contract!StopGate
  <1> QED
    BY <1>4 DEF ContractStep, Contract!CNext

(* The steps of shutting down and of draining the channel.                 *)
LEMMA StoppingStep ==
  ASSUME TypeInv, TypeInv', EngineInv,
         \/ Shutdown \/ NotifyClose \/ Drain \/ CoordinatorExit
         \/ CoordinatorDisconnected
  PROVE  ContractStep
  <1>1. CASE Shutdown
    <2> DEFINE f == Head(pending)
    <2>1. /\ coordPc = "closecheck" /\ pending # <<>> /\ f \in Closes /\ Quiet
          /\ ~maintenanceActive /\ lifecycle' \in {"Closed", "ShutdownFailed"}
          /\ UNCHANGED <<phase, reply, keyOf, ticket, panicked>>
      BY <1>1 DEF Shutdown, CloseReady, FrontIn
    <2>2. /\ f \in Calls /\ phase[f] = "pending"
          /\ \A d \in Calls : phase[d] = "pending" /\ d # f => ticket[f] < ticket[d]
      BY <2>1, PendingFront DEF EngineInv
    <2>3. ~panicked
      BY <2>1 DEF EngineInv, PlacementInv, ActiveInv
    <2>4. ticket[f] # 0
      BY <2>2 DEF EngineInv, PlacementInv, TicketInv, Held
    <2>5. lifecycle = "Closing"
      <3>1. lifecycle # "Open"
        BY <2>1, <2>2, <2>3, <2>4 DEF EngineInv, ControlInv, CloseInv, Sent
      <3> QED
        BY <2>1, <3>1 DEF EngineInv, ControlInv, EndInv, Ending, Stopped,
                          TypeInv, TypeOK, Lifecycles
    <2>6. ASSUME NEW c \in Calls, reply[c] = "none", phase[c] \notin {"idle", "admitting"}
          PROVE  c \in Closes \/ \E d \in Closes : Earlier(d, c)
      <3>1. phase[c] \notin InFlight \cup {"queued", "settling"}
        BY <2>1, <2>3, QuietCalls DEF EngineInv
      <3>2. phase[c] \notin {"done", "joining", "returned"}
        BY <2>6 DEF EngineInv, ControlInv, ReplyInv
      <3>3. phase[c] \in {"sent", "pending"}
        BY <2>6, <3>1, <3>2 DEF TypeInv, TypeOK, Phases, InFlight
      <3>4. phase[c] = "sent" => ticket[f] < ticket[c]
        BY <2>2 DEF EngineInv, PlacementInv, OrderInv, Held
      <3> QED
        BY <2>1, <2>2, <2>4, <3>3, <3>4 DEF Earlier, Sent
    <2> QED
      BY <2>1, <2>3, <2>5, <2>6, StopStep DEF Ending
  <1>2. CASE NotifyClose
    <2>1. coordPc = "notify" /\ UNCHANGED <<lifecycle, keyOf, ticket, panicked>>
      BY <1>2 DEF NotifyClose
    <2>2. lifecycle \in {"Closed", "ShutdownFailed"}
      BY <2>1 DEF EngineInv, PlacementInv, ActiveInv, ControlInv, EndInv, Ending, Stopped
    <2>3. CASE FrontIn(Closes)
      <3>1. /\ Head(pending) \in Closes /\ Head(pending) \in Calls
            /\ phase[Head(pending)] = "pending"
        BY <2>3, PendingFront DEF FrontIn, EngineInv
      <3>2. Moved(Head(pending), "done", CloseAnswer(lifecycle))
        BY <1>2, <2>3, <3>1 DEF NotifyClose, Moved, TypeInv, TypeOK
      <3> QED
        BY <2>1, <2>2, <3>1, <3>2, CloseStep
    <2>4. CASE ~FrontIn(Closes)
      <3>1. NoneMoved
        BY <1>2, <2>4 DEF NotifyClose, NoneMoved
      <3> QED
        BY <2>1, <3>1, UnseenStill
    <2> QED
      BY <2>3, <2>4
  <1>3. CASE Drain
    <2> DEFINE c == Head(channel).call
    <2>1. /\ coordPc = "drain" /\ channel # <<>>
          /\ UNCHANGED <<lifecycle, keyOf, ticket, panicked>>
      BY <1>3 DEF Drain, DrainOne
    <2>2. /\ ~panicked /\ lifecycle \in {"Closed", "ShutdownFailed"}
          /\ \A d \in Calls : phase[d] \notin InFlight
      BY <2>1 DEF EngineInv, PlacementInv, ActiveInv, ControlInv, EndInv, Ending, Stopped
    <2>3. c \in Calls /\ phase[c] = "sent" /\ Head(channel).kind # "complete"
      BY <2>1, <2>2, ChannelFront DEF InFlight, EngineInv
    <2>4. reply[c] = "none"
      BY <2>3 DEF EngineInv, ControlInv, ReplyInv
    <2>5. ClosedAnswer(c) = IF c \in Closes THEN CloseAnswer(lifecycle) ELSE "StoreClosed"
      BY <2>3 DEF ClosedAnswer
    <2>6. Moved(c, "done", IF c \in Closes THEN CloseAnswer(lifecycle) ELSE "StoreClosed")
      BY <1>3, <2>3, <2>4, <2>5 DEF Drain, DrainOne, Deliver, Moved, TypeInv, TypeOK
    <2> QED
      BY <2>1, <2>2, <2>3, <2>6, CloseStep, CutStep
  <1>4. CASE CoordinatorExit
    <2>1. NoneMoved /\ UNCHANGED <<lifecycle, keyOf, ticket, panicked>>
      BY <1>4 DEF CoordinatorExit, NoneMoved
    <2> QED
      BY <2>1, UnseenStill
  <1>5. CASE CoordinatorDisconnected
    <2>1. /\ coordPc = "recv" /\ channel = <<>> /\ lifecycle' = "Closed"
          /\ UNCHANGED <<phase, reply, keyOf, ticket, panicked>>
          /\ \A c \in Ops \cup Maintenances :
               phase[c] \notin {"sent", "pending", "queued", "dispatched", "running"}
      BY <1>5 DEF CoordinatorDisconnected, Disconnected
    <2>2. ~panicked
      BY <2>1 DEF EngineInv, PlacementInv, ActiveInv
    <2>3. \A c \in Calls : phase[c] \notin {"sent", "completing"}
      BY <2>1 DEF EngineInv, PlacementInv, ChannelInv
    <2>4. \A c \in Calls : phase[c] \notin {"queued", "dispatched", "running", "settling"}
      BY <2>1 DEF EngineInv, PlacementInv, QueueInv, ControlInv, KindInv, InFlight
    <2>5. pending = <<>>
      <3>1. \A c \in Ops \cup Maintenances : phase[c] \notin InFlight
        BY <2>3, <2>4, CallKinds DEF InFlight
      <3> QED
        BY <2>1, <3>1 DEF EngineInv, WorkInv, DeferInv
    <2>6. \A c \in Calls : phase[c] # "pending"
      BY <2>5 DEF EngineInv, PlacementInv, PendingInv
    <2>7. \A c \in Calls : reply[c] = "none" => phase[c] \in {"idle", "admitting"}
      BY <2>3, <2>4, <2>6 DEF EngineInv, ControlInv, ReplyInv, TypeInv, TypeOK, Phases
    <2> QED
      BY <2>1, <2>2, <2>7, StopStep DEF Ending
  <1> QED
    BY <1>1, <1>2, <1>3, <1>4, <1>5

(* The unwinding takes the reply channels of some calls with it.           *)
LEMMA BreakStep ==
  ASSUME TypeInv, TypeInv', EngineInv, NEW lost \in SUBSET Calls, Unwind(lost),
         coordPc \in {"recv", "advance", "drain"},
         \A c \in lost : phase[c] \in {"sent", "pending", "completing"}
  PROVE  ContractStep
  <1> DEFINE gone == lost \cup {c \in Calls : phase[c] \in {"pending", "queued"}}
             S == {c \in gone : reply[c] = "none"}
  <1>1. /\ ~panicked /\ panicked' = TRUE
        /\ UNCHANGED <<lifecycle, keyOf, ticket>>
    BY DEF EngineInv, PlacementInv, ActiveInv, Unwind
  <1>2. \A c \in Calls :
          /\ c \in gone => phase'[c] = "done"
          /\ c \notin gone => phase'[c] = phase[c]
          /\ reply'[c] = IF c \in S THEN "Dropped" ELSE reply[c]
    BY DEF Unwind
  <1>3. S \in SUBSET {c \in Calls : ContractStage[c] \in {"accepted", "executed"}}
    BY StageMap, Stages
  <1>4. ContractStage' = [c \in Calls |-> IF c \in S THEN "answered" ELSE ContractStage[c]]
    <2>1. ASSUME NEW c \in Calls
          PROVE  StageOf(phase'[c], reply'[c]) =
                   IF c \in S THEN "answered" ELSE ContractStage[c]
      <3>0. /\ phase[c] \in Phases /\ phase'[c] \in Phases
            /\ reply[c] \in Replies /\ reply'[c] \in Replies
            /\ ContractStage[c] = StageOf(phase[c], reply[c])
        BY StageMap, StageMapNext
      <3>1. CASE c \in S
        BY <1>2, <3>0, <3>1, Stages
      <3>2. CASE c \notin S /\ c \in gone
        BY <1>2, <3>0, <3>2, Stages
      <3>3. CASE c \notin gone
        BY <1>2, <3>0, <3>3
      <3> QED
        BY <3>1, <3>2, <3>3
    <2> QED
      BY <2>1, StageMapNext
  <1>5. reply' = [c \in Calls |-> IF c \in S THEN "Dropped" ELSE reply[c]]
    BY <1>2 DEF TypeInv, TypeOK
  <1> HIDE DEF S, gone
  <1>6. Contract!Break
    BY <1>1, <1>3, <1>4, <1>5, SameSets DEF Contract!Break, Contract!Answered
  <1> QED
    BY <1>6 DEF ContractStep, Contract!CNext

(* The steps of a failing engine.                                          *)
LEMMA FailingStep ==
  ASSUME TypeInv, TypeInv', EngineInv,
         PanicOnEvent \/ PanicOnFlush \/ PanicOnStopping \/ UnwindJoin \/ FailDrain
  PROVE  ContractStep
  <1>1. CASE PanicOnEvent
    <2>1. coordPc = "recv" /\ channel # <<>> /\ Unwind({Head(channel).call})
      BY <1>1 DEF PanicOnEvent
    <2> QED
      BY <2>1, ChannelFront, BreakStep DEF EngineInv
  <1>2. CASE PanicOnFlush
    <2>1. coordPc = "advance" /\ pending # <<>> /\ Unwind({Head(pending)})
      BY <1>2 DEF PanicOnFlush, FrontIn
    <2> QED
      BY <2>1, PendingFront, BreakStep DEF EngineInv
  <1>3. CASE PanicOnStopping
    BY <1>3, BreakStep DEF PanicOnStopping
  <1>4. CASE UnwindJoin
    <2>1. /\ coordPc = "unwind" /\ NoJobs /\ lifecycle' = "Failed"
          /\ UNCHANGED <<phase, reply, keyOf, ticket, panicked>>
      BY <1>4 DEF UnwindJoin
    <2>2. panicked
      BY <2>1 DEF EngineInv, ControlInv, EndInv
    <2>3. Contract!Executing = {}
      BY <2>1, ExecutingJobs, CallKinds DEF NoJobs, Jobs
    <2>4. ContractStage' = ContractStage
      BY <2>1, GateStep
    <2>5. Contract!FailGate
      BY <2>1, <2>2, <2>3, <2>4 DEF Contract!FailGate
    <2> QED
      BY <2>5 DEF ContractStep, Contract!CNext
  <1>5. CASE FailDrain
    <2>1. CASE channel # <<>>
      <3> DEFINE c == Head(channel).call
      <3>1. coordPc = "faildrain" /\ DrainOne(FailedAnswer(c))
        BY <1>5, <2>1 DEF FailDrain
      <3>2. UNCHANGED <<lifecycle, keyOf, ticket, panicked>>
        BY <3>1 DEF DrainOne
      <3>3. c \in Calls /\ phase[c] \in {"sent", "completing"}
        BY <2>1, ChannelFront DEF EngineInv
      <3>4. Moved(c, "done", IF reply[c] = "none" THEN FailedAnswer(c) ELSE reply[c])
        BY <3>1, <3>3 DEF DrainOne, Deliver, Moved, TypeInv, TypeOK
      <3>5. CASE reply[c] # "none"
        BY <3>2, <3>3, <3>4, <3>5, UnseenMove
      <3>6. CASE reply[c] = "none"
        <4>1. lifecycle = "Failed"
          BY <3>1 DEF EngineInv, ControlInv, EndInv
        <4>2. ContractStage[c] \in {"accepted", "executed"}
          BY <3>3, <3>6, StageMap, Stages
        <4>3. FailedAnswer(c) # "none"
          BY DEF FailedAnswer
        <4>4. /\ ContractStage' =
                   [d \in Calls |-> IF d \in {c} THEN "answered" ELSE ContractStage[d]]
              /\ reply' = [d \in Calls |-> IF d \in {c} THEN FailedAnswer(c) ELSE reply[d]]
          BY <3>3, <3>4, <3>6, <4>3, AnswerStep
        <4>5. Contract!Fail(c)
          BY <3>2, <4>1, <4>2, <4>4, SameSets
          DEF Contract!Fail, Contract!Answered, FailedAnswer
        <4> QED
          BY <3>3, <4>5, CallStep
      <3> QED
        BY <3>5, <3>6
    <2>2. CASE channel = <<>>
      <3>1. NoneMoved /\ UNCHANGED <<lifecycle, keyOf, ticket, panicked>>
        BY <1>5, <2>2 DEF FailDrain, NoneMoved
      <3> QED
        BY <3>1, UnseenStill
    <2> QED
      BY <2>1, <2>2
  <1> QED
    BY <1>1, <1>2, <1>3, <1>4, <1>5

-----------------------------------------------------------------------------
(* A store just opened is one of the contract.                             *)
LEMMA InitContract == Init => Contract!CInit
  <1> SUFFICES ASSUME Init PROVE Contract!CInit
    OBVIOUS
  <1>1. ContractStage = [c \in Calls |-> "new"]
    BY DEF Init, ContractStage
  <1> QED
    BY <1>1, SameSets DEF Init, Contract!CInit

(* Every step of the engine is a step of the contract or invisible in it.  *)
LEMMA NextContract ==
  ASSUME TypeInv, EngineInv, [Next]_vars
  PROVE  ContractStep
  <1>0. TypeInv'
    BY NextTypeInv
  <1>1. CASE Coordinator
    BY <1>0, <1>1, ReceiveStep, DispatchingStep, AdvancingStep, StoppingStep, FailingStep
    DEF Coordinator
  <1>2. ASSUME NEW c \in Ops \cup Maintenances, Worker(c) PROVE ContractStep
    BY <1>0, <1>2, WorkerStep
  <1>3. ASSUME NEW c \in Calls, Caller(c) PROVE ContractStep
    BY <1>0, <1>3, CallerStep
  <1>4. ASSUME NEW c \in Closes, Closer(c) PROVE ContractStep
    BY <1>0, <1>4, CloserStep
  <1>5. CASE DropHandles \/ UNCHANGED vars
    <2>1. NoneMoved /\ UNCHANGED <<lifecycle, keyOf, ticket, panicked>>
      BY <1>5 DEF DropHandles, vars, NoneMoved
    <2> QED
      BY <1>0, <2>1, UnseenStill
  <1> QED
    BY <1>1, <1>2, <1>3, <1>4, <1>5 DEF Next, Terminated

(* The engine, with its channel, deferrals, queues, threads, failures and  *)
(* unwinding, implements the contract of the store for every set of keys   *)
(* and calls, every positive bound and all faults.                         *)
THEOREM EngineImplementsContract == Spec => ImplementsContract
  <1>1. Whole => TypeInv /\ EngineInv
    BY DEF Whole
  <1>2. Whole /\ [Next]_vars => [Contract!CNext]_(Contract!cvars)
    BY <1>1, NextContract DEF ContractStep
  <1> QED
    BY <1>2, InitWhole, NextWhole, InitContract, PTL
    DEF Spec, ImplementsContract, Contract!CSpec
=============================================================================
