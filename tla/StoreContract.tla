--------------------------- MODULE StoreContract ----------------------------
(***************************************************************************)
(* What a store promises, without coordinator, channel, queues or threads: *)
(* calls are accepted in one order; an operation starts when its turn has  *)
(* come, that is when the operations accepted before it on its key and the *)
(* barriers accepted before it are finished and a slot is free; flush and  *)
(* maintenance wait for all that was accepted before them; the first close *)
(* cuts the order in two.  Engine implements this.                         *)
(***************************************************************************)
EXTENDS Integers, FiniteSets

CONSTANTS Keys, Ops, Maintenances, Flushes, Closes, MaxConcurrent

Calls == Ops \cup Maintenances \cup Flushes \cup Closes

VARIABLES
  keyOf,   \* the key of each operation
  order,   \* the position at which each call was accepted, 0 before
  stage,   \* "new", "accepted", "executing", "executed" or "answered"
  answer,  \* "none" or the answer of an answered call
  gate,    \* the lifecycle callers see
  broken   \* the engine is failing: nothing starts any more

cvars == <<keyOf, order, stage, answer, gate, broken>>

CInit ==
  /\ keyOf \in [Ops -> Keys]
  /\ order = [c \in Calls |-> 0]
  /\ stage = [c \in Calls |-> "new"]
  /\ answer = [c \in Calls |-> "none"]
  /\ gate = "Open"
  /\ broken = FALSE

Stopped == {"Closed", "ShutdownFailed", "Failed"}

Ahead(c) == {d \in Calls : order[d] # 0 /\ order[d] < order[c]}

Finished(c) == stage[c] \in {"executed", "answered"}

(* It is c's turn: everything it has to wait for is over.                  *)
Turn(c) ==
  /\ stage[c] = "accepted"
  /\ ~broken /\ gate \notin Stopped
  /\ Ahead(c) \cap Closes = {}
  /\ \A d \in Ahead(c) :
       \/ Finished(d)
       \/ c \in Ops /\ d \in Ops /\ keyOf[c] # keyOf[d]

Executing == {c \in Calls : stage[c] = "executing"}

Answered(S, r(_)) ==
  /\ stage' = [c \in Calls |-> IF c \in S THEN "answered" ELSE stage[c]]
  /\ answer' = [c \in Calls |-> IF c \in S THEN r(c) ELSE answer[c]]
  /\ UNCHANGED <<keyOf, order>>

Accept(c) ==
  /\ stage[c] = "new"
  /\ gate = "Open" \/ (c \in Closes /\ gate = "Closing")
  /\ stage' = [stage EXCEPT ![c] = "accepted"]
  /\ order' = [order EXCEPT ![c] = 1 + Cardinality({d \in Calls : order[d] # 0})]
  /\ UNCHANGED <<keyOf, answer, gate, broken>>

(* A call that comes too late is refused on the spot.                      *)
Refuse(c) ==
  /\ stage[c] = "new"
  /\ LET refusal(d) == IF d \in Closes
                         THEN IF gate = "Closed" THEN "Ok" ELSE "ShutdownFailure"
                         ELSE IF gate = "Failed" THEN "EngineFailed" ELSE "StoreClosed"
     IN  gate \in Stopped \cup (IF c \in Closes THEN {} ELSE {"Closing"})
         /\ Answered({c}, refusal)
  /\ UNCHANGED <<gate, broken>>

Start(c) ==
  /\ Turn(c)
  /\ Cardinality(Executing) < MaxConcurrent
  /\ c \in Maintenances => Executing = {}
  /\ stage' = [stage EXCEPT ![c] = "executing"]
  /\ UNCHANGED <<keyOf, order, answer, gate, broken>>

Finish(c) ==
  /\ stage[c] = "executing"
  /\ stage' = [stage EXCEPT ![c] = "executed"]
  /\ UNCHANGED <<keyOf, order, answer, gate, broken>>

(* The answer of a call that ran, of one whose job broke down, and of one  *)
(* whose turn came when no worker could be had.                            *)
Return(c) ==
  LET own(d) == CASE stage[d] = "executed"  -> "Ran"
                  [] stage[d] = "executing" -> "Dropped"
                  [] OTHER                  -> "WorkerUnavailable"
  IN  /\ c \in Ops \cup Maintenances
      /\ stage[c] \in {"executed", "executing"} \/ Turn(c)
      /\ Answered({c}, own)
      /\ UNCHANGED <<gate, broken>>

Flush(c) ==
  LET ok(d) == "Ok" IN
  /\ c \in Flushes
  /\ Turn(c)
  /\ \A d \in Ahead(c) : stage[d] = "answered"
  /\ Answered({c}, ok)
  /\ UNCHANGED <<gate, broken>>

(* What was accepted behind a close is answered without having run.        *)
Cut(c) ==
  LET late(d) == IF d \notin Closes THEN "StoreClosed"
                 ELSE IF gate = "Closed" THEN "Ok" ELSE "ShutdownFailure" IN
  /\ stage[c] = "accepted"
  /\ IF c \in Closes THEN gate \in {"Closed", "ShutdownFailed"}
     ELSE gate # "Open" /\ Ahead(c) \cap Closes # {}
  /\ Answered({c}, late)
  /\ UNCHANGED <<gate, broken>>

CloseGate ==
  /\ gate = "Open"
  /\ \E c \in Closes : stage[c] = "accepted"
  /\ gate' = "Closing"
  /\ UNCHANGED <<keyOf, order, stage, answer, broken>>

(* The store stops: after a close, once all that was accepted before the   *)
(* first one is answered; or because every handle is gone.                 *)
StopGate ==
  /\ gate \in {"Open", "Closing"} /\ ~broken
  /\ \A c \in Calls : stage[c] \in {"accepted", "executing", "executed"} =>
       gate = "Closing" /\ (c \in Closes \/ Ahead(c) \cap Closes # {})
  /\ gate' \in {"Closed"} \cup (IF gate = "Closing" THEN {"ShutdownFailed"} ELSE {})
  /\ UNCHANGED <<keyOf, order, stage, answer, broken>>

(* The engine breaks: some calls lose their answer, the running ones end,  *)
(* and only then is the store failed and everything else answered so.      *)
Break ==
  LET lost(d) == "Dropped" IN
  /\ ~broken
  /\ broken' = TRUE
  /\ \E S \in SUBSET {c \in Calls : stage[c] \in {"accepted", "executed"}} :
       Answered(S, lost)
  /\ UNCHANGED gate

FailGate ==
  /\ broken
  /\ Executing = {}
  /\ gate' = "Failed"
  /\ UNCHANGED <<keyOf, order, stage, answer, broken>>

Fail(c) ==
  LET failed(d) == IF d \in Closes THEN "ShutdownFailure" ELSE "EngineFailed" IN
  /\ gate = "Failed"
  /\ stage[c] \in {"accepted", "executed"}
  /\ Answered({c}, failed)
  /\ UNCHANGED <<gate, broken>>

CNext ==
  \/ \E c \in Calls :
       \/ Accept(c) \/ Refuse(c) \/ Start(c) \/ Finish(c) \/ Return(c)
       \/ Flush(c) \/ Cut(c) \/ Fail(c)
  \/ CloseGate \/ StopGate \/ Break \/ FailGate

CSpec == CInit /\ [][CNext]_cvars
=============================================================================
