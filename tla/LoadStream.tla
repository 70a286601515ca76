----------------------------- MODULE LoadStream -----------------------------
(***************************************************************************)
(* One call of load_into: the operation, which waits in the engine, runs   *)
(* on a worker that validates the whole envelope and then sends the        *)
(* payload through a bounded channel, and the caller that writes it to its *)
(* destination, in the blocking and in the Tokio facade.  The worker ends  *)
(* only when the caller has acknowledged the last chunk, or has dropped    *)
(* its ends of the channels.                                               *)
(*                                                                         *)
(* To the caller the end of the payload, an error in the middle of it, an  *)
(* absent blob and a refused operation look the same at first: the chunk   *)
(* channel is closed.  Only the result tells them apart.                   *)
(***************************************************************************)
EXTENDS ChunkChannel

CONSTANT Faults   \* "output", "store", "engine", "cancel": what may go wrong

ASSUME LoadStreamAssumption == Faults \subseteq {"output", "store", "engine", "cancel"}

VARIABLES
  facade,       \* "blocking" or "tokio"
  blob,         \* the canonical blob: "absent", "invalid" or "valid"
  payloadLen,   \* the length of its payload if it is valid
  pc,           \* where the caller is in load_into
  held,         \* the chunk the caller is writing
  output,       \* what the destination has taken
  returned,     \* what load_into returned
  chunks,       \* the chunk channel
  senderOpen,   \* the operation still has its end of it
  callerOpen,   \* the caller has its ends of both channels
  acked,        \* the acknowledgement is in its channel
  ackOpen,      \* the operation still has the receiver of it
  work,         \* where the operation is
  delivered,    \* payload bytes read in the second pass
  outcome,      \* the result the worker computed
  result        \* the content of the reply channel

callerVars == <<pc, held, output, returned>>
vars == <<facade, blob, payloadLen, callerVars, chunks, senderOpen, callerOpen,
          acked, ackOpen, work, delivered, outcome, result>>

NoChunk == [kind |-> "none"]

Refusals == {"StoreClosed", "EngineFailed", "WorkerUnavailable"}
Results == Refusals \cup {"Ok", "None", "InvalidEnvelope", "ReadEnvelope",
                          "StreamCancelled", "OutputIo"}

CallerPcs == {"start", "receive", "write", "acknowledge", "await", "drain",
              "returned", "dropped"}
WorkPcs == {"none", "queued", "open", "stream", "acknowledged", "finished",
            "answered", "lost"}

TypeOK ==
  /\ facade \in {"blocking", "tokio"}
  /\ blob \in {"absent", "invalid", "valid"}
  /\ payloadLen \in Lengths
  /\ pc \in CallerPcs
  /\ held \in Chunks \cup {NoChunk}
  /\ output \in Seq(Chunks)
  /\ returned \in Results \cup {"none"}
  /\ chunks \in Seq(Chunks) /\ Len(chunks) <= Capacity
  /\ senderOpen \in BOOLEAN /\ callerOpen \in BOOLEAN
  /\ acked \in BOOLEAN /\ ackOpen \in BOOLEAN
  /\ work \in WorkPcs
  /\ delivered \in 0..payloadLen
  /\ outcome \in Results \cup {"none"}
  /\ result \in Results \cup {"none", "Disconnected"}

Init ==
  /\ facade \in {"blocking", "tokio"}
  /\ blob \in {"absent", "invalid", "valid"}
  /\ payloadLen \in Lengths
  /\ pc = "start"
  /\ held = NoChunk
  /\ output = <<>>
  /\ returned = "none"
  /\ chunks = <<>>
  /\ senderOpen = FALSE /\ callerOpen = FALSE
  /\ acked = FALSE /\ ackOpen = FALSE
  /\ work = "none"
  /\ delivered = 0
  /\ outcome = "none"
  /\ result = "none"

-----------------------------------------------------------------------------
(* The caller: load_into.                                                  *)

Return(r) ==
  /\ pc' = "returned"
  /\ returned' = r
  /\ callerOpen' = FALSE
  /\ chunks' = <<>>

(* start_load_stream.                                                      *)
StartRefused(r) ==
  /\ pc = "start"
  /\ "engine" \in Faults
  /\ Return(r)
  /\ UNCHANGED <<facade, blob, payloadLen, held, output, senderOpen, acked,
                 ackOpen, work, delivered, outcome, result>>

Start ==
  /\ pc = "start"
  /\ pc' = "receive"
  /\ senderOpen' = TRUE /\ callerOpen' = TRUE /\ ackOpen' = TRUE
  /\ work' = "queued"
  /\ UNCHANGED <<facade, blob, payloadLen, held, output, returned, chunks, acked,
                 delivered, outcome, result>>

ReceiveChunk ==
  /\ pc = "receive"
  /\ chunks # <<>>
  /\ held' = Head(chunks)
  /\ chunks' = Tail(chunks)
  /\ pc' = "write"
  /\ UNCHANGED <<facade, blob, payloadLen, output, returned, senderOpen,
                 callerOpen, acked, ackOpen, work, delivered, outcome, result>>

ReceiveEnd ==
  /\ pc = "receive"
  /\ chunks = <<>> /\ ~senderOpen
  /\ pc' = "acknowledge"
  /\ UNCHANGED <<facade, blob, payloadLen, held, output, returned, chunks,
                 senderOpen, callerOpen, acked, ackOpen, work, delivered, outcome,
                 result>>

WriteChunk ==
  /\ pc = "write"
  /\ output' = Append(output, held)
  /\ held' = NoChunk
  /\ pc' = "receive"
  /\ UNCHANGED <<facade, blob, payloadLen, returned, chunks, senderOpen,
                 callerOpen, acked, ackOpen, work, delivered, outcome, result>>

(* write_all fails after it has written a part of the chunk; the caller    *)
(* drops its ends and waits for the operation.                             *)
\* mutant: the destination's error is taken for the end of the payload
AcknowledgeAnyway ==
  /\ pc' = "acknowledge"
  /\ UNCHANGED <<callerOpen, chunks>>
\* mutant: the operation is awaited before the channels are dropped
GiveUpHolding ==
  /\ pc' = "drain"
  /\ UNCHANGED <<callerOpen, chunks>>
GiveUp ==
  /\ pc' = "drain"
  /\ callerOpen' = FALSE
  /\ chunks' = <<>>

WriteFails(n) ==
  /\ "output" \in Faults
  /\ pc = "write"
  /\ n \in held.from..(held.to - 1)
  /\ output' = IF n = held.from THEN output ELSE Append(output, Chunk(held.from, n))
  /\ held' = NoChunk
  /\ GiveUp
  /\ UNCHANGED <<facade, blob, payloadLen, returned, senderOpen, acked, ackOpen,
                 work, delivered, outcome, result>>

(* The result of sending the acknowledgement is ignored.                   *)
Acknowledge ==
  /\ pc = "acknowledge"
  /\ acked' = ackOpen
  /\ pc' = "await"
  /\ UNCHANGED <<facade, blob, payloadLen, held, output, returned, chunks,
                 senderOpen, callerOpen, ackOpen, work, delivered, outcome,
                 result>>

Finish ==
  /\ pc \in {"await", "drain"}
  /\ result # "none"
  /\ Return(IF pc = "drain" THEN "OutputIo" ELSE Waited(result))
  /\ UNCHANGED <<facade, blob, payloadLen, held, output, senderOpen, acked,
                 ackOpen, work, delivered, outcome, result>>

(* The Tokio future is dropped at one of its await points, or the writer   *)
(* of the blocking facade panics.                                          *)
CancelPoints ==
  IF facade = "tokio" THEN {"receive", "write", "await", "drain"} ELSE {"write"}

Cancel ==
  /\ "cancel" \in Faults
  /\ pc \in CancelPoints
  /\ pc' = "dropped"
  /\ callerOpen' = FALSE
  /\ chunks' = <<>>
  /\ UNCHANGED <<facade, blob, payloadLen, held, output, returned, senderOpen,
                 acked, ackOpen, work, delivered, outcome, result>>

-----------------------------------------------------------------------------
(* The operation in the engine.                                            *)

Begin ==
  /\ work = "queued"
  /\ work' = "open"
  /\ UNCHANGED <<facade, blob, payloadLen, callerVars, chunks, senderOpen,
                 callerOpen, acked, ackOpen, delivered, outcome, result>>

(* deliver_error: the operation is answered without having run, and        *)
(* dropped after that with the ends it still owns.                         *)
Refuse(r) ==
  /\ "engine" \in Faults
  /\ work = "queued"
  /\ result' = r
  /\ work' = "answered"
  /\ UNCHANGED <<facade, blob, payloadLen, callerVars, chunks, senderOpen,
                 callerOpen, acked, ackOpen, delivered, outcome>>

Lose ==
  /\ "engine" \in Faults
  /\ work \in {"queued", "open", "stream", "acknowledged", "finished"}
  /\ work' = "lost"
  /\ UNCHANGED <<facade, blob, payloadLen, callerVars, chunks, senderOpen,
                 callerOpen, acked, ackOpen, delivered, outcome, result>>

DropReply ==
  /\ work = "lost"
  /\ result = "none"
  /\ result' = "Disconnected"
  /\ UNCHANGED <<facade, blob, payloadLen, callerVars, chunks, senderOpen,
                 callerOpen, acked, ackOpen, work, delivered, outcome>>

DropOperation ==
  /\ work \in {"answered", "lost"}
  /\ senderOpen \/ ackOpen
  /\ senderOpen' = FALSE /\ ackOpen' = FALSE
  /\ UNCHANGED <<facade, blob, payloadLen, callerVars, chunks, callerOpen, acked,
                 work, delivered, outcome, result>>

Deliver(r) ==
  /\ work = "finished"
  /\ r = outcome \/ ("engine" \in Faults /\ r = "EngineFailed")
  /\ result' = r
  /\ work' = "answered"
  /\ UNCHANGED <<facade, blob, payloadLen, callerVars, chunks, senderOpen,
                 callerOpen, acked, ackOpen, delivered, outcome>>

-----------------------------------------------------------------------------
(* The worker: load_blob_into_sender.                                      *)

(* The function returns r and drops the chunk sender and the receiver of   *)
(* the acknowledgement.                                                    *)
Compute(r) ==
  /\ outcome' = r
  /\ work' = "finished"
  /\ senderOpen' = FALSE
  /\ ackOpen' = FALSE

(* The file is opened and validated from beginning to end.                 *)
Validated ==
  CASE blob = "absent"  -> "None"
    [] blob = "invalid" -> "InvalidEnvelope"
    [] blob = "valid"   -> "Ok"

OpenAndValidate ==
  /\ work = "open"
  /\ \/ /\ Validated = "Ok"
        /\ work' = "stream"
        /\ UNCHANGED <<senderOpen, ackOpen, outcome>>
     \/ /\ Validated # "Ok"
        /\ Compute(Validated)
     \/ /\ "store" \in Faults
        /\ Compute("ReadEnvelope")
  /\ UNCHANGED <<facade, blob, payloadLen, callerVars, chunks, callerOpen, acked,
                 delivered, result>>

(* A chunk is read again and sent.                                         *)
StreamChunk ==
  LET n == delivered + Requested(payloadLen - delivered) IN
  /\ work = "stream"
  /\ delivered < payloadLen
  /\ callerOpen /\ HasRoom(chunks)
  /\ chunks' = Append(chunks, Chunk(delivered, n))
  /\ delivered' = n
  /\ UNCHANGED <<facade, blob, payloadLen, callerVars, senderOpen, callerOpen,
                 acked, ackOpen, work, outcome, result>>

(* The second read fails, or the caller is gone.                           *)
StreamFails ==
  /\ work = "stream"
  /\ delivered < payloadLen
  /\ \/ "store" \in Faults /\ Compute("ReadEnvelope")
     \/ ~callerOpen /\ Compute("StreamCancelled")
  /\ UNCHANGED <<facade, blob, payloadLen, callerVars, chunks, callerOpen, acked,
                 delivered, result>>

\* mutant: the sender is kept until the acknowledgement arrives
StreamEndKeepsSender ==
  /\ work' = "acknowledged"
  /\ UNCHANGED <<senderOpen, ackOpen, outcome>>
\* mutant: the acknowledgement is not awaited
StreamEndNoAck == Compute("Ok")
(* drop(chunks), then the worker waits for the acknowledgement.            *)
StreamEnd ==
  /\ work' = "acknowledged"
  /\ senderOpen' = FALSE
  /\ UNCHANGED <<ackOpen, outcome>>

StreamDone ==
  /\ work = "stream"
  /\ delivered = payloadLen
  /\ StreamEnd
  /\ UNCHANGED <<facade, blob, payloadLen, callerVars, chunks, callerOpen, acked,
                 delivered, result>>

AwaitAcknowledgement ==
  /\ work = "acknowledged"
  /\ \/ acked /\ Compute("Ok")
     \/ ~acked /\ ~callerOpen /\ Compute("StreamCancelled")
  /\ UNCHANGED <<facade, blob, payloadLen, callerVars, chunks, callerOpen, acked,
                 delivered, result>>

-----------------------------------------------------------------------------
(* What the destination decides.                                           *)
Writer == WriteChunk \/ \E n \in Lengths : WriteFails(n)

Caller ==
  \/ Start \/ \E r \in {"StoreClosed", "EngineFailed"} : StartRefused(r)
  \/ ReceiveChunk \/ ReceiveEnd \/ Acknowledge \/ Finish

Engine ==
  \/ Begin \/ DropReply \/ DropOperation
  \/ \E r \in Refusals : Refuse(r)
  \/ \E r \in Results : Deliver(r)
  \/ OpenAndValidate \/ StreamChunk \/ StreamFails \/ StreamDone
  \/ AwaitAcknowledgement

Next == Writer \/ Caller \/ Engine \/ Lose \/ Cancel

Spec == Init /\ [][Next]_vars

(* The threads of the engine and a caller that has called go on; the       *)
(* destination may stall for ever.                                         *)
FairSpec == Spec /\ WF_vars(Caller) /\ WF_vars(Engine)

-----------------------------------------------------------------------------
(* Properties.                                                             *)

(* What load_into returns is true: success only when the destination has   *)
(* taken the whole payload of a valid blob in order, absence only when     *)
(* there is no blob and nothing was written, although every ending closes  *)
(* the chunk channel alike; and a caller that stays is never told that it  *)
(* went away.                                                              *)
ResultsAreTrue ==
  /\ returned = "Ok" => blob = "valid" /\ IsPayload(output, payloadLen)
  /\ returned = "None" => blob = "absent" /\ output = <<>>
  /\ returned # "StreamCancelled"

(* Whatever happens, the destination has a prefix of the payload and       *)
(* nothing at all of an invalid envelope, and the operation succeeds, and  *)
(* so gives up its turn on the key, only after it has everything.          *)
OutputIsThePayload ==
  /\ \E n \in 0..payloadLen : IsPayload(output, n)
  /\ blob # "valid" => output = <<>>
  /\ outcome = "Ok" => IsPayload(output, payloadLen)

(* A caller that is gone or has nothing more to receive does not hold the  *)
(* operation: the worker notices, ends and is dropped, even with a         *)
(* destination that never answers.                                         *)
OperationDrains ==
  (pc \in {"await", "drain", "dropped"}) ~> (result # "none" /\ ~senderOpen /\ ~ackOpen)

(* With a destination that always answers, load_into returns: neither end  *)
(* waits for ever for room, a chunk, an acknowledgement or a result.       *)
EveryCallerReturns ==
  WF_vars(Writer) => (pc # "start" ~> pc \in {"returned", "dropped"})
=============================================================================
