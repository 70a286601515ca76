-------------------------- MODULE LoadStreamProofs --------------------------
(***************************************************************************)
(* Proof that a streaming load gives its destination nothing but a prefix  *)
(* of the payload, and that what load_into returns is true.                *)
(***************************************************************************)
EXTENDS LoadStream, ChunkChannelProofs

(* The variable tuple of UNCHANGED is always read as its members.          *)
USE DEF callerVars

(* Where the bytes that the destination has taken end.                     *)
Taken == IF output = <<>> THEN 0 ELSE output[Len(output)].to

(* How far the destination, the chunk that is being written and the first  *)
(* i chunks of the channel reach.                                          *)
Reach(i) == IF i > 0 THEN chunks[i].to
            ELSE IF pc = "write" THEN held.to ELSE Taken

(* Where the caller is, and which ends it has there.                       *)
CallerInv ==
  /\ callerOpen <=> pc \in {"receive", "write", "acknowledge", "await"}
  /\ ~callerOpen => chunks = <<>>
  /\ pc = "write" => held \in Chunks
  /\ pc = "acknowledge" => chunks = <<>> /\ ~senderOpen
  /\ pc = "start" => work = "none"

(* A call whose operation was never submitted.                             *)
UnsubmittedInv ==
  work = "none" =>
    /\ pc \in {"start", "returned"}
    /\ output = <<>> /\ delivered = 0
    /\ ~acked /\ ~ackOpen
    /\ outcome = "none" /\ result = "none"

(* The destination has a prefix of the payload.  As long as the caller is  *)
(* there, what it holds and what is in the channel continue that prefix,   *)
(* one chunk after the other, up to what the worker has read.              *)
ChainInv ==
  /\ IsPayload(output, Taken) /\ Taken <= payloadLen
  /\ pc = "write" => held.from = Taken /\ held.to <= payloadLen
  /\ \A i \in 1..Len(chunks) : chunks[i].from = Reach(i - 1) /\ chunks[i].to <= payloadLen
  /\ callerOpen => Reach(Len(chunks)) = delivered

(* The worker: it reads a payload only from a valid envelope, closes the   *)
(* chunk channel before that of the acknowledgement only at the end of the *)
(* payload, and so an acknowledgement says that the destination has it all.*)
WorkerInv ==
  /\ work \in {"queued", "open", "stream"} => senderOpen /\ ackOpen
  /\ ackOpen /\ ~senderOpen => delivered = payloadLen /\ blob = "valid"
  /\ blob # "valid" => /\ work # "stream" /\ delivered = 0
                       /\ output = <<>> /\ chunks = <<>> /\ pc # "write"
  /\ acked => /\ pc \in {"await", "returned", "dropped"}
              /\ blob = "valid" /\ Taken = payloadLen
  /\ outcome = "Ok" => acked
  /\ outcome = "None" => blob = "absent"
  /\ outcome = "StreamCancelled" =>
        pc \in {"drain", "dropped"} \/ returned = "OutputIo"

(* The result and what the caller makes of it.                             *)
ReplyInv ==
  /\ result # "none" => work \in {"answered", "lost"}
  /\ result \in {"none", "Disconnected"} \cup Refusals \cup {outcome}
  /\ pc # "returned" => returned = "none"
  /\ pc = "returned" =>
       \/ work = "none" /\ returned \in {"StoreClosed", "EngineFailed"}
       \/ result # "none" /\ returned = "OutputIo"
       \/ result # "none" /\ returned = Waited(result)

(* All of it; with TypeOK it is inductive.                                 *)
LoadInv == CallerInv /\ UnsubmittedInv /\ ChainInv /\ WorkerInv /\ ReplyInv

USE ChunkChannelAssumption, LoadStreamAssumption

Inv == TypeOK /\ LoadInv

(* The submitted operation begins with empty channels.                     *)
LEMMA StartStep ==
  ASSUME Inv, Start
  PROVE  Inv'
  <1>1. TypeOK'
    BY DEF Inv, LoadInv, TypeOK, Results, Refusals, CallerPcs, WorkPcs, Start
  <1>2. CallerInv'
    BY DEF Inv, LoadInv, CallerInv, UnsubmittedInv, WorkerInv, ReplyInv, Start
  <1>3. UnsubmittedInv'
    BY DEF Inv, LoadInv, CallerInv, UnsubmittedInv, Start
  <1>4. ChainInv'
    BY DEF Inv, LoadInv, CallerInv, UnsubmittedInv, ChainInv, Reach, Taken,
           Start
  <1>5. WorkerInv'
    BY DEF Inv, LoadInv, TypeOK, CallerPcs, CallerInv, UnsubmittedInv,
           WorkerInv, ReplyInv, Taken, Start
  <1>6. ReplyInv'
    BY DEF Inv, LoadInv, TypeOK, CallerInv, UnsubmittedInv, WorkerInv,
           ReplyInv, Waited, Refusals, Start
  <1> QED
    BY <1>1, <1>2, <1>3, <1>4, <1>5, <1>6 DEF Inv, LoadInv

(* A refused call returns without an operation.                            *)
LEMMA StartRefusedStep ==
  ASSUME Inv, NEW r \in {"StoreClosed", "EngineFailed"}, StartRefused(r)
  PROVE  Inv'
  <1>1. TypeOK'
    <2>1. callerOpen' \in BOOLEAN
      BY Zenon DEF Inv, TypeOK, StartRefused, Return
    <2>2. chunks' \in Seq(Chunks) /\ Len(chunks') <= Capacity
      BY EmptySequence DEF StartRefused, Return
    <2> QED
      BY <2>1, <2>2 DEF Inv, TypeOK, StartRefused, Return, CallerPcs, Results, Refusals
  <1>2. CallerInv'
    BY DEF Inv, LoadInv, CallerInv, UnsubmittedInv, WorkerInv, ReplyInv,
           StartRefused, Return
  <1>3. UnsubmittedInv'
    BY DEF Inv, LoadInv, CallerInv, UnsubmittedInv, StartRefused, Return
  <1>4. ChainInv'
    BY DEF Inv, LoadInv, CallerInv, UnsubmittedInv, ChainInv, Reach, Taken,
           StartRefused, Return
  <1>5. WorkerInv'
    BY DEF Inv, LoadInv, TypeOK, CallerPcs, CallerInv, UnsubmittedInv,
           WorkerInv, ReplyInv, Taken, StartRefused, Return
  <1>6. ReplyInv'
    BY DEF Inv, LoadInv, TypeOK, CallerInv, UnsubmittedInv, WorkerInv,
           ReplyInv, Waited, Refusals, StartRefused, Return
  <1> QED
    BY <1>1, <1>2, <1>3, <1>4, <1>5, <1>6 DEF Inv, LoadInv

(* The received chunk continues what the destination has.                  *)
LEMMA ReceiveChunkStep ==
  ASSUME Inv, ReceiveChunk
  PROVE  Inv'
  <1>1. TypeOK'
    BY DEF Inv, LoadInv, TypeOK, Results, Refusals, CallerPcs, WorkPcs,
           ReceiveChunk
  <1>2. CallerInv'
    <2>1. held' \in Chunks
      BY TailElements DEF Inv, TypeOK, ReceiveChunk
    <2> QED
      BY <2>1 DEF Inv, LoadInv, CallerInv, ReceiveChunk
  <1>3. UnsubmittedInv'
    BY DEF Inv, LoadInv, CallerInv, UnsubmittedInv, ReceiveChunk
  <1>4. ChainInv'
    BY DEF Inv, LoadInv, CallerInv, UnsubmittedInv, ChainInv, Reach, Taken,
           ReceiveChunk
  <1>5. WorkerInv'
    BY DEF Inv, LoadInv, TypeOK, CallerPcs, CallerInv, UnsubmittedInv,
           WorkerInv, ReplyInv, Taken, ReceiveChunk
  <1>6. ReplyInv'
    BY DEF Inv, LoadInv, TypeOK, CallerInv, UnsubmittedInv, WorkerInv,
           ReplyInv, Waited, Refusals, ReceiveChunk
  <1> QED
    BY <1>1, <1>2, <1>3, <1>4, <1>5, <1>6 DEF Inv, LoadInv

(* The channel is empty and will stay so.                                  *)
LEMMA ReceiveEndStep ==
  ASSUME Inv, ReceiveEnd
  PROVE  Inv'
  <1>1. TypeOK'
    BY DEF Inv, LoadInv, TypeOK, Results, Refusals, CallerPcs, WorkPcs,
           ReceiveEnd
  <1>2. CallerInv'
    BY DEF Inv, LoadInv, CallerInv, UnsubmittedInv, WorkerInv, ReplyInv,
           ReceiveEnd
  <1>3. UnsubmittedInv'
    BY DEF Inv, LoadInv, CallerInv, UnsubmittedInv, ReceiveEnd
  <1>4. ChainInv'
    BY DEF Inv, LoadInv, CallerInv, UnsubmittedInv, ChainInv, Reach, Taken,
           ReceiveEnd
  <1>5. WorkerInv'
    BY DEF Inv, LoadInv, TypeOK, CallerPcs, CallerInv, UnsubmittedInv,
           WorkerInv, ReplyInv, Taken, ReceiveEnd
  <1>6. ReplyInv'
    BY DEF Inv, LoadInv, TypeOK, CallerInv, UnsubmittedInv, WorkerInv,
           ReplyInv, Waited, Refusals, ReceiveEnd
  <1> QED
    BY <1>1, <1>2, <1>3, <1>4, <1>5, <1>6 DEF Inv, LoadInv

(* The destination takes a chunk.                                          *)
LEMMA WriteChunkStep ==
  ASSUME Inv, WriteChunk
  PROVE  Inv'
  <1>a. /\ held \in Chunks /\ held.from = Taken
        /\ output' \in Seq(Chunks) /\ Taken' = held.to
    <2>1. held \in Chunks /\ held.from = Taken
      BY DEF Inv, LoadInv, CallerInv, ChainInv, WriteChunk
    <2> QED
      BY <2>1, AppendElements DEF Inv, TypeOK, WriteChunk, Taken
  <1>1. TypeOK'
    BY <1>a DEF Inv, TypeOK, WriteChunk, CallerPcs
  <1>2. CallerInv'
    BY DEF Inv, LoadInv, CallerInv, UnsubmittedInv, WorkerInv, ReplyInv,
           WriteChunk
  <1>3. UnsubmittedInv'
    BY DEF Inv, LoadInv, CallerInv, UnsubmittedInv, WriteChunk
  <1>4. ChainInv'
    <2>1. IsPayload(output', Taken')
      BY <1>a, PayloadAppend DEF Inv, LoadInv, TypeOK, ChainInv, WriteChunk
    <2>2. \A i \in 0..Len(chunks) : Reach(i)' = Reach(i)
      BY <1>a DEF Reach, WriteChunk
    <2>3. Len(chunks) \in Nat
      BY DEF Inv, TypeOK
    <2>4. \A i \in 1..Len(chunks) : i - 1 \in 0..Len(chunks)
      BY <2>3
    <2> QED
      BY <1>a, <2>1, <2>2, <2>3, <2>4 DEF Inv, LoadInv, ChainInv, WriteChunk
  <1>5. WorkerInv'
    BY DEF Inv, LoadInv, TypeOK, CallerPcs, CallerInv, UnsubmittedInv,
           WorkerInv, ReplyInv, Taken, WriteChunk
  <1>6. ReplyInv'
    BY DEF Inv, LoadInv, TypeOK, CallerInv, UnsubmittedInv, WorkerInv,
           ReplyInv, Waited, Refusals, WriteChunk
  <1> QED
    BY <1>1, <1>2, <1>3, <1>4, <1>5, <1>6 DEF Inv, LoadInv

(* The destination takes a part of a chunk and fails.                      *)
LEMMA WriteFailsStep ==
  ASSUME Inv, NEW n \in Lengths, WriteFails(n)
  PROVE  Inv'
  <1> DEFINE part == Chunk(held.from, n)
  <1>a. /\ part \in Chunks /\ part.from = Taken /\ part.to = n
        /\ n < payloadLen
        /\ output' = output \/ output' = Append(output, part)
    <2>1. /\ held \in Chunks /\ held.from = Taken /\ held.to <= payloadLen
          /\ n \in held.from..(held.to - 1) /\ payloadLen \in Lengths
      BY DEF Inv, LoadInv, TypeOK, CallerInv, ChainInv, WriteFails
    <2> QED
      BY <2>1 DEF WriteFails, Chunks, Chunk, Lengths
  <1> HIDE DEF part
  <1>1. TypeOK'
    <2>1. callerOpen' \in BOOLEAN
      BY Zenon DEF WriteFails, GiveUp
    <2>2. /\ output' \in Seq(Chunks)
          /\ chunks' \in Seq(Chunks) /\ Len(chunks') <= Capacity
      BY <1>a, AppendElements, EmptySequence DEF Inv, TypeOK, WriteFails, GiveUp
    <2> QED
      BY <2>1, <2>2 DEF Inv, TypeOK, WriteFails, GiveUp, CallerPcs
  <1>2. CallerInv'
    BY DEF Inv, LoadInv, CallerInv, UnsubmittedInv, WorkerInv, ReplyInv,
           WriteFails, GiveUp
  <1>3. UnsubmittedInv'
    BY DEF Inv, LoadInv, CallerInv, UnsubmittedInv, WriteFails, GiveUp
  <1>4. ChainInv'
    <2>1. pc' # "write" /\ chunks' = <<>> /\ ~callerOpen' /\ payloadLen' = payloadLen
      BY DEF WriteFails, GiveUp
    <2>2. CASE output' = output
      BY <2>1, <2>2 DEF Inv, LoadInv, ChainInv, Taken
    <2>3. CASE output' = Append(output, part)
      <3>1. Taken' = n
        BY <1>a, <2>3, AppendElements DEF Inv, TypeOK, Taken
      <3>2. IsPayload(output', n)
        BY <1>a, <2>3, PayloadAppend DEF Inv, LoadInv, TypeOK, ChainInv
      <3> QED
        BY <1>a, <2>1, <3>1, <3>2 DEF Inv, LoadInv, TypeOK, ChainInv, Lengths
    <2> QED
      BY <1>a, <2>2, <2>3
  <1>5. WorkerInv'
    BY DEF Inv, LoadInv, TypeOK, CallerPcs, CallerInv, UnsubmittedInv,
           WorkerInv, ReplyInv, Taken, WriteFails, GiveUp
  <1>6. ReplyInv'
    BY DEF Inv, LoadInv, TypeOK, CallerInv, UnsubmittedInv, WorkerInv,
           ReplyInv, Waited, Refusals, WriteFails, GiveUp
  <1> QED
    BY <1>1, <1>2, <1>3, <1>4, <1>5, <1>6 DEF Inv, LoadInv

(* An acknowledgement that arrives says that the whole payload was taken.  *)
LEMMA AcknowledgeStep ==
  ASSUME Inv, Acknowledge
  PROVE  Inv'
  <1>1. TypeOK'
    BY DEF Inv, LoadInv, TypeOK, Results, Refusals, CallerPcs, WorkPcs,
           Acknowledge
  <1>2. CallerInv'
    BY DEF Inv, LoadInv, CallerInv, UnsubmittedInv, WorkerInv, ReplyInv,
           Acknowledge
  <1>3. UnsubmittedInv'
    BY DEF Inv, LoadInv, CallerInv, UnsubmittedInv, Acknowledge
  <1>4. ChainInv'
    BY DEF Inv, LoadInv, CallerInv, UnsubmittedInv, ChainInv, Reach, Taken,
           Acknowledge
  <1>5. WorkerInv'
    <2>1. ackOpen => Taken = payloadLen /\ blob = "valid"
      <3>1. callerOpen /\ chunks = <<>> /\ ~senderOpen /\ pc # "write"
        BY DEF Inv, LoadInv, CallerInv, Acknowledge
      <3>2. Taken = delivered
        BY <3>1 DEF Inv, LoadInv, ChainInv, Reach
      <3> QED
        BY <3>1, <3>2 DEF Inv, LoadInv, WorkerInv
    <2>2. acked' => ackOpen
      BY DEF Acknowledge
    <2> QED
      BY <2>1, <2>2 DEF Inv, LoadInv, WorkerInv, ReplyInv, Acknowledge, Taken
  <1>6. ReplyInv'
    BY DEF Inv, LoadInv, TypeOK, CallerInv, UnsubmittedInv, WorkerInv,
           ReplyInv, Waited, Refusals, Acknowledge
  <1> QED
    BY <1>1, <1>2, <1>3, <1>4, <1>5, <1>6 DEF Inv, LoadInv

(* The caller returns its own error or else the result.                    *)
LEMMA FinishStep ==
  ASSUME Inv, Finish
  PROVE  Inv'
  <1>1. TypeOK'
    <2>1. callerOpen' \in BOOLEAN
      BY Zenon DEF Inv, TypeOK, Finish, Return
    <2>2. /\ chunks' \in Seq(Chunks) /\ Len(chunks') <= Capacity
          /\ returned' \in Results
      BY EmptySequence DEF Inv, TypeOK, Finish, Return, Waited, Results, Refusals
    <2> QED
      BY <2>1, <2>2 DEF Inv, TypeOK, Finish, Return, CallerPcs
  <1>2. CallerInv'
    BY DEF Inv, LoadInv, CallerInv, UnsubmittedInv, WorkerInv, ReplyInv,
           Finish, Return
  <1>3. UnsubmittedInv'
    BY DEF Inv, LoadInv, CallerInv, UnsubmittedInv, Finish, Return
  <1>4. ChainInv'
    BY DEF Inv, LoadInv, CallerInv, UnsubmittedInv, ChainInv, Reach, Taken,
           Finish, Return
  <1>5. WorkerInv'
    BY DEF Inv, LoadInv, TypeOK, CallerPcs, CallerInv, UnsubmittedInv,
           WorkerInv, ReplyInv, Taken, Finish, Return
  <1>6. ReplyInv'
    BY DEF Inv, LoadInv, TypeOK, CallerInv, UnsubmittedInv, WorkerInv,
           ReplyInv, Waited, Refusals, Finish, Return
  <1> QED
    BY <1>1, <1>2, <1>3, <1>4, <1>5, <1>6 DEF Inv, LoadInv

(* The caller's future is dropped.                                         *)
LEMMA CancelStep ==
  ASSUME Inv, Cancel
  PROVE  Inv'
  <1>1. TypeOK'
    <2>1. callerOpen' \in BOOLEAN
      BY Zenon DEF Inv, TypeOK, Cancel
    <2>2. chunks' \in Seq(Chunks) /\ Len(chunks') <= Capacity
      BY EmptySequence DEF Cancel
    <2> QED
      BY <2>1, <2>2 DEF Inv, TypeOK, Cancel, CallerPcs
  <1>2. CallerInv'
    BY DEF Inv, LoadInv, CallerInv, UnsubmittedInv, WorkerInv, ReplyInv,
           Cancel, CancelPoints
  <1>3. UnsubmittedInv'
    BY DEF Inv, LoadInv, CallerInv, UnsubmittedInv, Cancel, CancelPoints
  <1>4. ChainInv'
    BY DEF Inv, LoadInv, CallerInv, UnsubmittedInv, ChainInv, Reach, Taken,
           Cancel, CancelPoints
  <1>5. WorkerInv'
    BY DEF Inv, LoadInv, TypeOK, CallerPcs, CallerInv, UnsubmittedInv,
           WorkerInv, ReplyInv, Taken, Cancel, CancelPoints
  <1>6. ReplyInv'
    BY DEF Inv, LoadInv, TypeOK, CallerInv, UnsubmittedInv, WorkerInv,
           ReplyInv, Waited, Refusals, Cancel, CancelPoints
  <1> QED
    BY <1>1, <1>2, <1>3, <1>4, <1>5, <1>6 DEF Inv, LoadInv

(* A worker takes the job.                                                 *)
LEMMA BeginStep ==
  ASSUME Inv, Begin
  PROVE  Inv'
  <1>1. TypeOK'
    BY DEF Inv, LoadInv, TypeOK, Results, Refusals, CallerPcs, WorkPcs, Begin
  <1>2. CallerInv'
    BY DEF Inv, LoadInv, CallerInv, UnsubmittedInv, WorkerInv, ReplyInv, Begin
  <1>3. UnsubmittedInv'
    BY DEF Inv, LoadInv, CallerInv, UnsubmittedInv, Begin
  <1>4. ChainInv'
    BY DEF Inv, LoadInv, CallerInv, UnsubmittedInv, ChainInv, Reach, Taken,
           Begin
  <1>5. WorkerInv'
    BY DEF Inv, LoadInv, TypeOK, CallerPcs, CallerInv, UnsubmittedInv,
           WorkerInv, ReplyInv, Taken, Begin
  <1>6. ReplyInv'
    BY DEF Inv, LoadInv, TypeOK, CallerInv, UnsubmittedInv, WorkerInv,
           ReplyInv, Waited, Refusals, Begin
  <1> QED
    BY <1>1, <1>2, <1>3, <1>4, <1>5, <1>6 DEF Inv, LoadInv

(* The operation is answered without having run.                           *)
LEMMA RefuseStep ==
  ASSUME Inv, NEW r \in Refusals, Refuse(r)
  PROVE  Inv'
  <1>1. TypeOK'
    BY DEF Inv, LoadInv, TypeOK, Results, Refusals, CallerPcs, WorkPcs, Refuse
  <1>2. CallerInv'
    BY DEF Inv, LoadInv, CallerInv, UnsubmittedInv, WorkerInv, ReplyInv,
           Refuse
  <1>3. UnsubmittedInv'
    BY DEF Inv, LoadInv, CallerInv, UnsubmittedInv, Refuse
  <1>4. ChainInv'
    BY DEF Inv, LoadInv, CallerInv, UnsubmittedInv, ChainInv, Reach, Taken,
           Refuse
  <1>5. WorkerInv'
    BY DEF Inv, LoadInv, TypeOK, CallerPcs, CallerInv, UnsubmittedInv,
           WorkerInv, ReplyInv, Taken, Refuse
  <1>6. ReplyInv'
    BY DEF Inv, LoadInv, TypeOK, CallerInv, UnsubmittedInv, WorkerInv,
           ReplyInv, Waited, Refusals, Refuse
  <1> QED
    BY <1>1, <1>2, <1>3, <1>4, <1>5, <1>6 DEF Inv, LoadInv

(* The operation is lost on its way.                                       *)
LEMMA LoseStep ==
  ASSUME Inv, Lose
  PROVE  Inv'
  <1>1. TypeOK'
    BY DEF Inv, LoadInv, TypeOK, Results, Refusals, CallerPcs, WorkPcs, Lose
  <1>2. CallerInv'
    BY DEF Inv, LoadInv, CallerInv, UnsubmittedInv, WorkerInv, ReplyInv, Lose
  <1>3. UnsubmittedInv'
    BY DEF Inv, LoadInv, CallerInv, UnsubmittedInv, Lose
  <1>4. ChainInv'
    BY DEF Inv, LoadInv, CallerInv, UnsubmittedInv, ChainInv, Reach, Taken,
           Lose
  <1>5. WorkerInv'
    BY DEF Inv, LoadInv, TypeOK, CallerPcs, CallerInv, UnsubmittedInv,
           WorkerInv, ReplyInv, Taken, Lose
  <1>6. ReplyInv'
    BY DEF Inv, LoadInv, TypeOK, CallerInv, UnsubmittedInv, WorkerInv,
           ReplyInv, Waited, Refusals, Lose
  <1> QED
    BY <1>1, <1>2, <1>3, <1>4, <1>5, <1>6 DEF Inv, LoadInv

(* The reply channel of a lost operation is dropped.                       *)
LEMMA DropReplyStep ==
  ASSUME Inv, DropReply
  PROVE  Inv'
  <1>1. TypeOK'
    BY DEF Inv, LoadInv, TypeOK, Results, Refusals, CallerPcs, WorkPcs,
           DropReply
  <1>2. CallerInv'
    BY DEF Inv, LoadInv, CallerInv, UnsubmittedInv, WorkerInv, ReplyInv,
           DropReply
  <1>3. UnsubmittedInv'
    BY DEF Inv, LoadInv, CallerInv, UnsubmittedInv, DropReply
  <1>4. ChainInv'
    BY DEF Inv, LoadInv, CallerInv, UnsubmittedInv, ChainInv, Reach, Taken,
           DropReply
  <1>5. WorkerInv'
    BY DEF Inv, LoadInv, TypeOK, CallerPcs, CallerInv, UnsubmittedInv,
           WorkerInv, ReplyInv, Taken, DropReply
  <1>6. ReplyInv'
    BY DEF Inv, LoadInv, TypeOK, CallerInv, UnsubmittedInv, WorkerInv,
           ReplyInv, Waited, Refusals, DropReply
  <1> QED
    BY <1>1, <1>2, <1>3, <1>4, <1>5, <1>6 DEF Inv, LoadInv

(* The operation's ends are dropped, both at once.                         *)
LEMMA DropOperationStep ==
  ASSUME Inv, DropOperation
  PROVE  Inv'
  <1>1. TypeOK'
    <2>1. senderOpen' \in BOOLEAN /\ ackOpen' \in BOOLEAN
      BY Zenon DEF Inv, TypeOK, DropOperation
    <2> QED
      BY <2>1 DEF Inv, TypeOK, DropOperation, WorkPcs
  <1>2. CallerInv'
    BY DEF Inv, LoadInv, CallerInv, UnsubmittedInv, WorkerInv, ReplyInv,
           DropOperation
  <1>3. UnsubmittedInv'
    BY DEF Inv, LoadInv, CallerInv, UnsubmittedInv, DropOperation
  <1>4. ChainInv'
    BY DEF Inv, LoadInv, CallerInv, UnsubmittedInv, ChainInv, Reach, Taken,
           DropOperation
  <1>5. WorkerInv'
    BY DEF Inv, LoadInv, TypeOK, CallerPcs, CallerInv, UnsubmittedInv,
           WorkerInv, ReplyInv, Taken, DropOperation
  <1>6. ReplyInv'
    BY DEF Inv, LoadInv, TypeOK, CallerInv, UnsubmittedInv, WorkerInv,
           ReplyInv, Waited, Refusals, DropOperation
  <1> QED
    BY <1>1, <1>2, <1>3, <1>4, <1>5, <1>6 DEF Inv, LoadInv

(* The worker's result reaches the caller.                                 *)
LEMMA DeliverStep ==
  ASSUME Inv, NEW r \in Results, Deliver(r)
  PROVE  Inv'
  <1>1. TypeOK'
    BY DEF Inv, LoadInv, TypeOK, Results, Refusals, CallerPcs, WorkPcs,
           Deliver
  <1>2. CallerInv'
    BY DEF Inv, LoadInv, CallerInv, UnsubmittedInv, WorkerInv, ReplyInv,
           Deliver
  <1>3. UnsubmittedInv'
    BY DEF Inv, LoadInv, CallerInv, UnsubmittedInv, Deliver
  <1>4. ChainInv'
    BY DEF Inv, LoadInv, CallerInv, UnsubmittedInv, ChainInv, Reach, Taken,
           Deliver
  <1>5. WorkerInv'
    BY DEF Inv, LoadInv, TypeOK, CallerPcs, CallerInv, UnsubmittedInv,
           WorkerInv, ReplyInv, Taken, Deliver
  <1>6. ReplyInv'
    BY DEF Inv, LoadInv, TypeOK, CallerInv, UnsubmittedInv, WorkerInv,
           ReplyInv, Waited, Refusals, Deliver
  <1> QED
    BY <1>1, <1>2, <1>3, <1>4, <1>5, <1>6 DEF Inv, LoadInv

(* Only a valid envelope is read a second time.                            *)
LEMMA OpenAndValidateStep ==
  ASSUME Inv, OpenAndValidate
  PROVE  Inv'
  <1>1. TypeOK'
    <2>1. senderOpen' \in BOOLEAN /\ ackOpen' \in BOOLEAN
      BY Zenon DEF Inv, TypeOK, OpenAndValidate, Compute
    <2>2. outcome' \in Results \cup {"none"}
      BY DEF Inv, TypeOK, OpenAndValidate, Compute, Validated, Results
    <2> QED
      BY <2>1, <2>2 DEF Inv, TypeOK, OpenAndValidate, Compute, WorkPcs
  <1>2. CallerInv'
    BY DEF Inv, LoadInv, CallerInv, UnsubmittedInv, WorkerInv, ReplyInv,
           OpenAndValidate, Compute, Validated
  <1>3. UnsubmittedInv'
    BY DEF Inv, LoadInv, CallerInv, UnsubmittedInv, OpenAndValidate, Compute,
           Validated
  <1>4. ChainInv'
    BY DEF Inv, LoadInv, CallerInv, UnsubmittedInv, ChainInv, Reach, Taken,
           OpenAndValidate, Compute, Validated
  <1>5. WorkerInv'
    BY DEF Inv, LoadInv, TypeOK, CallerPcs, CallerInv, UnsubmittedInv,
           WorkerInv, ReplyInv, Taken, OpenAndValidate, Compute, Validated
  <1>6. ReplyInv'
    BY DEF Inv, LoadInv, TypeOK, CallerInv, UnsubmittedInv, WorkerInv,
           ReplyInv, Waited, Refusals, OpenAndValidate, Compute, Validated
  <1> QED
    BY <1>1, <1>2, <1>3, <1>4, <1>5, <1>6 DEF Inv, LoadInv

(* A chunk in the channel begins where the one before it ends.             *)
LEMMA StreamChunkStep ==
  ASSUME Inv, StreamChunk
  PROVE  Inv'
  <1> DEFINE n == delivered + Requested(payloadLen - delivered)
  <1>a. /\ delivered \in Nat /\ n \in Nat /\ n <= payloadLen
        /\ Chunk(delivered, n) \in Chunks
    <2>1. payloadLen - delivered \in Nat \ {0} /\ payloadLen \in Lengths /\ delivered \in Nat
      BY DEF Inv, TypeOK, StreamChunk, Lengths
    <2>2. Requested(payloadLen - delivered) \in 1..(payloadLen - delivered)
      BY <2>1, RequestedBounds
    <2> QED
      BY <2>1, <2>2 DEF Lengths, Chunk, Chunks
  <1>b. /\ chunks' = Append(chunks, Chunk(delivered, n)) /\ delivered' = n
         /\ Len(chunks) \in Nat /\ Len(chunks) < Capacity
    BY DEF StreamChunk, HasRoom, Inv, TypeOK
  <1> HIDE DEF n
  <1>c. /\ chunks' \in Seq(Chunks)
          /\ Len(chunks') = Len(chunks) + 1
          /\ \A i \in 1..Len(chunks) : chunks'[i] = chunks[i]
          /\ chunks'[Len(chunks) + 1] = Chunk(delivered, n)
    BY <1>a, <1>b, AppendElements DEF Inv, TypeOK
  <1>1. TypeOK'
    <2>1. delivered' \in 0..payloadLen'
      BY <1>a, <1>b DEF Inv, TypeOK, StreamChunk, Lengths
    <2> QED
      BY <1>b, <1>c, <2>1 DEF Inv, TypeOK, StreamChunk
  <1>2. CallerInv'
    BY DEF Inv, LoadInv, CallerInv, UnsubmittedInv, WorkerInv, ReplyInv,
           StreamChunk
  <1>3. UnsubmittedInv'
    BY DEF Inv, LoadInv, CallerInv, UnsubmittedInv, StreamChunk
  <1>4. ChainInv'
    <2>1. /\ callerOpen /\ Reach(Len(chunks)) = delivered
          /\ UNCHANGED <<payloadLen, pc, held, output>>
      BY DEF Inv, LoadInv, ChainInv, StreamChunk
    <2>2. \A i \in 0..Len(chunks) : Reach(i)' = Reach(i)
      BY <1>b, <1>c, <2>1 DEF Reach, Taken
    <2>3. ASSUME NEW i \in 1..Len(chunks')
          PROVE  chunks'[i].from = Reach(i - 1)' /\ chunks'[i].to <= payloadLen
      <3>1. i - 1 \in 0..Len(chunks)
        BY <1>b, <1>c
      <3>2. CASE i <= Len(chunks)
        BY <1>b, <1>c, <2>2, <3>1, <3>2 DEF Inv, LoadInv, ChainInv
      <3>3. CASE i = Len(chunks) + 1
        BY <1>a, <1>b, <1>c, <2>1, <2>2, <3>1, <3>3 DEF Chunk
      <3> QED
        BY <1>b, <1>c, <3>2, <3>3
    <2>4. Reach(Len(chunks))' = delivered'
      BY <1>b, <1>c DEF Reach, Chunk
    <2>5. Taken' = Taken
      BY <2>1 DEF Taken
    <2> QED
      BY <2>1, <2>3, <2>4, <2>5 DEF Inv, LoadInv, ChainInv
  <1>5. WorkerInv'
    BY DEF Inv, LoadInv, TypeOK, CallerPcs, CallerInv, UnsubmittedInv,
           WorkerInv, ReplyInv, Taken, StreamChunk
  <1>6. ReplyInv'
    BY DEF Inv, LoadInv, TypeOK, CallerInv, UnsubmittedInv, WorkerInv,
           ReplyInv, Waited, Refusals, StreamChunk
  <1> QED
    BY <1>1, <1>2, <1>3, <1>4, <1>5, <1>6 DEF Inv, LoadInv

(* The second pass ends early.                                             *)
LEMMA StreamFailsStep ==
  ASSUME Inv, StreamFails
  PROVE  Inv'
  <1>1. TypeOK'
    <2>1. senderOpen' \in BOOLEAN /\ ackOpen' \in BOOLEAN
      BY Zenon DEF Inv, TypeOK, StreamFails, Compute
    <2> QED
      BY <2>1 DEF Inv, TypeOK, StreamFails, Compute, WorkPcs, Results
  <1>2. CallerInv'
    BY DEF Inv, LoadInv, CallerInv, UnsubmittedInv, WorkerInv, ReplyInv,
           StreamFails, Compute
  <1>3. UnsubmittedInv'
    BY DEF Inv, LoadInv, CallerInv, UnsubmittedInv, StreamFails, Compute
  <1>4. ChainInv'
    BY DEF Inv, LoadInv, CallerInv, UnsubmittedInv, ChainInv, Reach, Taken,
           StreamFails, Compute
  <1>5. WorkerInv'
    BY DEF Inv, LoadInv, TypeOK, CallerPcs, CallerInv, UnsubmittedInv,
           WorkerInv, ReplyInv, Taken, StreamFails, Compute
  <1>6. ReplyInv'
    BY DEF Inv, LoadInv, TypeOK, CallerInv, UnsubmittedInv, WorkerInv,
           ReplyInv, Waited, Refusals, StreamFails, Compute
  <1> QED
    BY <1>1, <1>2, <1>3, <1>4, <1>5, <1>6 DEF Inv, LoadInv

(* The chunk channel is closed before the other one at the end of the      *)
(* payload.                                                                *)
LEMMA StreamDoneStep ==
  ASSUME Inv, StreamDone
  PROVE  Inv'
  <1>1. TypeOK'
    <2>1. senderOpen' \in BOOLEAN
      BY Zenon DEF Inv, TypeOK, StreamDone, StreamEnd
    <2> QED
      BY <2>1 DEF Inv, TypeOK, StreamDone, StreamEnd, WorkPcs
  <1>2. CallerInv'
    BY DEF Inv, LoadInv, CallerInv, UnsubmittedInv, WorkerInv, ReplyInv,
           StreamDone, StreamEnd
  <1>3. UnsubmittedInv'
    BY DEF Inv, LoadInv, CallerInv, UnsubmittedInv, StreamDone, StreamEnd
  <1>4. ChainInv'
    BY DEF Inv, LoadInv, CallerInv, UnsubmittedInv, ChainInv, Reach, Taken,
           StreamDone, StreamEnd
  <1>5. WorkerInv'
    BY DEF Inv, LoadInv, TypeOK, CallerPcs, CallerInv, UnsubmittedInv,
           WorkerInv, ReplyInv, Taken, StreamDone, StreamEnd
  <1>6. ReplyInv'
    BY DEF Inv, LoadInv, TypeOK, CallerInv, UnsubmittedInv, WorkerInv,
           ReplyInv, Waited, Refusals, StreamDone, StreamEnd
  <1> QED
    BY <1>1, <1>2, <1>3, <1>4, <1>5, <1>6 DEF Inv, LoadInv

(* The worker has the acknowledgement, or the caller gave up or is gone.   *)
LEMMA AwaitAcknowledgementStep ==
  ASSUME Inv, AwaitAcknowledgement
  PROVE  Inv'
  <1>1. TypeOK'
    <2>1. senderOpen' \in BOOLEAN /\ ackOpen' \in BOOLEAN
      BY Zenon DEF Inv, TypeOK, AwaitAcknowledgement, Compute
    <2> QED
      BY <2>1 DEF Inv, TypeOK, AwaitAcknowledgement, Compute, WorkPcs, Results
  <1>2. CallerInv'
    BY DEF Inv, LoadInv, CallerInv, UnsubmittedInv, WorkerInv, ReplyInv,
           AwaitAcknowledgement, Compute
  <1>3. UnsubmittedInv'
    BY DEF Inv, LoadInv, CallerInv, UnsubmittedInv, AwaitAcknowledgement,
           Compute
  <1>4. ChainInv'
    BY DEF Inv, LoadInv, CallerInv, UnsubmittedInv, ChainInv, Reach, Taken,
           AwaitAcknowledgement, Compute
  <1>5. WorkerInv'
    BY DEF Inv, LoadInv, TypeOK, CallerPcs, CallerInv, UnsubmittedInv,
           WorkerInv, ReplyInv, Taken, AwaitAcknowledgement, Compute
  <1>6. ReplyInv'
    BY DEF Inv, LoadInv, TypeOK, CallerInv, UnsubmittedInv, WorkerInv,
           ReplyInv, Waited, Refusals, AwaitAcknowledgement, Compute
  <1> QED
    BY <1>1, <1>2, <1>3, <1>4, <1>5, <1>6 DEF Inv, LoadInv

(* Nothing has happened: the invariant holds.                              *)
LEMMA InitInv == Init => Inv
  <1> SUFFICES ASSUME Init PROVE Inv
    OBVIOUS
  <1>1. chunks = <<>> /\ output = <<>> /\ pc = "start" /\ ~callerOpen
    BY DEF Init
  <1>2. TypeOK
    <2>1. /\ senderOpen \in BOOLEAN /\ callerOpen \in BOOLEAN
          /\ acked \in BOOLEAN /\ ackOpen \in BOOLEAN
          /\ chunks \in Seq(Chunks) /\ output \in Seq(Chunks)
      BY Zenon, EmptySequence DEF Init
    <2> QED
      BY <1>1, <2>1 DEF Init, TypeOK, Lengths, CallerPcs, WorkPcs
  <1>3. CallerInv /\ UnsubmittedInv /\ ReplyInv
    BY DEF Init, CallerInv, UnsubmittedInv, ReplyInv
  <1>4. ChainInv
    BY <1>1, PayloadEmpty DEF Init, ChainInv, Taken, Lengths
  <1>5. WorkerInv
    BY DEF Init, WorkerInv
  <1> QED
    BY <1>2, <1>3, <1>4, <1>5 DEF Inv, LoadInv

(* A step of the destination, of the caller, of the operation or of the    *)
(* fault it meets preserves the invariant, and so does a step of somebody  *)
(* else.                                                                   *)
LEMMA NextInv == Inv /\ [Next]_vars => Inv'
  <1> SUFFICES ASSUME Inv, [Next]_vars PROVE Inv'
    OBVIOUS
  <1>1. CASE Writer
    BY <1>1, WriteChunkStep, WriteFailsStep DEF Writer
  <1>2. CASE Caller
    BY <1>2, StartStep, StartRefusedStep, ReceiveChunkStep, ReceiveEndStep,
       AcknowledgeStep, FinishStep DEF Caller
  <1>3. CASE Engine
    BY <1>3, BeginStep, DropReplyStep, DropOperationStep, RefuseStep, DeliverStep,
       OpenAndValidateStep, StreamChunkStep, StreamFailsStep, StreamDoneStep,
       AwaitAcknowledgementStep DEF Engine
  <1>4. CASE Lose \/ Cancel
    BY <1>4, LoseStep, CancelStep
  <1>5. CASE UNCHANGED vars
    <2> USE <1>5 DEF vars
    <2>1. TypeOK' /\ CallerInv' /\ UnsubmittedInv'
      BY DEF Inv, LoadInv, TypeOK, CallerInv, UnsubmittedInv
    <2>2. ChainInv'
      BY DEF Inv, LoadInv, ChainInv, Reach, Taken
    <2>3. WorkerInv' /\ ReplyInv'
      BY DEF Inv, LoadInv, WorkerInv, ReplyInv, Taken
    <2> QED
      BY <2>1, <2>2, <2>3 DEF Inv, LoadInv
  <1> QED
    BY <1>1, <1>2, <1>3, <1>4, <1>5 DEF Next

(* The invariant holds throughout every call of load_into: types, which    *)
(* ends are open where, the chain of chunks from the worker to the         *)
(* destination, and what the acknowledgement and the results say.          *)
THEOREM LoadStreamInvariant == Spec => [](TypeOK /\ LoadInv)
  <1>1. Inv <=> TypeOK /\ LoadInv
    BY DEF Inv
  <1> QED
    BY <1>1, InitInv, NextInv, PTL DEF Spec

(* Whatever fails, the destination of load_into has a prefix of the        *)
(* payload and nothing of an invalid envelope, and the operation succeeds  *)
(* only after the destination has everything.                              *)
THEOREM OutputIsThePayloadCorrect == Spec => []OutputIsThePayload
  <1>1. ASSUME Inv PROVE OutputIsThePayload
    <2>1. IsPayload(output, Taken) /\ Taken \in 0..payloadLen
      <3>1. Taken \in Nat
        <4>1. output # <<>> => output[Len(output)] \in Chunks
          BY <1>1, TailElements DEF Inv, TypeOK
        <4> QED
          BY <4>1 DEF Taken, Chunks, Lengths
      <3> QED
        BY <1>1, <3>1 DEF Inv, LoadInv, ChainInv, TypeOK, Lengths
    <2>2. outcome = "Ok" => Taken = payloadLen
      BY <1>1 DEF Inv, LoadInv, WorkerInv
    <2> QED
      BY <1>1, <2>1, <2>2 DEF Inv, LoadInv, WorkerInv, OutputIsThePayload
  <1> QED
    BY <1>1, InitInv, NextInv, PTL DEF Spec

(* load_into returns success only when the destination has the whole       *)
(* payload, absence only when there is no blob and nothing was written,    *)
(* and tells no caller that its stream was cancelled.                      *)
THEOREM LoadResultsCorrect == Spec => []ResultsAreTrue
  <1>1. ASSUME Inv PROVE ResultsAreTrue
    <2>1. returned = "Ok" => outcome = "Ok"
      BY <1>1 DEF Inv, LoadInv, ReplyInv, Waited, Refusals
    <2>2. returned = "None" => outcome = "None"
      BY <1>1 DEF Inv, LoadInv, ReplyInv, Waited, Refusals
    <2>3. returned # "StreamCancelled"
      BY <1>1 DEF Inv, LoadInv, WorkerInv, ReplyInv, Waited, Refusals
    <2>4. outcome = "Ok" => blob = "valid" /\ IsPayload(output, payloadLen)
      BY <1>1 DEF Inv, LoadInv, WorkerInv, ChainInv
    <2>5. outcome = "None" => blob = "absent" /\ output = <<>>
      BY <1>1 DEF Inv, LoadInv, WorkerInv
    <2> QED
      BY <2>1, <2>2, <2>3, <2>4, <2>5 DEF ResultsAreTrue
  <1> QED
    BY <1>1, InitInv, NextInv, PTL DEF Spec
=============================================================================
