--------------------------- MODULE SaveStreamProofs ---------------------------
(***************************************************************************)
(* Proof that a streaming save replaces the blob only by the whole input,  *)
(* and that what save_from returns is true.                                *)
(***************************************************************************)
EXTENDS SaveStream, ChunkChannelProofs

(* The variable tuples of UNCHANGED are always read as their members.      *)
USE DEF callerVars, workerVars

(* The operation's end of the channel is in use: nothing has been decided. *)
Live == work \in {"queued", "open", "receive"}

(* How far the staging file and the first i messages of the channel reach. *)
Reach(i) == IF i = 0 THEN written ELSE chunks[i].to

(* The caller: what it has read and handed over at each point of its loop, *)
(* and what it knows of the input.                                         *)
CallerInv ==
  /\ sent <= read /\ read <= declared
  /\ pc = "read" => sent = read /\ read < declared
  /\ pc \in {"probe", "complete"} \/ ended => sent = declared
  /\ pc = "complete" => ended
  /\ pc \in {"start", "read", "send", "probe", "drain"} => ~ended
  /\ verdict # "none" => ~ended /\ pc \in {"drain", "returned", "dropped"}
  /\ pc = "drain" => verdict # "none"
  /\ pc \in {"read", "send", "probe", "complete"} => senderOpen
  /\ pc = "start" => work = "none"

(* A call whose operation was never submitted.                             *)
UnsubmittedInv ==
  work = "none" =>
    /\ pc \in {"start", "returned"}
    /\ chunks = <<>> /\ ~receiverOpen
    /\ read = 0 /\ sent = 0 /\ written = 0
    /\ outcome = "none" /\ result = "none" /\ verdict = "none"

(* While the operation is live the staging file and the channel hold, one  *)
(* after the other, the bytes that were handed over, and the marker comes  *)
(* last and only after the end of the input was seen.                      *)
ChannelInv ==
  /\ \A i \in 1..Len(chunks) :
        \/ chunks[i] = Complete /\ i = Len(chunks) /\ ended /\ ~senderOpen
        \/ chunks[i] \in Chunks /\ chunks[i].to <= declared
  /\ Live =>
       /\ receiverOpen
       /\ \A i \in 1..Len(chunks) :
             chunks[i] \in Chunks => chunks[i].from = Reach(i - 1)
       /\ \A i \in 0..Len(chunks) :
             \/ i < Len(chunks) /\ chunks[i + 1] \in Chunks
             \/ i > 0 /\ chunks[i] = Complete
             \/ Reach(i) = sent
       /\ pc = "await" => chunks # <<>> /\ chunks[Len(chunks)] = Complete

(* The worker: what it has staged and what its result says.                *)
WorkerInv ==
  /\ IsPayload(staged, written)
  /\ Live \/ work = "commit" => outcome = "none"
  /\ work = "commit" \/ canonical = "new" => ended /\ written = declared
  /\ canonical = "new" => outcome \in {"Ok", "AtomicCommit", "SyncNamespaceDirectory"}
  /\ outcome = "Ok" => canonical = "new"
  /\ outcome \in {"none", "Ok", "AtomicCommit", "SyncNamespaceDirectory",
                  "StreamCancelled"} \cup WriteErrors
  /\ outcome = "StreamCancelled" => pc = "dropped" \/ verdict # "none"

(* The result and what the caller makes of it.                             *)
ReplyInv ==
  /\ result # "none" => work \in {"answered", "lost"}
  /\ \/ result \in {"none", "Disconnected", "EngineFailed"}
     \/ result \in {"StoreClosed", "WorkerUnavailable"} /\ outcome = "none"
     \/ result = outcome
  /\ pc # "returned" => returned = "none"
  /\ pc = "returned" =>
       \/ work = "none" /\ returned \in {"BlobTooLarge", "StoreClosed", "EngineFailed"}
       \/ verdict # "none" /\ returned = verdict
       \/ verdict = "none" /\ result # "none" /\ returned = Waited(result)

(* All of it; with TypeOK it is inductive.                                 *)
SaveInv == CallerInv /\ UnsubmittedInv /\ ChannelInv /\ WorkerInv /\ ReplyInv

USE ChunkChannelAssumption, SaveStreamAssumption

Inv == TypeOK /\ SaveInv

(* The marker is not a chunk.                                              *)
LEMMA CompleteIsNoChunk == Complete \notin Chunks
  BY DEF Complete, Chunks

(* A length is a natural number.                                           *)
LEMMA ZeroLength == \A n \in Lengths : n \in Nat
  BY DEF Lengths

(* The submitted operation begins with an empty channel and an empty       *)
(* staging file.                                                           *)
LEMMA StartStep ==
  ASSUME Inv, Start
  PROVE  Inv'
  <1>1. TypeOK'
    BY DEF Inv, SaveInv, TypeOK, CallerPcs, WorkPcs, Start, Fits, NextRead
  <1>2. CallerInv'
    BY ZeroLength DEF Inv, SaveInv, TypeOK, CallerInv, UnsubmittedInv, Start,
                      NextRead
  <1>3. UnsubmittedInv'
    BY DEF Inv, SaveInv, UnsubmittedInv, Start
  <1>4. ChannelInv'
    <2>1. chunks' = <<>> /\ written' = 0 /\ sent' = 0 /\ receiverOpen' /\ pc' # "await"
      BY DEF Inv, SaveInv, CallerInv, UnsubmittedInv, Start, NextRead
    <2> QED
      BY <2>1 DEF ChannelInv, Reach
  <1>5. WorkerInv'
    BY DEF Inv, SaveInv, CallerInv, UnsubmittedInv, WorkerInv, Start, NextRead
  <1>6. ReplyInv'
    BY DEF Inv, SaveInv, CallerInv, ReplyInv, InputErrors, WriteErrors, Start,
           Fits, NextRead
  <1> QED
    BY <1>1, <1>2, <1>3, <1>4, <1>5, <1>6 DEF Inv, SaveInv

(* A refused call returns without an operation.                            *)
LEMMA StartRefusedStep ==
  ASSUME Inv, NEW r \in Results, StartRefused(r)
  PROVE  Inv'
  <1>1. TypeOK'
    <2>1. senderOpen' \in BOOLEAN
      BY Zenon DEF StartRefused, Return
    <2>2. returned' \in Results \cup {"none"}
      BY DEF StartRefused, Return
    <2> QED
      BY <2>1, <2>2 DEF Inv, SaveInv, TypeOK, StartRefused, Return, CallerPcs
  <1>2. CallerInv'
    BY DEF Inv, SaveInv, CallerInv, StartRefused, Return
  <1>3. UnsubmittedInv'
    BY DEF Inv, SaveInv, UnsubmittedInv, StartRefused, Return
  <1>4. ChannelInv'
    BY DEF Inv, SaveInv, ChannelInv, Live, Reach, StartRefused, Return
  <1>5. WorkerInv'
    BY DEF Inv, SaveInv, WorkerInv, Live, StartRefused, Return
  <1>6. ReplyInv'
    BY DEF Inv, SaveInv, CallerInv, ReplyInv, InputErrors, WriteErrors,
           StartRefused, Fits, Return
  <1> QED
    BY <1>1, <1>2, <1>3, <1>4, <1>5, <1>6 DEF Inv, SaveInv

(* A Tokio caller whose operation has ended returns its result.            *)
LEMMA InterruptStep ==
  ASSUME Inv, Interrupt
  PROVE  Inv'
  <1>1. TypeOK'
    <2>1. senderOpen' \in BOOLEAN
      BY Zenon DEF Interrupt, Return
    <2>2. returned' \in Results \cup {"none"}
      BY DEF Inv, TypeOK, Interrupt, Interrupted, Return, Waited, Results, Refusals
    <2> QED
      BY <2>1, <2>2 DEF Inv, SaveInv, TypeOK, Interrupt, Return, CallerPcs
  <1>2. CallerInv'
    BY DEF Inv, SaveInv, CallerInv, Interrupt, Return
  <1>3. UnsubmittedInv'
    BY DEF Inv, SaveInv, UnsubmittedInv, Interrupt
  <1>4. ChannelInv'
    BY DEF Inv, SaveInv, ChannelInv, Live, Reach, Interrupt, Return
  <1>5. WorkerInv'
    BY DEF Inv, SaveInv, WorkerInv, Live, Interrupt, Return
  <1>6. ReplyInv'
    BY DEF Inv, SaveInv, CallerInv, ReplyInv, InputErrors, WriteErrors,
           Interrupt, Interrupted, Return
  <1> QED
    BY <1>1, <1>2, <1>3, <1>4, <1>5, <1>6 DEF Inv, SaveInv

(* A chunk in the channel begins where the one before it ends.             *)
LEMMA SendChunkStep ==
  ASSUME Inv, SendChunk
  PROVE  Inv'
  <1>a. /\ Chunk(sent, read) \in Chunks
        /\ chunks' \in Seq(Chunks \cup {Complete})
        /\ Len(chunks) \in Nat /\ Len(chunks) < Capacity
        /\ Len(chunks') = Len(chunks) + 1
        /\ chunks' # <<>>
        /\ \A i \in 1..Len(chunks) : chunks'[i] = chunks[i]
        /\ chunks'[Len(chunks) + 1] = Chunk(sent, read)
    BY AppendElements DEF Inv, TypeOK, SendChunk, HasRoom, Chunk, Chunks
  <1>1. TypeOK'
    BY <1>a DEF Inv, TypeOK, SendChunk, NextRead, CallerPcs
  <1>2. CallerInv'
    BY DEF Inv, SaveInv, TypeOK, CallerInv, Lengths, SendChunk, NextRead
  <1>3. UnsubmittedInv'
    BY DEF Inv, SaveInv, UnsubmittedInv, SendChunk
  <1>4. ChannelInv'
    <2>1. chunks' # <<>> /\ pc' # "await"
      BY <1>a DEF SendChunk, NextRead
    <2>2. ASSUME NEW i \in 1..Len(chunks')
          PROVE  \/ chunks'[i] = Complete /\ i = Len(chunks') /\ ended' /\ ~senderOpen'
                 \/ chunks'[i] \in Chunks /\ chunks'[i].to <= declared'
      BY <1>a DEF Inv, SaveInv, CallerInv, ChannelInv, SendChunk, Chunks, Chunk
    <2>3. ASSUME Live', NEW i \in 1..Len(chunks'), chunks'[i] \in Chunks
          PROVE  chunks'[i].from = Reach(i - 1)'
      <3>1. CASE i <= Len(chunks)
        BY <1>a, <2>3, <3>1 DEF Inv, SaveInv, ChannelInv, SendChunk, Live, Reach
      <3>2. CASE i = Len(chunks) + 1
        <4>1. Reach(Len(chunks)) = sent
          <5>1. Live /\ senderOpen
            BY <2>3 DEF Inv, SaveInv, CallerInv, SendChunk, Live
          <5>2. Len(chunks) > 0 => chunks[Len(chunks)] # Complete
            BY <1>a, <5>1, CompleteIsNoChunk DEF Inv, SaveInv, ChannelInv
          <5> QED
            BY <1>a, <5>1, <5>2 DEF Inv, SaveInv, ChannelInv
        <4>2. Reach(i - 1)' = Reach(Len(chunks))
          BY <1>a, <3>2 DEF Reach, SendChunk
        <4> QED
          BY <1>a, <3>2, <4>1, <4>2 DEF Chunk
      <3> QED
        BY <1>a, <3>1, <3>2
    <2>4. ASSUME Live', NEW i \in 0..Len(chunks')
          PROVE  \/ i < Len(chunks') /\ chunks'[i + 1] \in Chunks
                 \/ i > 0 /\ chunks'[i] = Complete
                 \/ Reach(i)' = sent'
      <3>1. CASE i < Len(chunks)
        BY <1>a, <2>4, <3>1, <2>2 DEF Inv, SaveInv, CallerInv, ChannelInv, SendChunk, Live
      <3>2. CASE i = Len(chunks)
        BY <1>a, <3>2
      <3>3. CASE i = Len(chunks) + 1
        BY <1>a, <3>3 DEF Reach, Chunk, SendChunk
      <3> QED
        BY <1>a, <3>1, <3>2, <3>3
    <2>5. Live' => receiverOpen'
      BY DEF SendChunk
    <2> QED
      BY <2>1, <2>2, <2>3, <2>4, <2>5 DEF ChannelInv
  <1>5. WorkerInv'
    BY DEF Inv, SaveInv, WorkerInv, Live, SendChunk
  <1>6. ReplyInv'
    BY DEF Inv, SaveInv, ReplyInv, InputErrors, WriteErrors, SendChunk,
           NextRead
  <1> QED
    BY <1>1, <1>2, <1>3, <1>4, <1>5, <1>6 DEF Inv, SaveInv

(* The marker follows the last of the declared bytes.                      *)
LEMMA SendCompleteStep ==
  ASSUME Inv, SendComplete
  PROVE  Inv'
  <1>a. /\ chunks' \in Seq(Chunks \cup {Complete})
        /\ Len(chunks) \in Nat /\ Len(chunks) < Capacity
        /\ Len(chunks') = Len(chunks) + 1
        /\ chunks' # <<>>
        /\ \A i \in 1..Len(chunks) : chunks'[i] = chunks[i]
        /\ chunks'[Len(chunks) + 1] = Complete
    BY AppendElements DEF Inv, TypeOK, SendComplete, HasRoom
  <1>1. TypeOK'
    <2>1. senderOpen' \in BOOLEAN
      BY Zenon DEF SendComplete
    <2> QED
      BY <1>a, <2>1 DEF Inv, TypeOK, SendComplete, CallerPcs
  <1>2. CallerInv'
    BY DEF Inv, SaveInv, CallerInv, SendComplete
  <1>3. UnsubmittedInv'
    BY DEF Inv, SaveInv, UnsubmittedInv, SendComplete
  <1>4. ChannelInv'
    <2>1. chunks' # <<>> /\ chunks'[Len(chunks')] = Complete
      BY <1>a
    <2>2. ASSUME NEW i \in 1..Len(chunks')
          PROVE  \/ chunks'[i] = Complete /\ i = Len(chunks') /\ ended' /\ ~senderOpen'
                 \/ chunks'[i] \in Chunks /\ chunks'[i].to <= declared'
      BY <1>a DEF Inv, SaveInv, CallerInv, ChannelInv, SendComplete
    <2>3. ASSUME Live', NEW i \in 1..Len(chunks'), chunks'[i] \in Chunks
          PROVE  chunks'[i].from = Reach(i - 1)'
      <3>1. CASE i <= Len(chunks)
        BY <1>a, <2>3, <3>1 DEF Inv, SaveInv, ChannelInv, SendComplete, Live, Reach
      <3>2. CASE i = Len(chunks) + 1
        BY <1>a, <2>3, <3>2, CompleteIsNoChunk
      <3> QED
        BY <1>a, <3>1, <3>2
    <2>4. ASSUME Live', NEW i \in 0..Len(chunks')
          PROVE  \/ i < Len(chunks') /\ chunks'[i + 1] \in Chunks
                 \/ i > 0 /\ chunks'[i] = Complete
                 \/ Reach(i)' = sent'
      <3>1. CASE i < Len(chunks)
        BY <1>a, <2>4, <3>1, <2>2 DEF Inv, SaveInv, CallerInv, ChannelInv, SendComplete, Live
      <3>2. CASE i = Len(chunks)
        <4>1. Reach(Len(chunks)) = sent
          <5>1. Live /\ senderOpen
            BY <2>4 DEF Inv, SaveInv, CallerInv, SendComplete, Live
          <5>2. Len(chunks) > 0 => chunks[Len(chunks)] # Complete
            BY <1>a, <5>1, CompleteIsNoChunk DEF Inv, SaveInv, ChannelInv
          <5> QED
            BY <1>a, <5>1, <5>2 DEF Inv, SaveInv, ChannelInv
        <4> QED
          BY <1>a, <3>2, <4>1 DEF Reach, SendComplete
      <3>3. CASE i = Len(chunks) + 1
        BY <1>a, <3>3
      <3> QED
        BY <1>a, <3>1, <3>2, <3>3
    <2>5. Live' => receiverOpen'
      BY DEF SendComplete
    <2> QED
      BY <2>1, <2>2, <2>3, <2>4, <2>5 DEF ChannelInv
  <1>5. WorkerInv'
    BY DEF Inv, SaveInv, WorkerInv, Live, SendComplete
  <1>6. ReplyInv'
    BY DEF Inv, SaveInv, ReplyInv, InputErrors, WriteErrors, SendComplete
  <1> QED
    BY <1>1, <1>2, <1>3, <1>4, <1>5, <1>6 DEF Inv, SaveInv

(* A failed send says that the operation is over.                          *)
LEMMA SendFailsStep ==
  ASSUME Inv, SendFails
  PROVE  Inv'
  <1>1. TypeOK'
    BY DEF Inv, SaveInv, TypeOK, CallerPcs, WorkPcs, SendFails
  <1>2. CallerInv'
    BY DEF Inv, SaveInv, CallerInv, SendFails
  <1>3. UnsubmittedInv'
    BY DEF Inv, SaveInv, UnsubmittedInv, SendFails
  <1>4. ChannelInv'
    BY DEF Inv, SaveInv, ChannelInv, Live, SendFails
  <1>5. WorkerInv'
    BY DEF Inv, SaveInv, WorkerInv, Live, SendFails
  <1>6. ReplyInv'
    BY DEF Inv, SaveInv, ReplyInv, InputErrors, WriteErrors, SendFails
  <1> QED
    BY <1>1, <1>2, <1>3, <1>4, <1>5, <1>6 DEF Inv, SaveInv

(* The caller returns its own error or else the result.                    *)
LEMMA FinishStep ==
  ASSUME Inv, Finish
  PROVE  Inv'
  <1>1. TypeOK'
    <2>1. senderOpen' \in BOOLEAN
      BY Zenon DEF Finish, Return
    <2>2. returned' \in Results \cup {"none"}
      BY DEF Inv, TypeOK, Finish, Return, Waited, Results, Refusals
    <2> QED
      BY <2>1, <2>2 DEF Inv, SaveInv, TypeOK, Finish, Return, CallerPcs
  <1>2. CallerInv'
    BY DEF Inv, SaveInv, CallerInv, Finish, Return
  <1>3. UnsubmittedInv'
    BY DEF Inv, SaveInv, UnsubmittedInv, Finish
  <1>4. ChannelInv'
    BY DEF Inv, SaveInv, ChannelInv, Live, Reach, Finish, Return
  <1>5. WorkerInv'
    BY DEF Inv, SaveInv, WorkerInv, Live, Finish
  <1>6. ReplyInv'
    BY DEF Inv, SaveInv, ReplyInv, InputErrors, WriteErrors, Finish, Return
  <1> QED
    BY <1>1, <1>2, <1>3, <1>4, <1>5, <1>6 DEF Inv, SaveInv

(* The caller never reads past the declared length.                        *)
LEMMA ReadSomeStep ==
  ASSUME Inv, NEW n \in Lengths, ReadSome(n)
  PROVE  Inv'
  <1>a. read' \in Nat /\ sent < read' /\ read' <= declared
    <2>1. declared - read \in Nat \ {0}
      BY DEF Inv, SaveInv, TypeOK, CallerInv, ReadSome, Reading, Lengths
    <2>2. Requested(declared - read) \in 1..(declared - read)
      BY <2>1, RequestedBounds
    <2> QED
      BY <2>1, <2>2 DEF Inv, SaveInv, TypeOK, CallerInv, ReadSome, Reading, Lengths
  <1>1. TypeOK'
    <2>1. read' \in Lengths
      BY <1>a DEF Inv, TypeOK, Lengths
    <2> QED
      BY <2>1 DEF Inv, TypeOK, ReadSome, CallerPcs
  <1>2. CallerInv'
    BY <1>a DEF Inv, SaveInv, TypeOK, CallerInv, ReadSome, Reading, Lengths
  <1>3. UnsubmittedInv'
    BY DEF Inv, SaveInv, UnsubmittedInv, ReadSome, Reading
  <1>4. ChannelInv'
    BY DEF Inv, SaveInv, ChannelInv, Live, Reach, ReadSome
  <1>5. WorkerInv'
    BY DEF Inv, SaveInv, WorkerInv, Live, ReadSome, Reading
  <1>6. ReplyInv'
    BY DEF Inv, SaveInv, ReplyInv, InputErrors, WriteErrors, ReadSome, Reading
  <1> QED
    BY <1>1, <1>2, <1>3, <1>4, <1>5, <1>6 DEF Inv, SaveInv

(* The caller gives up before it has seen the input end.                   *)
LEMMA BadInputStep ==
  ASSUME Inv, NEW r \in InputErrors, BadInput(r)
  PROVE  Inv'
  <1>1. TypeOK'
    <2>1. senderOpen' \in BOOLEAN
      BY Zenon DEF BadInput, GiveUp
    <2> QED
      BY <2>1 DEF Inv, TypeOK, BadInput, GiveUp, CallerPcs
  <1>2. CallerInv'
    BY DEF Inv, SaveInv, CallerInv, BadInput, Reading, GiveUp
  <1>3. UnsubmittedInv'
    BY DEF Inv, SaveInv, UnsubmittedInv, BadInput, Reading
  <1>4. ChannelInv'
    BY DEF Inv, SaveInv, ChannelInv, Live, Reach, BadInput, GiveUp
  <1>5. WorkerInv'
    BY DEF Inv, SaveInv, WorkerInv, Live, BadInput, GiveUp
  <1>6. ReplyInv'
    BY DEF Inv, SaveInv, ReplyInv, InputErrors, WriteErrors, BadInput,
           Reading, GiveUp
  <1> QED
    BY <1>1, <1>2, <1>3, <1>4, <1>5, <1>6 DEF Inv, SaveInv

(* The input ends at the declared length.                                  *)
LEMMA ProbeEndStep ==
  ASSUME Inv, ProbeEnd
  PROVE  Inv'
  <1>1. TypeOK'
    BY DEF Inv, SaveInv, TypeOK, CallerPcs, WorkPcs, ProbeEnd, Reading
  <1>2. CallerInv'
    BY DEF Inv, SaveInv, CallerInv, ProbeEnd, Reading
  <1>3. UnsubmittedInv'
    BY DEF Inv, SaveInv, UnsubmittedInv, ProbeEnd, Reading
  <1>4. ChannelInv'
    BY DEF Inv, SaveInv, ChannelInv, Live, Reach, ProbeEnd
  <1>5. WorkerInv'
    BY DEF Inv, SaveInv, WorkerInv, Live, ProbeEnd, Reading
  <1>6. ReplyInv'
    BY DEF Inv, SaveInv, ReplyInv, InputErrors, WriteErrors, ProbeEnd, Reading
  <1> QED
    BY <1>1, <1>2, <1>3, <1>4, <1>5, <1>6 DEF Inv, SaveInv

(* A worker takes the job.                                                 *)
LEMMA BeginStep ==
  ASSUME Inv, Begin
  PROVE  Inv'
  <1>1. TypeOK'
    BY DEF Inv, SaveInv, TypeOK, CallerPcs, WorkPcs, Begin
  <1>2. CallerInv'
    BY DEF Inv, SaveInv, CallerInv, Begin
  <1>3. UnsubmittedInv'
    BY DEF Inv, SaveInv, UnsubmittedInv, Begin
  <1>4. ChannelInv'
    BY DEF Inv, SaveInv, ChannelInv, Live, Reach, Begin
  <1>5. WorkerInv'
    BY DEF Inv, SaveInv, WorkerInv, Live, Begin
  <1>6. ReplyInv'
    BY DEF Inv, SaveInv, ReplyInv, InputErrors, WriteErrors, Begin
  <1> QED
    BY <1>1, <1>2, <1>3, <1>4, <1>5, <1>6 DEF Inv, SaveInv

(* The reply channel of a lost operation is dropped.                       *)
LEMMA DropReplyStep ==
  ASSUME Inv, DropReply
  PROVE  Inv'
  <1>1. TypeOK'
    BY DEF Inv, SaveInv, TypeOK, CallerPcs, WorkPcs, DropReply
  <1>2. CallerInv'
    BY DEF Inv, SaveInv, CallerInv, DropReply
  <1>3. UnsubmittedInv'
    BY DEF Inv, SaveInv, UnsubmittedInv, DropReply
  <1>4. ChannelInv'
    BY DEF Inv, SaveInv, ChannelInv, Live, DropReply
  <1>5. WorkerInv'
    BY DEF Inv, SaveInv, WorkerInv, Live, DropReply
  <1>6. ReplyInv'
    BY DEF Inv, SaveInv, ReplyInv, InputErrors, WriteErrors, DropReply
  <1> QED
    BY <1>1, <1>2, <1>3, <1>4, <1>5, <1>6 DEF Inv, SaveInv

(* The receiver and what is in the channel are dropped.                    *)
LEMMA DropOperationStep ==
  ASSUME Inv, DropOperation
  PROVE  Inv'
  <1>1. TypeOK'
    <2>1. receiverOpen' \in BOOLEAN
      BY Zenon DEF DropOperation
    <2>2. chunks' \in Seq(Chunks \cup {Complete}) /\ Len(chunks') <= Capacity
      BY DEF DropOperation
    <2> QED
      BY <2>1, <2>2 DEF Inv, TypeOK, DropOperation
  <1>2. CallerInv'
    BY DEF Inv, SaveInv, CallerInv, DropOperation
  <1>3. UnsubmittedInv'
    BY DEF Inv, SaveInv, UnsubmittedInv, DropOperation
  <1>4. ChannelInv'
    BY DEF Inv, SaveInv, ChannelInv, Live, DropOperation, Droppable
  <1>5. WorkerInv'
    BY DEF Inv, SaveInv, WorkerInv, Live, DropOperation
  <1>6. ReplyInv'
    BY DEF Inv, SaveInv, ReplyInv, InputErrors, WriteErrors, DropOperation,
           Droppable
  <1> QED
    BY <1>1, <1>2, <1>3, <1>4, <1>5, <1>6 DEF Inv, SaveInv

(* The operation is answered without having run.                           *)
LEMMA RefuseStep ==
  ASSUME Inv, NEW r \in Refusals, Refuse(r)
  PROVE  Inv'
  <1>1. TypeOK'
    BY DEF Inv, SaveInv, TypeOK, Results, CallerPcs, WorkPcs, Refuse
  <1>2. CallerInv'
    BY DEF Inv, SaveInv, CallerInv, Refuse
  <1>3. UnsubmittedInv'
    BY DEF Inv, SaveInv, UnsubmittedInv, Refuse
  <1>4. ChannelInv'
    BY DEF Inv, SaveInv, ChannelInv, Live, Refuse
  <1>5. WorkerInv'
    BY DEF Inv, SaveInv, WorkerInv, Live, Refuse
  <1>6. ReplyInv'
    BY DEF Inv, SaveInv, CallerInv, UnsubmittedInv, WorkerInv, ReplyInv, Live,
           Refuse, Refusals
  <1> QED
    BY <1>1, <1>2, <1>3, <1>4, <1>5, <1>6 DEF Inv, SaveInv

(* The worker's result reaches the caller.                                 *)
LEMMA DeliverStep ==
  ASSUME Inv, NEW r \in Results, Deliver(r)
  PROVE  Inv'
  <1>1. TypeOK'
    BY DEF Inv, SaveInv, TypeOK, CallerPcs, WorkPcs, Deliver
  <1>2. CallerInv'
    BY DEF Inv, SaveInv, CallerInv, Deliver
  <1>3. UnsubmittedInv'
    BY DEF Inv, SaveInv, UnsubmittedInv, Deliver
  <1>4. ChannelInv'
    BY DEF Inv, SaveInv, ChannelInv, Live, Deliver
  <1>5. WorkerInv'
    BY DEF Inv, SaveInv, WorkerInv, Live, Deliver
  <1>6. ReplyInv'
    BY DEF Inv, SaveInv, ReplyInv, InputErrors, WriteErrors, Deliver
  <1> QED
    BY <1>1, <1>2, <1>3, <1>4, <1>5, <1>6 DEF Inv, SaveInv

(* The staging file is opened.                                             *)
LEMMA OpenStagingStep ==
  ASSUME Inv, OpenStaging
  PROVE  Inv'
  <1>a. \/ outcome' = "none" /\ work' = "receive"
        \/ outcome' \in WriteErrors /\ work' = "finished"
    BY DEF OpenStaging, Continue, StoreFault, WriteErrors
  <1>1. TypeOK'
    BY DEF Inv, SaveInv, TypeOK, Results, CallerPcs, WorkPcs, OpenStaging,
           Continue, StoreFault
  <1>2. CallerInv'
    BY DEF Inv, SaveInv, CallerInv, OpenStaging, StoreFault
  <1>3. UnsubmittedInv'
    BY DEF Inv, SaveInv, UnsubmittedInv, OpenStaging, Continue
  <1>4. ChannelInv'
    BY DEF Inv, SaveInv, ChannelInv, Live, Reach, OpenStaging
  <1>5. WorkerInv'
    BY <1>a DEF Inv, SaveInv, CallerInv, UnsubmittedInv, WorkerInv, Live, OpenStaging,
                WriteErrors
  <1>6. ReplyInv'
    BY DEF Inv, SaveInv, ReplyInv, InputErrors, WriteErrors, OpenStaging,
           Continue, StoreFault
  <1> QED
    BY <1>1, <1>2, <1>3, <1>4, <1>5, <1>6 DEF Inv, SaveInv

(* The received chunk continues the staging file: the worker's own check   *)
(* of the length cannot fail.                                              *)
LEMMA ReceiveChunkStep ==
  ASSUME Inv, ReceiveChunk
  PROVE  Inv'
  <1> DEFINE c == chunks[1]
  <1>1. /\ chunks # <<>>
        /\ Len(chunks) \in Nat \ {0}
        /\ chunks' \in Seq(Chunks \cup {Complete})
        /\ Len(chunks') = Len(chunks) - 1
        /\ \A i \in 1..Len(chunks') : chunks'[i] = chunks[i + 1]
        /\ c = Head(chunks)
    BY TailElements DEF Inv, TypeOK, ReceiveChunk
  <1>2. c \in Chunks /\ c.to <= declared
    <2>1. c # Complete
      BY <1>1 DEF ReceiveChunk, Complete
    <2> QED
      BY <1>1, <2>1 DEF Inv, SaveInv, ChannelInv
  <1>3. c.from = written
    <2>1. 1 \in 1..Len(chunks) /\ chunks[1] \in Chunks /\ Live
      BY <1>1, <1>2 DEF ReceiveChunk, Live
    <2>2. chunks[1].from = Reach(0)
      BY <2>1 DEF Inv, SaveInv, ChannelInv
    <2> QED
      BY <2>2 DEF Reach
  <1> HIDE DEF c
  <1>4. /\ written \in Lengths /\ declared \in Lengths
        /\ c.to \in Lengths
        /\ written + (c.to - c.from) = c.to
    BY <1>2, <1>3 DEF Inv, TypeOK, Lengths, Chunks
  <1>5. \/ /\ outcome' = "none" /\ work' = "receive"
           /\ staged' = Append(staged, c) /\ written' = c.to
        \/ /\ outcome' = "WriteEnvelope" /\ work' = "finished"
           /\ staged' = staged /\ written' = written
    <2>1. PICK r \in ChunkResults(c.to - c.from) :
            /\ Continue(r, "receive")
            /\ staged' = IF r = "none" THEN Append(staged, c) ELSE staged
            /\ written' = IF r = "none" THEN written + (c.to - c.from) ELSE written
      BY <1>1 DEF ReceiveChunk
    <2>2. r \in {"none", "WriteEnvelope"}
      BY <1>2, <1>4 DEF ChunkResults, StoreFault, Lengths
    <2> QED
      BY <1>4, <2>1, <2>2 DEF Continue
  <1>6. /\ work = "receive" /\ work' # "none" /\ outcome = "none"
        /\ UNCHANGED <<facade, declared, callerVars, senderOpen, receiverOpen,
                       canonical, result>>
    BY <1>5 DEF Inv, SaveInv, WorkerInv, Live, ReceiveChunk
  <1>7. TypeOK'
    <2>1. staged' \in Seq(Chunks)
      BY <1>2, <1>5, AppendElements DEF Inv, TypeOK
    <2>2. Len(chunks') <= Capacity
      BY <1>1 DEF Inv, TypeOK
    <2> QED
      BY <1>1, <1>4, <1>5, <1>6, <2>1, <2>2
         DEF Inv, TypeOK, Results, WriteErrors, WorkPcs
  <1>8. CallerInv' /\ UnsubmittedInv'
    BY <1>6 DEF Inv, SaveInv, CallerInv, UnsubmittedInv
  <1>9. ChannelInv'
    <2>1. ASSUME NEW i \in 1..Len(chunks')
          PROVE  \/ chunks'[i] = Complete /\ i = Len(chunks') /\ ended' /\ ~senderOpen'
                 \/ chunks'[i] \in Chunks /\ chunks'[i].to <= declared'
      BY <1>1, <1>6 DEF Inv, SaveInv, ChannelInv
    <2>2. ASSUME Live', NEW i \in 1..Len(chunks'), chunks'[i] \in Chunks
          PROVE  chunks'[i].from = Reach(i - 1)'
      <3>1. chunks[i + 1].from = chunks[i].to
        BY <1>1, <1>6, <2>2 DEF Inv, SaveInv, ChannelInv, Live, Reach
      <3>2. CASE i = 1
        BY <1>1, <1>5, <2>2, <3>1, <3>2 DEF Reach, Live, c
      <3>3. CASE i > 1
        BY <1>1, <2>2, <3>1, <3>3 DEF Reach
      <3> QED
        BY <1>1, <3>2, <3>3
    <2>3. ASSUME Live', NEW i \in 0..Len(chunks')
          PROVE  \/ i < Len(chunks') /\ chunks'[i + 1] \in Chunks
                 \/ i > 0 /\ chunks'[i] = Complete
                 \/ Reach(i)' = sent'
      <3>1. /\ i + 1 \in 0..Len(chunks)
            /\ \/ i + 1 < Len(chunks) /\ chunks[i + 2] \in Chunks
               \/ i + 1 > 0 /\ chunks[i + 1] = Complete
               \/ Reach(i + 1) = sent
        <4>1. i + 1 \in 0..Len(chunks) /\ (i + 1) + 1 = i + 2
          BY <1>1
        <4> QED
          BY <4>1, <1>6 DEF Inv, SaveInv, ChannelInv, Live
      <3>2. CASE i = 0
        BY <1>1, <1>2, <1>5, <1>6, <2>3, <3>1, <3>2, CompleteIsNoChunk DEF Reach, Live, c
      <3>3. CASE i > 0
        BY <1>1, <1>6, <3>1, <3>3 DEF Reach
      <3> QED
        BY <1>1, <3>2, <3>3
    <2>4. Live' => receiverOpen' /\ (pc' = "await" => chunks' # <<>> /\ chunks'[Len(chunks')] = Complete)
      <3>1. pc = "await" => chunks[Len(chunks)] = Complete /\ Len(chunks) # 1
        BY <1>1, <1>2, <1>6, CompleteIsNoChunk DEF Inv, SaveInv, ChannelInv, Live, c
      <3>2. chunks' = <<>> <=> Len(chunks') = 0
        BY <1>1, EmptyLength
      <3> QED
        BY <1>1, <1>6, <3>1, <3>2 DEF Inv, SaveInv, ChannelInv, Live
    <2> QED
      BY <2>1, <2>2, <2>3, <2>4 DEF ChannelInv
  <1>10. WorkerInv'
    <2>1. IsPayload(staged', written')
      BY <1>2, <1>3, <1>5, PayloadAppend DEF Inv, SaveInv, WorkerInv, TypeOK
    <2> QED
      BY <1>5, <1>6, <2>1 DEF Inv, SaveInv, WorkerInv, WriteErrors, Live
  <1>11. ReplyInv'
    BY <1>6 DEF Inv, SaveInv, ReplyInv
  <1> QED
    BY <1>7, <1>8, <1>9, <1>10, <1>11 DEF Inv, SaveInv

(* The marker is received only after all the declared bytes.               *)
LEMMA ReceiveCompleteStep ==
  ASSUME Inv, ReceiveComplete
  PROVE  Inv'
  <1>1. /\ chunks # <<>>
        /\ Len(chunks) \in Nat \ {0}
        /\ chunks' \in Seq(Chunks \cup {Complete})
        /\ Len(chunks') = Len(chunks) - 1
        /\ \A i \in 1..Len(chunks') : chunks'[i] = chunks[i + 1]
        /\ chunks[1] = Complete
    BY TailElements DEF Inv, TypeOK, ReceiveComplete
  <1>2. Len(chunks) = 1 /\ ended
    BY <1>1, CompleteIsNoChunk DEF Inv, SaveInv, ChannelInv
  <1>3. written = declared
    BY <1>1, <1>2, CompleteIsNoChunk
       DEF Inv, SaveInv, ChannelInv, CallerInv, ReceiveComplete, Live, Reach
  <1>4. chunks' = <<>>
    BY <1>1, <1>2, EmptyLength
  <1>5. \/ outcome' = "none" /\ work' = "commit"
        \/ outcome' = "WriteEnvelope" /\ work' = "finished"
    BY <1>3 DEF ReceiveComplete, CompleteResults, StoreFault, Continue
  <1>6. /\ work = "receive" /\ outcome = "none"
        /\ UNCHANGED <<facade, declared, callerVars, senderOpen, receiverOpen,
                       written, staged, canonical, result>>
    BY DEF Inv, SaveInv, WorkerInv, Live, ReceiveComplete
  <1>7. TypeOK'
    BY <1>1, <1>5, <1>6 DEF Inv, TypeOK, Results, WriteErrors, WorkPcs
  <1>8. CallerInv' /\ UnsubmittedInv'
    BY <1>5, <1>6 DEF Inv, SaveInv, CallerInv, UnsubmittedInv
  <1>9. ChannelInv'
    BY <1>4, <1>5 DEF ChannelInv, Live
  <1>10. WorkerInv'
    BY <1>2, <1>3, <1>5, <1>6 DEF Inv, SaveInv, WorkerInv, WriteErrors, Live
  <1>11. ReplyInv'
    BY <1>5, <1>6 DEF Inv, SaveInv, ReplyInv
  <1> QED
    BY <1>7, <1>8, <1>9, <1>10, <1>11 DEF Inv, SaveInv

(* The stream ends without a marker only if the caller gave up or is gone. *)
LEMMA ReceiveDisconnectedStep ==
  ASSUME Inv, ReceiveDisconnected
  PROVE  Inv'
  <1>1. TypeOK'
    BY DEF Inv, SaveInv, TypeOK, Results, CallerPcs, WorkPcs,
           ReceiveDisconnected, CancelOnDisconnect, Continue
  <1>2. CallerInv'
    BY DEF Inv, SaveInv, CallerInv, ReceiveDisconnected, Continue
  <1>3. UnsubmittedInv'
    BY DEF Inv, SaveInv, UnsubmittedInv, ReceiveDisconnected,
           CancelOnDisconnect, Continue
  <1>4. ChannelInv'
    BY DEF Inv, SaveInv, ChannelInv, Live, ReceiveDisconnected,
           CancelOnDisconnect, Continue
  <1>5. WorkerInv'
    <2>1. pc = "dropped" \/ verdict # "none"
      BY DEF Inv, SaveInv, TypeOK, CallerPcs, CallerInv, UnsubmittedInv, ChannelInv,
             ReplyInv, Live, ReceiveDisconnected
    <2> QED
      BY <2>1 DEF Inv, SaveInv, WorkerInv, ReceiveDisconnected, CancelOnDisconnect,
                  Continue, Live
  <1>6. ReplyInv'
    BY DEF Inv, SaveInv, ReplyInv, InputErrors, WriteErrors,
           ReceiveDisconnected, CancelOnDisconnect, Continue
  <1> QED
    BY <1>1, <1>2, <1>3, <1>4, <1>5, <1>6 DEF Inv, SaveInv

(* The new blob becomes canonical.                                         *)
LEMMA CommitStep ==
  ASSUME Inv, Commit
  PROVE  Inv'
  <1>1. TypeOK'
    BY DEF Inv, SaveInv, TypeOK, Results, CallerPcs, WorkPcs, Commit,
           Continue, CommitOutcomes, StoreFault
  <1>2. CallerInv'
    BY DEF Inv, SaveInv, CallerInv, Commit, CommitOutcomes, StoreFault
  <1>3. UnsubmittedInv'
    BY DEF Inv, SaveInv, UnsubmittedInv, Commit, Continue
  <1>4. ChannelInv'
    BY DEF Inv, SaveInv, ChannelInv, Live, Commit, Continue, StoreFault
  <1>5. WorkerInv'
    BY DEF Inv, SaveInv, WorkerInv, Live, Commit, Continue, CommitOutcomes,
           StoreFault
  <1>6. ReplyInv'
    BY DEF Inv, SaveInv, ReplyInv, InputErrors, WriteErrors, Commit, Continue,
           CommitOutcomes, StoreFault
  <1> QED
    BY <1>1, <1>2, <1>3, <1>4, <1>5, <1>6 DEF Inv, SaveInv

(* The operation is lost on its way.                                       *)
LEMMA LoseStep ==
  ASSUME Inv, Lose
  PROVE  Inv'
  <1>1. TypeOK'
    BY DEF Inv, SaveInv, TypeOK, CallerPcs, WorkPcs, Lose
  <1>2. CallerInv'
    BY DEF Inv, SaveInv, CallerInv, Lose
  <1>3. UnsubmittedInv'
    BY DEF Inv, SaveInv, UnsubmittedInv, Lose
  <1>4. ChannelInv'
    BY DEF Inv, SaveInv, ChannelInv, Live, Lose
  <1>5. WorkerInv'
    BY DEF Inv, SaveInv, WorkerInv, Live, Lose
  <1>6. ReplyInv'
    BY DEF Inv, SaveInv, ReplyInv, InputErrors, WriteErrors, Lose
  <1> QED
    BY <1>1, <1>2, <1>3, <1>4, <1>5, <1>6 DEF Inv, SaveInv

(* The caller's future is dropped.                                         *)
LEMMA CancelStep ==
  ASSUME Inv, Cancel
  PROVE  Inv'
  <1>1. TypeOK'
    <2>1. senderOpen' \in BOOLEAN
      BY Zenon DEF Cancel
    <2> QED
      BY <2>1 DEF Inv, TypeOK, Cancel, CallerPcs
  <1>2. CallerInv'
    BY DEF Inv, SaveInv, CallerInv, Cancel
  <1>3. UnsubmittedInv'
    BY DEF Inv, SaveInv, UnsubmittedInv, Cancel, CancelPoints
  <1>4. ChannelInv'
    BY DEF Inv, SaveInv, ChannelInv, Live, Reach, Cancel
  <1>5. WorkerInv'
    BY DEF Inv, SaveInv, WorkerInv, Live, Cancel
  <1>6. ReplyInv'
    BY DEF Inv, SaveInv, ReplyInv, InputErrors, WriteErrors, Cancel,
           CancelPoints
  <1> QED
    BY <1>1, <1>2, <1>3, <1>4, <1>5, <1>6 DEF Inv, SaveInv

(* Nothing has happened: the invariant holds.                              *)
LEMMA InitInv == Init => Inv
  <1> SUFFICES ASSUME Init PROVE Inv
    OBVIOUS
  <1>1. chunks = <<>> /\ staged = <<>> /\ written = 0 /\ work = "none"
    BY DEF Init
  <1>2. TypeOK
    <2>1. /\ ended \in BOOLEAN /\ senderOpen \in BOOLEAN /\ receiverOpen \in BOOLEAN
          /\ chunks \in Seq(Chunks \cup {Complete}) /\ staged \in Seq(Chunks)
      BY Zenon, EmptySequence DEF Init
    <2> QED
      BY <1>1, <2>1 DEF Init, TypeOK, Lengths, CallerPcs, WorkPcs
  <1>3. CallerInv /\ UnsubmittedInv /\ ReplyInv
    BY DEF Init, CallerInv, UnsubmittedInv, ReplyInv, Lengths
  <1>4. ChannelInv
    BY <1>1 DEF ChannelInv, Live
  <1>5. WorkerInv
    BY PayloadEmpty DEF Init, WorkerInv
  <1> QED
    BY <1>2, <1>3, <1>4, <1>5 DEF Inv, SaveInv

(* A step of the caller, of the operation or of the fault it meets         *)
(* preserves the invariant, and so does a step of somebody else.           *)
LEMMA NextInv == Inv /\ [Next]_vars => Inv'
  <1> SUFFICES ASSUME Inv, [Next]_vars PROVE Inv'
    OBVIOUS
  <1>1. CASE Reader
    BY <1>1, ReadSomeStep, BadInputStep, ProbeEndStep DEF Reader
  <1>2. CASE Caller
    BY <1>2, StartStep, StartRefusedStep, InterruptStep, SendChunkStep,
       SendCompleteStep, SendFailsStep, FinishStep DEF Caller
  <1>3. CASE Engine
    BY <1>3, BeginStep, DropReplyStep, DropOperationStep, RefuseStep, DeliverStep,
       OpenStagingStep, ReceiveChunkStep, ReceiveCompleteStep,
       ReceiveDisconnectedStep, CommitStep DEF Engine
  <1>4. CASE Lose \/ Cancel
    BY <1>4, LoseStep, CancelStep
  <1>5. CASE UNCHANGED vars
    <2> USE <1>5 DEF vars
    <2>1. TypeOK' /\ CallerInv' /\ UnsubmittedInv'
      BY DEF Inv, SaveInv, TypeOK, CallerInv, UnsubmittedInv
    <2>2. ChannelInv'
      BY DEF Inv, SaveInv, ChannelInv, Live, Reach
    <2>3. WorkerInv' /\ ReplyInv'
      BY DEF Inv, SaveInv, WorkerInv, ReplyInv, Live
    <2> QED
      BY <2>1, <2>2, <2>3 DEF Inv, SaveInv
  <1> QED
    BY <1>1, <1>2, <1>3, <1>4, <1>5 DEF Next

(* The invariant holds throughout every call of save_from: types, what the *)
(* caller knows, what the channel and the staging file hold together, and  *)
(* what the results say.                                                   *)
THEOREM SaveStreamInvariant == Spec => [](TypeOK /\ SaveInv)
  <1>1. Inv <=> TypeOK /\ SaveInv
    BY DEF Inv
  <1> QED
    BY <1>1, InitInv, NextInv, PTL DEF Spec

(* save_from replaces the blob only when the staging file holds exactly    *)
(* the declared bytes in order and the caller saw the input end there: for *)
(* every length, chunk size, channel capacity and set of faults.           *)
THEOREM CommittedIsTheInputCorrect == Spec => []CommittedIsTheInput
  <1>1. Inv => CommittedIsTheInput
    BY DEF Inv, SaveInv, WorkerInv, CommittedIsTheInput
  <1> QED
    BY <1>1, InitInv, NextInv, PTL DEF Spec

(* What save_from has returned is and stays true of the blob, an error of  *)
(* the input is one the caller found itself, and no caller is told that    *)
(* its stream was cancelled.                                               *)
THEOREM SaveResultsCorrect == Spec => []ResultsAreTrue
  <1>1. ASSUME Inv PROVE ResultsAreTrue
    <2>1. canonical = "new" => work # "none"
      BY <1>1 DEF Inv, SaveInv, UnsubmittedInv, WorkerInv
    <2>2. CASE returned = "none"
      BY <1>1, <2>2 DEF ResultsAreTrue, InputErrors, WriteErrors
    <2>3. CASE work = "none" /\ returned \in {"BlobTooLarge", "StoreClosed", "EngineFailed"}
      BY <1>1, <2>1, <2>3 DEF Inv, TypeOK, ResultsAreTrue, InputErrors, WriteErrors
    <2>4. CASE verdict # "none" /\ returned = verdict
      BY <1>1, <2>4 DEF Inv, SaveInv, TypeOK, CallerInv, WorkerInv, ResultsAreTrue,
                        InputErrors, WriteErrors
    <2>5. CASE verdict = "none" /\ result # "none" /\ returned = Waited(result) /\ pc = "returned"
      BY <1>1, <2>5 DEF Inv, SaveInv, TypeOK, WorkerInv, ReplyInv, Waited,
                        ResultsAreTrue, InputErrors, WriteErrors
    <2> QED
      BY <1>1, <2>2, <2>3, <2>4, <2>5 DEF Inv, SaveInv, ReplyInv
  <1> QED
    BY <1>1, InitInv, NextInv, PTL DEF Spec
===============================================================================
