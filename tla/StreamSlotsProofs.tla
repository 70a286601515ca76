------------------------- MODULE StreamSlotsProofs -------------------------
(***************************************************************************)
(* Proof that a load that feeds a save through a pipe copies the whole     *)
(* payload or nothing.  Each step of the composition is a step of both     *)
(* streams, or leaves them alone; so it keeps their invariants, and an     *)
(* invariant about the pipe joins the two chains of bytes.                 *)
(***************************************************************************)
EXTENDS StreamSlots, TLAPS

(* The streams once more, with what was proved of them.                    *)
LP == INSTANCE LoadStreamProofs WITH
        Faults <- {"store", "engine", "output", "cancel"},
        pc <- lpc, returned <- lreturned, chunks <- lchunks,
        senderOpen <- lsenderOpen, work <- lwork, outcome <- loutcome,
        result <- lresult

SP == INSTANCE SaveStreamProofs WITH
        Maximum <- MaxLen, Faults <- {"engine", "input", "cancel"},
        pc <- spc, returned <- sreturned, chunks <- schunks,
        senderOpen <- ssenderOpen, work <- swork, outcome <- soutcome,
        result <- sresult

(* They satisfy the assumptions on the constants of their modules.         *)
LEMMA InstancesAreStreams ==
  /\ LP!ChunkChannelAssumption /\ LP!LoadStreamAssumption
  /\ SP!ChunkChannelAssumption /\ SP!SaveStreamAssumption
  BY ChunkChannelAssumption
     DEF LP!ChunkChannelAssumption, LP!LoadStreamAssumption,
         SP!ChunkChannelAssumption, SP!SaveStreamAssumption, SP!Lengths

(* The instances that the model is made of are these.                      *)
LEMMA SameLoad ==
  /\ L!Init <=> LP!Init
  /\ L!Next <=> LP!Next
  /\ UNCHANGED L!vars <=> UNCHANGED LP!vars
  <1>1. L!Init <=> LP!Init
    BY DEF L!NoChunk, L!Init, L!Lengths, LP!NoChunk, LP!Init, LP!Lengths
  <1>2. L!Next <=> LP!Next
    BY DEF L!callerVars, L!NoChunk, L!Refusals, L!Results, L!Return,
           L!StartRefused, L!Start, L!ReceiveChunk, L!ReceiveEnd, L!WriteChunk,
           L!GiveUp, L!WriteFails, L!Acknowledge, L!Finish, L!CancelPoints,
           L!Cancel, L!Begin, L!Refuse, L!Lose, L!DropReply, L!DropOperation,
           L!Deliver, L!Compute, L!Validated, L!OpenAndValidate, L!StreamChunk,
           L!StreamFails, L!StreamEnd, L!StreamDone, L!AwaitAcknowledgement,
           L!Writer, L!Caller, L!Engine, L!Next, L!Lengths, L!Chunk,
           L!Requested, L!HasRoom, L!Waited, LP!callerVars, LP!NoChunk,
           LP!Refusals, LP!Results, LP!Return, LP!StartRefused, LP!Start,
           LP!ReceiveChunk, LP!ReceiveEnd, LP!WriteChunk, LP!GiveUp,
           LP!WriteFails, LP!Acknowledge, LP!Finish, LP!CancelPoints,
           LP!Cancel, LP!Begin, LP!Refuse, LP!Lose, LP!DropReply,
           LP!DropOperation, LP!Deliver, LP!Compute, LP!Validated,
           LP!OpenAndValidate, LP!StreamChunk, LP!StreamFails, LP!StreamEnd,
           LP!StreamDone, LP!AwaitAcknowledgement, LP!Writer, LP!Caller,
           LP!Engine, LP!Next, LP!Lengths, LP!Chunk, LP!Requested, LP!HasRoom,
           LP!Waited
  <1>3. UNCHANGED L!vars <=> UNCHANGED LP!vars
    BY DEF L!callerVars, L!vars, LP!callerVars, LP!vars
  <1> QED
    BY <1>1, <1>2, <1>3

(* The same for the save.                                                  *)
LEMMA SameSave ==
  /\ S!Init <=> SP!Init
  /\ S!Next <=> SP!Next
  /\ UNCHANGED S!vars <=> UNCHANGED SP!vars
  <1>1. S!Init <=> SP!Init
    BY DEF S!Init, S!Lengths, SP!Init, SP!Lengths
  <1>2. S!Next <=> SP!Next
    BY DEF S!callerVars, S!workerVars, S!Complete, S!InputErrors, S!Refusals,
           S!WriteErrors, S!Results, S!Return, S!NextRead, S!Fits,
           S!StartRefused, S!Start, S!Interrupted, S!Reading, S!ReadSome,
           S!GiveUp, S!BadInput, S!ProbeEnd, S!Interrupt, S!SendChunk,
           S!SendComplete, S!SendFails, S!Finish, S!CancelPoints, S!Cancel,
           S!Begin, S!Refuse, S!Lose, S!DropReply, S!Deliver, S!Droppable,
           S!DropOperation, S!Continue, S!StoreFault, S!OpenStaging,
           S!ChunkResults, S!ReceiveChunk, S!CompleteResults,
           S!ReceiveComplete, S!CancelOnDisconnect, S!ReceiveDisconnected,
           S!CommitOutcomes, S!Commit, S!Reader, S!Caller, S!Engine, S!Next,
           S!Lengths, S!Chunk, S!Requested, S!HasRoom, S!Waited, SP!callerVars,
           SP!workerVars, SP!Complete, SP!InputErrors, SP!Refusals,
           SP!WriteErrors, SP!Results, SP!Return, SP!NextRead, SP!Fits,
           SP!StartRefused, SP!Start, SP!Interrupted, SP!Reading, SP!ReadSome,
           SP!GiveUp, SP!BadInput, SP!ProbeEnd, SP!Interrupt, SP!SendChunk,
           SP!SendComplete, SP!SendFails, SP!Finish, SP!CancelPoints,
           SP!Cancel, SP!Begin, SP!Refuse, SP!Lose, SP!DropReply, SP!Deliver,
           SP!Droppable, SP!DropOperation, SP!Continue, SP!StoreFault,
           SP!OpenStaging, SP!ChunkResults, SP!ReceiveChunk,
           SP!CompleteResults, SP!ReceiveComplete, SP!CancelOnDisconnect,
           SP!ReceiveDisconnected, SP!CommitOutcomes, SP!Commit, SP!Reader,
           SP!Caller, SP!Engine, SP!Next, SP!Lengths, SP!Chunk, SP!Requested,
           SP!HasRoom, SP!Waited
  <1>3. UNCHANGED S!vars <=> UNCHANGED SP!vars
    BY DEF S!callerVars, S!workerVars, S!vars, SP!callerVars, SP!workerVars,
           SP!vars
  <1> QED
    BY <1>1, <1>2, <1>3

(* The pipe: the save has read no more than the load has written, and the  *)
(* load hands out its chunks in the direction of the payload.  A finished  *)
(* worker has a result.                                                    *)
PipeInv ==
  /\ declared = payloadLen
  /\ read <= Taken
  /\ \A i \in 1..Len(lchunks) : lchunks[i].from <= lchunks[i].to
  /\ lpc = "write" => held.from <= held.to
  /\ lwork = "finished" => loutcome \in L!Results
  /\ swork = "finished" => soutcome \in S!Results

Inv == LP!Inv /\ SP!Inv /\ PipeInv

(* A stream that a step leaves alone.                                      *)
LEMMA StreamsUnchanged ==
  /\ UNCHANGED loadVars => UNCHANGED L!vars
  /\ UNCHANGED saveVars => UNCHANGED S!vars
  BY DEF loadVars, saveVars, L!vars, L!callerVars, S!vars, S!callerVars, S!workerVars

(* What the load does in the composition is a step of the load.            *)
LEMMA LoadStep ==
  ASSUME Inv, [Next]_vars
  PROVE  [L!Next]_(L!vars)
  <1>1. ASSUME UNCHANGED loadVars PROVE [L!Next]_(L!vars)
    BY <1>1, StreamsUnchanged
  <1>2. CASE LoadWriter
    <2>1. CASE L!WriteChunk
      BY <2>1 DEF L!Next, L!Writer
    <2>2. CASE L!WriteFails(held.from)
      <3>1. held.from \in L!Lengths
        BY <2>2 DEF Inv, LP!Inv, LP!LoadInv, LP!CallerInv, LP!Chunks, LP!Lengths,
                    L!Lengths, L!WriteFails
      <3> QED
        BY <2>2, <3>1 DEF L!Next, L!Writer
    <2> QED
      BY <1>2, <2>1, <2>2 DEF LoadWriter
  <1>3. CASE LoadCaller
    BY <1>3 DEF LoadCaller, L!Next, L!Caller
  <1>4. CASE LoadEngine
    <2>1. L!Deliver(loutcome) => \E r \in L!Results : L!Deliver(r)
      BY DEF Inv, PipeInv, L!Deliver
    <2>2. L!Refuse("StoreClosed") => \E r \in L!Refusals : L!Refuse(r)
      BY DEF L!Refusals
    <2> QED
      BY <1>4, <2>1, <2>2 DEF LoadEngine, L!Next, L!Engine
  <1>5. CASE LoadDropped
    BY <1>5 DEF LoadDropped, L!Next
  <1> QED
    BY <1>1, <1>2, <1>3, <1>4, <1>5
       DEF Next, SaveReader, SaveCaller, SaveEngine, SaveDropped, Close, Closed, vars

(* What the save does in the composition is a step of the save.            *)
LEMMA SaveStep ==
  ASSUME Inv, [Next]_vars
  PROVE  [S!Next]_(S!vars)
  <1>1. ASSUME UNCHANGED saveVars PROVE [S!Next]_(S!vars)
    BY <1>1, StreamsUnchanged
  <1>2. CASE SaveReader
    <2>1. S!BadInput("InputEndedEarly") => \E r \in S!InputErrors : S!BadInput(r)
      BY DEF S!InputErrors
    <2>2. \A n \in Lengths : S!ReadSome(n) => \E m \in S!Lengths : S!ReadSome(m)
      BY DEF Lengths, S!Lengths
    <2> QED
      BY <1>2, <2>1, <2>2 DEF SaveReader, S!Next, S!Reader
  <1>3. CASE SaveCaller
    <2>1. S!StartRefused("StoreClosed") => \E r \in S!Results : S!StartRefused(r)
      BY DEF S!Results, S!Refusals
    <2> QED
      BY <1>3, <2>1 DEF SaveCaller, S!Next, S!Caller
  <1>4. CASE SaveEngine
    <2>1. S!Deliver(soutcome) => \E r \in S!Results : S!Deliver(r)
      BY DEF Inv, PipeInv, S!Deliver
    <2>2. S!Refuse("StoreClosed") => \E r \in S!Refusals : S!Refuse(r)
      BY DEF S!Refusals
    <2> QED
      BY <1>4, <2>1, <2>2 DEF SaveEngine, S!Next, S!Engine
  <1>5. CASE SaveDropped
    BY <1>5 DEF SaveDropped, S!Next
  <1> QED
    BY <1>1, <1>2, <1>3, <1>4, <1>5
       DEF Next, LoadWriter, LoadCaller, LoadEngine, LoadDropped, Close, Closed, vars

(* The bytes of the load's destination are counted by a number.            *)
LEMMA TakenIsNat ==
  ASSUME LP!Inv, SP!Inv
  PROVE  /\ Taken \in Nat /\ Taken <= payloadLen
         /\ payloadLen \in Nat /\ read \in Nat
         /\ IsPayload(output, Taken)
  <1>1. output \in Seq(Chunks) /\ payloadLen \in Nat /\ read \in Nat
    BY DEF LP!Inv, LP!TypeOK, LP!Chunks, LP!Lengths, Chunks, Lengths,
           SP!Inv, SP!TypeOK, SP!Lengths
  <1>2. Taken \in Nat
    <2>1. ASSUME output # <<>> PROVE output[Len(output)] \in Chunks
      BY <1>1, <2>1
    <2>2. \A c \in Chunks : c.to \in Nat
      BY DEF Chunks, Lengths
    <2> QED
      BY <2>1, <2>2 DEF Taken
  <1>3. Taken <= payloadLen /\ IsPayload(output, Taken)
    BY DEF LP!Inv, LP!LoadInv, LP!ChainInv, LP!Taken, Taken, LP!IsPayload, IsPayload
  <1> QED
    BY <1>1, <1>2, <1>3

(* PipeInv holds when nothing has been written or read yet.                *)
LEMMA InitInv == Init => Inv
  <1> SUFFICES ASSUME Init PROVE Inv
    OBVIOUS
  <1>1. LP!Inv
    <2>1. LP!Init => LP!Inv
      BY LP!InitInv, InstancesAreStreams
    <2> QED
      BY SameLoad, <2>1 DEF Init
  <1>2. SP!Inv
    <2>1. SP!Init => SP!Inv
      BY SP!InitInv, InstancesAreStreams
    <2> QED
      BY SameSave, <2>1 DEF Init
  <1>3. PipeInv
    BY DEF Init, PipeInv, Taken, L!Init, S!Init
  <1> QED
    BY <1>1, <1>2, <1>3 DEF Inv

(* What the load's thread and the destination do to the pipe.              *)
LEMMA LoadWriterPipe ==
  ASSUME Inv, LoadWriter
  PROVE  PipeInv'
  <1>1. /\ lpc = "write" /\ lpc' # "write"
        /\ held.from \in Nat /\ held.to \in Nat /\ held.from = Taken
        /\ held \in Chunks
    BY DEF LoadWriter, L!WriteChunk, L!WriteFails, L!GiveUp, Inv, LP!Inv, LP!LoadInv,
           LP!CallerInv, LP!ChainInv, LP!Taken, Taken, LP!Chunks, LP!Lengths, Chunks, Lengths
  <1>2. Taken' = held.to \/ Taken' = Taken
    <2>1. CASE L!WriteChunk
      <3>1. output \in Seq(Chunks)
        BY DEF Inv, LP!Inv, LP!TypeOK, LP!Chunks, LP!Lengths, Chunks, Lengths
      <3> QED
        BY <1>1, <2>1, <3>1 DEF L!WriteChunk, Taken
    <2>2. CASE L!WriteFails(held.from)
      BY <2>2 DEF L!WriteFails, Taken
    <2> QED
      BY <2>1, <2>2 DEF LoadWriter
  <1>3. \A i \in 1..Len(lchunks') : lchunks'[i].from <= lchunks'[i].to
    BY DEF LoadWriter, L!WriteChunk, L!WriteFails, L!GiveUp, Inv, PipeInv
  <1>4. UNCHANGED <<declared, payloadLen, read, lwork, loutcome, swork, soutcome>>
    BY DEF LoadWriter, L!WriteChunk, L!WriteFails, saveVars
  <1> QED
    BY <1>1, <1>2, <1>3, <1>4, TakenIsNat DEF Inv, PipeInv, L!Results, S!Results

(* What the reader of the save does: it takes what is in the pipe.         *)
LEMMA SaveReaderPipe ==
  ASSUME Inv, SaveReader
  PROVE  PipeInv'
  <1>1. read' <= Taken /\ UNCHANGED <<declared, swork, soutcome>>
    BY TakenIsNat DEF SaveReader, S!ReadSome, S!ProbeEnd, S!BadInput, S!workerVars,
                      InPipe, Inv, PipeInv, Lengths
  <1>2. UNCHANGED loadVars
    BY DEF SaveReader
  <1> QED
    BY <1>1, <1>2 DEF Inv, PipeInv, Taken, loadVars, L!Results, S!Results

(* The load's caller takes a chunk from the channel as the worker sent it. *)
LEMMA LoadCallerPipe ==
  ASSUME Inv, LoadCaller
  PROVE  PipeInv'
  <1>1. UNCHANGED <<declared, payloadLen, read, output, loutcome, swork, soutcome>>
    BY DEF LoadCaller, saveVars, L!Start, L!StartRefused, L!ReceiveChunk, L!ReceiveEnd,
           L!Acknowledge, L!Finish
  <1>2. lwork' # "finished" \/ lwork' = lwork
    BY DEF LoadCaller, L!Start, L!StartRefused, L!ReceiveChunk, L!ReceiveEnd,
           L!Acknowledge, L!Finish
  <1>3. /\ \A i \in 1..Len(lchunks') : lchunks'[i].from <= lchunks'[i].to
        /\ lpc' = "write" => held'.from <= held'.to
    <2>1. lchunks \in Seq(LP!Chunks)
      BY DEF Inv, LP!Inv, LP!TypeOK
    <2>2. CASE L!ReceiveChunk
      <3>1. /\ Len(lchunks) \in Nat \ {0} /\ Len(Tail(lchunks)) = Len(lchunks) - 1
            /\ \A i \in 1..(Len(lchunks) - 1) : Tail(lchunks)[i] = lchunks[i + 1]
            /\ Head(lchunks) = lchunks[1]
        BY <2>1, <2>2, LP!TailElements DEF L!ReceiveChunk
      <3> QED
        BY <2>2, <3>1 DEF L!ReceiveChunk, Inv, PipeInv
    <2>3. CASE ~L!ReceiveChunk
      BY <2>3 DEF LoadCaller, L!Start, L!StartRefused, L!ReceiveEnd, L!Acknowledge,
                  L!Finish, L!Return, Inv, PipeInv
    <2> QED
      BY <2>2, <2>3
  <1> QED
    BY <1>1, <1>2, <1>3 DEF Inv, PipeInv, Taken, L!Results, S!Results

(* The save's caller leaves the pipe alone.                                *)
LEMMA SaveCallerPipe ==
  ASSUME Inv, SaveCaller
  PROVE  PipeInv'
  <1>1. /\ UNCHANGED loadVars /\ UNCHANGED <<declared, read, soutcome>>
        /\ swork' # "finished" \/ swork' = swork
    BY DEF SaveCaller, S!Start, S!StartRefused, S!Interrupt, S!SendChunk, S!SendComplete,
           S!SendFails, S!Finish, S!workerVars
  <1> QED
    BY <1>1 DEF Inv, PipeInv, Taken, loadVars, L!Results, S!Results

(* The load's worker sends chunks that are not turned round.               *)
LEMMA LoadEnginePipe ==
  ASSUME Inv, LoadEngine
  PROVE  PipeInv'
  <1>1. UNCHANGED <<declared, payloadLen, read, output, held, lpc, swork, soutcome>>
    BY DEF LoadEngine, saveVars, L!Begin, L!Refuse, L!Deliver, L!DropOperation,
           L!OpenAndValidate, L!StreamChunk, L!StreamFails, L!StreamDone,
           L!AwaitAcknowledgement, L!callerVars
  <1>2. lwork' = "finished" => loutcome' \in L!Results
    BY DEF LoadEngine, L!Begin, L!Refuse, L!Deliver, L!DropOperation,
           L!OpenAndValidate, L!StreamChunk, L!StreamFails, L!StreamDone, L!StreamEnd,
           L!AwaitAcknowledgement, L!Compute, L!Validated, L!Results, Inv, PipeInv,
           LP!Inv, LP!TypeOK
  <1>3. \A i \in 1..Len(lchunks') : lchunks'[i].from <= lchunks'[i].to
    <2>1. CASE L!StreamChunk
      <3> DEFINE n == delivered + L!Requested(payloadLen - delivered)
                 c == L!Chunk(delivered, n)
      <3>1. delivered \in Nat /\ payloadLen \in Nat /\ lchunks \in Seq(LP!Chunks)
        BY DEF Inv, LP!Inv, LP!TypeOK, LP!Lengths
      <3>2. n \in Nat /\ delivered <= n
        BY <2>1, <3>1, ChunkChannelAssumption DEF L!Requested, L!StreamChunk
      <3>3. c.from <= c.to
        BY <3>1, <3>2 DEF L!Chunk
      <3>4. lchunks' = Append(lchunks, c)
        BY <2>1 DEF L!StreamChunk
      <3> HIDE DEF c
      <3> QED
        BY <3>1, <3>3, <3>4 DEF Inv, PipeInv
    <2>2. CASE ~L!StreamChunk
      BY <2>2 DEF LoadEngine, L!Begin, L!Refuse, L!Deliver, L!DropOperation,
                  L!OpenAndValidate, L!StreamFails, L!StreamDone,
                  L!AwaitAcknowledgement, Inv, PipeInv
    <2> QED
      BY <2>1, <2>2
  <1> QED
    BY <1>1, <1>2, <1>3 DEF Inv, PipeInv, Taken, L!Results, S!Results

(* The save's worker leaves the pipe alone, and ends only with a result.   *)
LEMMA SaveEnginePipe ==
  ASSUME Inv, SaveEngine
  PROVE  PipeInv'
  <1>1. UNCHANGED loadVars /\ UNCHANGED <<declared, read>>
    BY DEF SaveEngine, S!Begin, S!Refuse, S!Deliver, S!DropOperation, S!OpenStaging,
           S!ReceiveChunk, S!ReceiveComplete, S!ReceiveDisconnected, S!Commit, S!callerVars
  <1>2. swork' = "finished" => soutcome' \in S!Results
    BY DEF SaveEngine, S!Begin, S!Refuse, S!Deliver, S!DropOperation, S!OpenStaging,
           S!ReceiveChunk, S!ReceiveComplete, S!ReceiveDisconnected, S!Commit, S!Continue,
           S!StoreFault, S!WriteErrors, S!ChunkResults, S!CompleteResults,
           S!CancelOnDisconnect, S!CommitOutcomes, S!workerVars, S!Results, S!InputErrors,
           Inv, PipeInv
  <1> QED
    BY <1>1, <1>2 DEF Inv, PipeInv, Taken, loadVars, L!Results, S!Results

(* The step of the proof: the streams keep their invariants, since the     *)
(* step is one of theirs, and the pipe keeps its own.                      *)
LEMMA NextInv == Inv /\ [Next]_vars => Inv'
  <1> SUFFICES ASSUME Inv, [Next]_vars PROVE Inv'
    OBVIOUS
  <1>1. LP!Inv'
    <2>1. [L!Next]_(L!vars)
      BY LoadStep
    <2>2. [LP!Next]_(LP!vars)
      BY <2>1, SameLoad
    <2>3. LP!Inv /\ [LP!Next]_(LP!vars) => LP!Inv'
      BY LP!NextInv, InstancesAreStreams
    <2> QED
      BY <2>2, <2>3 DEF Inv
  <1>2. SP!Inv'
    <2>1. [S!Next]_(S!vars)
      BY SaveStep
    <2>2. [SP!Next]_(SP!vars)
      BY <2>1, SameSave
    <2>3. SP!Inv /\ [SP!Next]_(SP!vars) => SP!Inv'
      BY SP!NextInv, InstancesAreStreams
    <2> QED
      BY <2>2, <2>3 DEF Inv
  <1>3. PipeInv'
    <2>1. CASE LoadDropped
      BY <2>1 DEF LoadDropped, L!Cancel, saveVars, Inv, PipeInv, Taken, L!Results, S!Results
    <2>2. CASE SaveDropped
      BY <2>2 DEF SaveDropped, S!Cancel, S!workerVars, loadVars, Inv, PipeInv, Taken,
                  L!Results, S!Results
    <2>3. CASE Close \/ Closed \/ UNCHANGED vars
      BY <2>3 DEF Close, Closed, vars, saveVars, loadVars, Inv, PipeInv, Taken,
                  L!Results, S!Results
    <2> QED
      BY <2>1, <2>2, <2>3, LoadWriterPipe, SaveReaderPipe, LoadCallerPipe, SaveCallerPipe,
         LoadEnginePipe, SaveEnginePipe DEF Next
  <1> QED
    BY <1>1, <1>2, <1>3 DEF Inv

(* The streams and the pipe keep their invariants in the composition.      *)
THEOREM StreamSlotsInvariant == Spec => []Inv
  BY InitInv, NextInv, PTL DEF Spec

(* The load_into in the composition is the one of module LoadStream: what  *)
(* slots, keys, the close and the pipe do to it is nothing that its own    *)
(* specification does not allow.                                           *)
THEOREM LoadIsALoadStream == Spec => L!Spec
  <1>1. Init => L!Init
    BY DEF Init
  <1>2. Inv /\ [Next]_vars => [L!Next]_(L!vars)
    BY LoadStep
  <1> QED
    BY <1>1, <1>2, StreamSlotsInvariant, PTL DEF Spec, L!Spec

(* The save_from in the composition is the one of module SaveStream.       *)
THEOREM SaveIsASaveStream == Spec => S!Spec
  <1>1. Init => S!Init
    BY DEF Init
  <1>2. Inv /\ [Next]_vars => [S!Next]_(S!vars)
    BY SaveStep
  <1> QED
    BY <1>1, <1>2, StreamSlotsInvariant, PTL DEF Spec, S!Spec

(* A copy commits the whole payload of a valid blob or nothing.            *)
THEOREM CopyIsWholeCorrect == Spec => []CopyIsWhole
  <1>1. ASSUME Inv PROVE CopyIsWhole
    <2>1. SUFFICES ASSUME canonical = "new", declared > 0
                   PROVE  blob = "valid" /\ IsPayload(output, payloadLen)
      BY DEF CopyIsWhole
    <2>2. ended /\ sent = declared /\ sent <= read /\ read <= declared
      BY <1>1, <2>1 DEF Inv, SP!Inv, SP!SaveInv, SP!WorkerInv, SP!CallerInv
    <2>3. Taken = payloadLen /\ Taken > 0
      <3>1. /\ Taken \in Nat /\ Taken <= payloadLen /\ payloadLen \in Nat
            /\ read \in Nat /\ read <= Taken /\ declared = payloadLen
        BY <1>1, TakenIsNat DEF Inv, PipeInv
      <3>2. sent \in Nat
        BY <1>1 DEF Inv, SP!Inv, SP!TypeOK, SP!Lengths
      <3> QED
        BY <2>1, <2>2, <3>1, <3>2
    <2>4. output # <<>>
      BY <2>3 DEF Taken
    <2>5. blob = "valid"
      BY <1>1, <2>4 DEF Inv, LP!Inv, LP!LoadInv, LP!WorkerInv
    <2> QED
      BY <1>1, <2>3, <2>5, TakenIsNat DEF Inv
  <1> QED
    BY <1>1, StreamSlotsInvariant, PTL

(* What was proved of load_into and of save_from holds of the two that are *)
(* connected: what they return is true, the destination has a prefix of    *)
(* the payload of a valid blob, and only the whole input is committed.     *)
THEOREM StreamsKeepTheirPromises ==
  Spec => [](/\ L!ResultsAreTrue /\ L!OutputIsThePayload
             /\ S!ResultsAreTrue /\ S!CommittedIsTheInput)
  <1>1. LP!Spec => []LP!ResultsAreTrue /\ []LP!OutputIsThePayload
    BY InstancesAreStreams, LP!LoadResultsCorrect, LP!OutputIsThePayloadCorrect, PTL
  <1>2. SP!Spec => []SP!ResultsAreTrue /\ []SP!CommittedIsTheInput
    BY InstancesAreStreams, SP!SaveResultsCorrect, SP!CommittedIsTheInputCorrect, PTL
  <1>3. /\ LP!ResultsAreTrue => L!ResultsAreTrue
        /\ LP!OutputIsThePayload => L!OutputIsThePayload
    BY DEF LP!ResultsAreTrue, L!ResultsAreTrue, LP!OutputIsThePayload,
           L!OutputIsThePayload, LP!IsPayload, L!IsPayload
  <1>4. /\ SP!ResultsAreTrue => S!ResultsAreTrue
        /\ SP!CommittedIsTheInput => S!CommittedIsTheInput
    BY DEF SP!ResultsAreTrue, S!ResultsAreTrue, SP!CommittedIsTheInput,
           S!CommittedIsTheInput, SP!IsPayload, S!IsPayload, SP!InputErrors,
           S!InputErrors, SP!WriteErrors, S!WriteErrors
  <1>5. L!Spec => LP!Spec
    <2>1. [L!Next]_(L!vars) => [LP!Next]_(LP!vars)
      BY SameLoad
    <2> QED
      BY <2>1, SameLoad, PTL DEF L!Spec, LP!Spec
  <1>6. S!Spec => SP!Spec
    <2>1. [S!Next]_(S!vars) => [SP!Next]_(SP!vars)
      BY SameSave
    <2> QED
      BY <2>1, SameSave, PTL DEF S!Spec, SP!Spec
  <1> QED
    BY <1>1, <1>2, <1>3, <1>4, <1>5, <1>6, LoadIsALoadStream, SaveIsASaveStream, PTL
=============================================================================
