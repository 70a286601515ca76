----------------------------- MODULE SaveStream -----------------------------
(***************************************************************************)
(* One call of save_from: the caller that reads the input and feeds a      *)
(* bounded channel, in the blocking and in the Tokio facade, and the       *)
(* operation, which waits in the engine, runs on a worker that stages the  *)
(* chunks and commits them, and travels back with its result.              *)
(*                                                                         *)
(* The two ends tell each other what happened only by what they send and   *)
(* by dropping their end of a channel.  The operation owns the receiving   *)
(* end until the coordinator has delivered its result, so a worker that    *)
(* has failed does not stop the caller from filling the channel.           *)
(*                                                                         *)
(* The engine is reduced to what a stream sees of it (module Engine), and  *)
(* the files to whether the canonical blob is the old or the new one       *)
(* (module BlobFiles).                                                     *)
(***************************************************************************)
EXTENDS ChunkChannel

CONSTANTS
  Maximum,   \* max_blob_size of the store
  Faults     \* "input", "store", "engine", "cancel": what may go wrong

ASSUME SaveStreamAssumption ==
  /\ Maximum \in Lengths
  /\ Faults \subseteq {"input", "store", "engine", "cancel"}

VARIABLES
  facade,        \* "blocking" or "tokio"
  declared,      \* declared_len
  pc,            \* where the caller is in save_from
  read,          \* bytes read from the input
  sent,          \* bytes handed to the channel
  ended,         \* history: the input was found to end at declared_len
  verdict,       \* the caller's own error, returned after the operation ended
  returned,      \* what save_from returned
  chunks,        \* the channel of SaveStreamMessages
  senderOpen,    \* the caller still has its end of it
  receiverOpen,  \* the operation still has its end
  work,          \* where the operation is
  written,       \* the worker's count of bytes
  staged,        \* the chunks in the staging file
  canonical,     \* the canonical blob: "old" or "new"
  outcome,       \* the result the worker computed
  result         \* the content of the reply channel

callerVars == <<pc, read, sent, ended, verdict, returned>>
workerVars == <<written, staged, canonical, outcome>>
vars == <<facade, declared, callerVars, chunks, senderOpen, receiverOpen, work,
          workerVars, result>>

Complete == [kind |-> "Complete"]

InputErrors == {"InputEndedEarly", "InputHasTrailingData", "InputIo"}
Refusals == {"StoreClosed", "EngineFailed", "WorkerUnavailable"}
WriteErrors == {"OpenAtomicWriter", "WriteEnvelope"}
Results == InputErrors \cup Refusals \cup WriteErrors \cup
           {"Ok", "BlobTooLarge", "StreamCancelled", "AtomicCommit",
            "SyncNamespaceDirectory"}

CallerPcs == {"start", "read", "send", "probe", "complete", "await", "drain",
              "returned", "dropped"}
WorkPcs == {"none", "queued", "open", "receive", "commit", "finished",
            "answered", "lost"}

TypeOK ==
  /\ facade \in {"blocking", "tokio"}
  /\ declared \in Lengths
  /\ pc \in CallerPcs
  /\ read \in Lengths /\ sent \in Lengths
  /\ ended \in BOOLEAN
  /\ verdict \in InputErrors \cup {"none"}
  /\ returned \in Results \cup {"none"}
  /\ chunks \in Seq(Chunks \cup {Complete})
  /\ Len(chunks) <= Capacity
  /\ senderOpen \in BOOLEAN /\ receiverOpen \in BOOLEAN
  /\ work \in WorkPcs
  /\ written \in Lengths
  /\ staged \in Seq(Chunks)
  /\ canonical \in {"old", "new"}
  /\ outcome \in Results \cup {"none"}
  /\ result \in Results \cup {"none", "Disconnected"}

Init ==
  /\ facade \in {"blocking", "tokio"}
  /\ declared \in Lengths
  /\ pc = "start"
  /\ read = 0 /\ sent = 0
  /\ ended = FALSE
  /\ verdict = "none"
  /\ returned = "none"
  /\ chunks = <<>>
  /\ senderOpen = FALSE /\ receiverOpen = FALSE
  /\ work = "none"
  /\ written = 0
  /\ staged = <<>>
  /\ canonical = "old"
  /\ outcome = "none"
  /\ result = "none"

-----------------------------------------------------------------------------
(* The caller: save_from.                                                  *)

(* save_from returns r and drops what it owns.                             *)
Return(r) ==
  /\ pc' = "returned"
  /\ returned' = r
  /\ senderOpen' = FALSE

(* The next thing to do with the input once n bytes have been read.        *)
NextRead(n) == IF n < declared THEN "read" ELSE "probe"

(* start_save_stream: the store may be closed or failed, the declared      *)
(* length too large; otherwise the operation is submitted.                 *)
Fits == declared <= Maximum

StartRefused(r) ==
  /\ pc = "start"
  /\ \/ "engine" \in Faults /\ r \in {"StoreClosed", "EngineFailed"}
     \/ ~Fits /\ r = "BlobTooLarge"
  /\ Return(r)
  /\ UNCHANGED <<facade, declared, read, sent, ended, verdict, chunks,
                 receiverOpen, work, workerVars, result>>

Start ==
  /\ pc = "start"
  /\ Fits
  /\ pc' = NextRead(0)
  /\ senderOpen' = TRUE /\ receiverOpen' = TRUE
  /\ work' = "queued"
  /\ UNCHANGED <<facade, declared, read, sent, ended, verdict, returned, chunks,
                 workerVars, result>>

(* The Tokio facade polls the result before it polls the reader, so it     *)
(* turns to the input only while there is no result.                       *)
\* mutant: the select is forgotten
NeverInterrupted == FALSE
Interrupted == facade = "tokio" /\ result # "none"

Reading(p) == pc = p /\ ~Interrupted

(* The reader returned 1 to `requested` bytes.                             *)
ReadSome(n) ==
  /\ Reading("read")
  /\ n \in 1..Requested(declared - read)
  /\ read' = read + n
  /\ pc' = "send"
  /\ UNCHANGED <<facade, declared, sent, ended, verdict, returned, chunks,
                 senderOpen, receiverOpen, work, workerVars, result>>

(* The caller gives up on its input: it drops the sender and waits for the *)
(* operation to end before it returns its own error.                       *)
\* mutant: the marker is sent on the error path as well
GiveUpComplete(r) ==
  /\ verdict' = r
  /\ pc' = "complete"
  /\ UNCHANGED senderOpen
GiveUp(r) ==
  /\ verdict' = r
  /\ pc' = "drain"
  /\ senderOpen' = FALSE

(* The reader ended, failed, or went on after the declared length.         *)
BadInput(r) ==
  /\ "input" \in Faults
  /\ \/ Reading("read") /\ r \in {"InputEndedEarly", "InputIo"}
     \/ Reading("probe") /\ r \in {"InputHasTrailingData", "InputIo"}
  /\ GiveUp(r)
  /\ UNCHANGED <<facade, declared, read, sent, ended, returned, chunks,
                 receiverOpen, work, workerVars, result>>

(* The probe for trailing data found the end of the input.                 *)
ProbeEnd ==
  /\ Reading("probe")
  /\ ended' = TRUE
  /\ pc' = "complete"
  /\ UNCHANGED <<facade, declared, read, sent, verdict, returned, chunks,
                 senderOpen, receiverOpen, work, workerVars, result>>

(* The operation ended while the Tokio facade was waiting for input.       *)
Interrupt ==
  /\ pc \in {"read", "probe"}
  /\ Interrupted
  /\ Return(Waited(result))
  /\ UNCHANGED <<facade, declared, read, sent, ended, verdict, chunks,
                 receiverOpen, work, workerVars, result>>

SendChunk ==
  /\ pc = "send"
  /\ receiverOpen /\ HasRoom(chunks)
  /\ chunks' = Append(chunks, Chunk(sent, read))
  /\ sent' = read
  /\ pc' = NextRead(read)
  /\ UNCHANGED <<facade, declared, read, ended, verdict, returned, senderOpen,
                 receiverOpen, work, workerVars, result>>

SendComplete ==
  /\ pc = "complete"
  /\ receiverOpen /\ HasRoom(chunks)
  /\ chunks' = Append(chunks, Complete)
  /\ senderOpen' = FALSE
  /\ pc' = "await"
  /\ UNCHANGED <<facade, declared, read, sent, ended, verdict, returned,
                 receiverOpen, work, workerVars, result>>

(* A send fails when the operation and its receiver are gone.              *)
SendFails ==
  /\ pc \in {"send", "complete"}
  /\ ~receiverOpen
  /\ pc' = "await"
  /\ UNCHANGED <<facade, declared, read, sent, ended, verdict, returned, chunks,
                 senderOpen, receiverOpen, work, workerVars, result>>

(* Pending::wait returns; a caller with an error of its own drops the      *)
(* operation's result.                                                     *)
Finish ==
  /\ pc \in {"await", "drain"}
  /\ result # "none"
  /\ Return(IF verdict = "none" THEN Waited(result) ELSE verdict)
  /\ UNCHANGED <<facade, declared, read, sent, ended, verdict, chunks,
                 receiverOpen, work, workerVars, result>>

(* The Tokio future is dropped at one of its await points, or the reader   *)
(* of the blocking facade panics.                                          *)
CancelPoints ==
  IF facade = "tokio" THEN {"read", "send", "probe", "complete", "await", "drain"}
  ELSE {"read", "probe"}

Cancel ==
  /\ "cancel" \in Faults
  /\ pc \in CancelPoints
  /\ pc' = "dropped"
  /\ senderOpen' = FALSE
  /\ UNCHANGED <<facade, declared, read, sent, ended, verdict, returned, chunks,
                 receiverOpen, work, workerVars, result>>

-----------------------------------------------------------------------------
(* The operation in the engine.                                            *)

(* A worker takes the job.                                                 *)
Begin ==
  /\ work = "queued"
  /\ work' = "open"
  /\ UNCHANGED <<facade, declared, callerVars, chunks, senderOpen, receiverOpen,
                 workerVars, result>>

(* deliver_error: the operation is answered without having run.            *)
Refuse(r) ==
  /\ "engine" \in Faults
  /\ work = "queued"
  /\ result' = r
  /\ work' = "answered"
  /\ UNCHANGED <<facade, declared, callerVars, chunks, senderOpen, receiverOpen,
                 workerVars>>

(* The operation is dropped with its channels: its queue by an unwinding   *)
(* coordinator, or its job by a panic, or its completion with the channel. *)
Lose ==
  /\ "engine" \in Faults
  /\ work \in {"queued", "open", "receive", "commit", "finished"}
  /\ work' = "lost"
  /\ UNCHANGED <<facade, declared, callerVars, chunks, senderOpen, receiverOpen,
                 workerVars, result>>

DropReply ==
  /\ work = "lost"
  /\ result = "none"
  /\ result' = "Disconnected"
  /\ UNCHANGED <<facade, declared, callerVars, chunks, senderOpen, receiverOpen,
                 work, workerVars>>

(* deliver, or deliver_error when the coordinator panicked meanwhile.      *)
Deliver(r) ==
  /\ work = "finished"
  /\ r = outcome \/ ("engine" \in Faults /\ r = "EngineFailed")
  /\ result' = r
  /\ work' = "answered"
  /\ UNCHANGED <<facade, declared, callerVars, chunks, senderOpen, receiverOpen,
                 workerVars>>

(* The answered or lost operation is dropped, and with it the receiver and *)
(* what was in the channel.                                                *)
\* mutant: the operation is kept
DropNever == FALSE
Droppable == work \in {"answered", "lost"}

DropOperation ==
  /\ Droppable
  /\ receiverOpen
  /\ receiverOpen' = FALSE
  /\ chunks' = <<>>
  /\ UNCHANGED <<facade, declared, callerVars, senderOpen, work, workerVars,
                 result>>

-----------------------------------------------------------------------------
(* The worker: save_blob_from_receiver and write_stream_envelope.          *)

(* The worker computes r and ends, or goes on to `next` if r is "none".     *)
Continue(r, next) ==
  /\ outcome' = r
  /\ work' = IF r = "none" THEN next ELSE "finished"

StoreFault(errors) == IF "store" \in Faults THEN errors ELSE {}

(* The staging file is opened and the header written.                      *)
OpenStaging ==
  /\ work = "open"
  /\ \E r \in {"none"} \cup StoreFault(WriteErrors) : Continue(r, "receive")
  /\ UNCHANGED <<facade, declared, callerVars, chunks, senderOpen, receiverOpen,
                 written, staged, canonical, result>>

(* A chunk that fits the declared length is written and counted.           *)
ChunkResults(size) ==
  IF written + size > declared THEN {"InputHasTrailingData"}
  ELSE {"none"} \cup StoreFault({"WriteEnvelope"})

ReceiveChunk ==
  LET c == Head(chunks) IN
  /\ work = "receive"
  /\ chunks # <<>> /\ c.kind = "Chunk"
  /\ chunks' = Tail(chunks)
  /\ \E r \in ChunkResults(c.to - c.from) :
        /\ Continue(r, "receive")
        /\ staged' = IF r = "none" THEN Append(staged, c) ELSE staged
        /\ written' = IF r = "none" THEN written + (c.to - c.from) ELSE written
  /\ UNCHANGED <<facade, declared, callerVars, senderOpen, receiverOpen,
                 canonical, result>>

(* Only the marker leads to a commit, and only after the declared bytes.   *)
CompleteResults ==
  IF written # declared THEN {"InputEndedEarly"}
  ELSE {"none"} \cup StoreFault({"WriteEnvelope"})

ReceiveComplete ==
  /\ work = "receive"
  /\ chunks # <<>> /\ Head(chunks) = Complete
  /\ chunks' = Tail(chunks)
  /\ \E r \in CompleteResults : Continue(r, "commit")
  /\ UNCHANGED <<facade, declared, callerVars, senderOpen, receiverOpen,
                 written, staged, canonical, result>>

(* The channel is empty and its sender gone: the input was not completed.  *)
\* mutant: the end of the channel is taken for the end of the input
CommitOnDisconnect == work' = "commit" /\ UNCHANGED outcome
\* mutant: the worker goes on waiting for the marker
WaitOnDisconnect == UNCHANGED <<work, outcome>>
CancelOnDisconnect == Continue("StreamCancelled", "finished")

ReceiveDisconnected ==
  /\ work = "receive"
  /\ chunks = <<>> /\ ~senderOpen
  /\ CancelOnDisconnect
  /\ UNCHANGED <<facade, declared, callerVars, chunks, senderOpen, receiverOpen,
                 written, staged, canonical, result>>

(* The results of committing, with the canonical blob they leave: a failed *)
(* commit is ambiguous, a failed sync on Windows comes after the move.     *)
CommitOutcomes ==
  {<<"Ok", "new">>} \cup
  StoreFault({<<"AtomicCommit", "old">>, <<"AtomicCommit", "new">>,
              <<"SyncNamespaceDirectory", "new">>})

Commit ==
  /\ work = "commit"
  /\ \E o \in CommitOutcomes : Continue(o[1], "finished") /\ canonical' = o[2]
  /\ UNCHANGED <<facade, declared, callerVars, chunks, senderOpen, receiverOpen,
                 written, staged, result>>

-----------------------------------------------------------------------------
(* What the input decides: when the reader answers and with what.          *)
Reader ==
  \/ \E n \in Lengths : ReadSome(n)
  \/ \E r \in InputErrors : BadInput(r)
  \/ ProbeEnd

Caller ==
  \/ Start \/ \E r \in Results : StartRefused(r)
  \/ Interrupt \/ SendChunk \/ SendComplete \/ SendFails \/ Finish

Engine ==
  \/ Begin \/ DropReply \/ DropOperation
  \/ \E r \in Refusals : Refuse(r)
  \/ \E r \in Results : Deliver(r)
  \/ OpenStaging \/ ReceiveChunk \/ ReceiveComplete \/ ReceiveDisconnected
  \/ Commit

Next == Reader \/ Caller \/ Engine \/ Lose \/ Cancel

Spec == Init /\ [][Next]_vars

(* The threads of the engine and a caller that has called go on; the input *)
(* may stall for ever, and nobody has to fail or to be dropped.            *)
FairSpec == Spec /\ WF_vars(Caller) /\ WF_vars(Engine)

-----------------------------------------------------------------------------
(* Properties.                                                             *)

(* The new blob is canonical only if the staging file held exactly the     *)
(* declared bytes in order, the input was seen to end there and the caller *)
(* sent its marker: a stream that is too short, too long, failing or       *)
(* dropped before the marker leaves the old blob.                          *)
CommittedIsTheInput ==
  canonical = "new" => ended /\ IsPayload(staged, declared)

(* What save_from returns is true from then on: after Ok the blob is the   *)
(* new one, after an error of the input, of staging or of admission it is  *)
(* and stays the old one.  Only a failed commit, a failed sync and a       *)
(* failed engine leave the caller in doubt.  What it says of the input is  *)
(* what the caller itself has found, never the worker's second check of    *)
(* the length, and a caller that stays is never told that it went away,    *)
(* whatever the two ends see first.                                        *)
ResultsAreTrue ==
  /\ returned = "Ok" => canonical = "new"
  /\ returned \in InputErrors \cup WriteErrors \cup
        {"BlobTooLarge", "StoreClosed", "WorkerUnavailable"} => canonical = "old"
  /\ returned \in InputErrors => verdict = returned
  /\ returned # "StreamCancelled"

(* Once the caller has nothing more to send or is gone, the operation ends *)
(* and is dropped, whatever the reader does: a commit that the marker has  *)
(* started, or the cancellation of a stream without one.                   *)
OperationDrains ==
  (pc \in {"await", "dropped"} /\ work # "none") ~> (result # "none" /\ ~receiverOpen)

(* The Tokio facade learns of a result even if the reader never answers.   *)
AsyncLearnsOfResult ==
  (facade = "tokio" /\ result # "none" /\ pc \notin {"returned", "dropped"})
    ~> pc \in {"returned", "dropped"}

(* With an input that always answers, save_from returns in both facades:   *)
(* neither end waits for ever for room, for a chunk or for a result.       *)
EveryCallerReturns ==
  WF_vars(Reader) => (pc # "start" ~> pc \in {"returned", "dropped"})
=============================================================================
