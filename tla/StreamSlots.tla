----------------------------- MODULE StreamSlots ----------------------------
(***************************************************************************)
(* A load_into that feeds a save_from of the same store: what the load     *)
(* writes goes through the application's pipe to the save's reader.  The   *)
(* streams share the store's slots (max_concurrent_operations) and perhaps *)
(* a key, and a close may come between them.                               *)
(*                                                                         *)
(* A stream holds its slot and its key while its caller is slow, and these *)
(* two wait for each other as well, so they finish only if they can run at *)
(* the same time.                                                          *)
(*                                                                         *)
(* Of the engine (module Engine) this keeps the dispatch and the close;    *)
(* the streams are instances of the modules LoadStream and SaveStream.     *)
(***************************************************************************)
EXTENDS ChunkChannel, FiniteSets

CONSTANTS
  Facades,        \* the facades of an instance
  MaxSlots,       \* bound on max_concurrent_operations
  PipeCapacity    \* bytes that the application's pipe holds

ASSUME StreamSlotsAssumption ==
  /\ Facades \subseteq {"blocking", "tokio"}
  /\ MaxSlots \in Nat \ {0}
  /\ PipeCapacity \in Nat \ {0}

VARIABLES
  facade,      \* the facade of both calls
  slots,       \* max_concurrent_operations
  sameKey,     \* the calls are for the same key
  first,       \* which operation was submitted first, or "none"
  closing,     \* "open", "closing" or "closed"
  cut,         \* the operations that were submitted before the close
  blob, payloadLen, lpc, held, output, lreturned, lchunks, lsenderOpen,
  callerOpen, acked, ackOpen, lwork, delivered, loutcome, lresult,
  declared, spc, read, sent, ended, verdict, sreturned, schunks, ssenderOpen,
  receiverOpen, swork, written, staged, canonical, soutcome, sresult

L == INSTANCE LoadStream WITH
       Faults <- {"store", "engine", "output", "cancel"},
       pc <- lpc, returned <- lreturned, chunks <- lchunks,
       senderOpen <- lsenderOpen, work <- lwork, outcome <- loutcome,
       result <- lresult

S == INSTANCE SaveStream WITH
       Maximum <- MaxLen, Faults <- {"engine", "input", "cancel"},
       pc <- spc, returned <- sreturned, chunks <- schunks,
       senderOpen <- ssenderOpen, work <- swork, outcome <- soutcome,
       result <- sresult

world == <<slots, sameKey>>
loadVars == <<facade, blob, payloadLen, lpc, held, output, lreturned, lchunks,
              lsenderOpen, callerOpen, acked, ackOpen, lwork, delivered,
              loutcome, lresult>>
saveVars == <<facade, declared, spc, read, sent, ended, verdict, sreturned,
              schunks, ssenderOpen, receiverOpen, swork, written, staged,
              canonical, soutcome, sresult>>
vars == <<world, first, closing, cut, loadVars, saveVars>>

Streams == {"load", "save"}
Work(x) == IF x = "load" THEN lwork ELSE swork
Other(x) == IF x = "load" THEN "save" ELSE "load"

TypeOK ==
  /\ L!TypeOK /\ S!TypeOK
  /\ slots \in 1..MaxSlots
  /\ sameKey \in BOOLEAN
  /\ first \in Streams \cup {"none"}
  /\ closing \in {"open", "closing", "closed"}
  /\ cut \subseteq Streams

(* The application declares the length of the blob, so that the pipe never *)
(* holds more than the save asks for.                                      *)
Init ==
  /\ L!Init /\ S!Init
  /\ facade \in Facades
  /\ slots \in 1..MaxSlots
  /\ sameKey \in BOOLEAN
  /\ declared = payloadLen
  /\ first = "none"
  /\ closing = "open"
  /\ cut = {}

-----------------------------------------------------------------------------
(* The coordinator.                                                        *)

Queued(x) == Work(x) = "queued"

(* The operations that hold a slot and their key.  The handler of a        *)
(* completion releases both and delivers the result; to the two streams    *)
(* that is one step.                                                       *)
Active == {x \in Streams : Work(x) \notin {"none", "queued", "answered"}}

\* mutant: one slot is kept free
HasSpareSlot == Cardinality(Active) + 1 < slots
HasSlot == Cardinality(Active) < slots

KeyIdle(x) == sameKey => Other(x) \notin Active

(* The queue of a key is FIFO, and of two keys that wait for a slot the    *)
(* one that was submitted first was offered it first.                      *)
Turn(x) == first = x \/ ~Queued(Other(x)) \/ (slots > 1 /\ ~sameKey)

(* A submission that the coordinator reads after the close is refused.     *)
Admitted(x) == closing = "open" \/ x \in cut

MayBegin(x) == HasSlot /\ KeyIdle(x) /\ Turn(x) /\ Admitted(x)

Submitted(x) ==
  /\ closing = "open"
  /\ first' = IF first = "none" THEN x ELSE first

(* Submissions are read in order: if the second was read or is ahead of    *)
(* the close, then so is the first.                                        *)
InOrder(ahead) ==
  LET second == Other(first) IN
  Queued(first) /\ (second \in ahead \/ Work(second) \notin {"none", "queued"})
    => first \in ahead

(* The close event is read: the operations that are in the engine, and     *)
(* those whose submission came before it, are drained.                     *)
Close ==
  /\ closing = "open"
  /\ closing' = "closing"
  /\ \E ahead \in SUBSET {x \in Streams : Queued(x)} :
        InOrder(ahead) /\ cut' = Active \cup ahead
  /\ UNCHANGED <<world, first, loadVars, saveVars>>

Drained == \A x \in cut : Work(x) = "answered"

Closed ==
  /\ closing = "closing"
  /\ Drained
  /\ closing' = "closed"
  /\ UNCHANGED <<world, first, cut, loadVars, saveVars>>

-----------------------------------------------------------------------------
(* The application's pipe, through which all bytes move.                   *)

Taken == IF output = <<>> THEN 0 ELSE output[Len(output)].to
InPipe == Taken - read
WriterGone == lpc \in {"returned", "dropped"}
ReaderGone == spc \in {"returned", "dropped"}

LoadWriter ==
  /\ \/ L!WriteChunk /\ InPipe + (held.to - held.from) <= PipeCapacity
     \/ L!WriteFails(held.from) /\ ReaderGone
  /\ UNCHANGED <<world, first, closing, cut, saveVars>>

SaveReader ==
  /\ \/ \E n \in Lengths : S!ReadSome(n) /\ n <= InPipe
     \/ S!ProbeEnd /\ InPipe = 0 /\ WriterGone
     \/ S!BadInput("InputEndedEarly") /\ InPipe = 0 /\ WriterGone
  /\ UNCHANGED <<world, first, closing, cut, loadVars>>

-----------------------------------------------------------------------------
(* The streams in the store.                                               *)

LoadCaller ==
  /\ \/ L!Start /\ Submitted("load")
     \/ /\ closing # "open" /\ L!StartRefused("StoreClosed")
        /\ UNCHANGED first
     \/ /\ L!ReceiveChunk \/ L!ReceiveEnd \/ L!Acknowledge \/ L!Finish
        /\ UNCHANGED first
  /\ UNCHANGED <<world, closing, cut, saveVars>>

SaveCaller ==
  /\ \/ S!Start /\ Submitted("save")
     \/ /\ closing # "open" /\ S!StartRefused("StoreClosed")
        /\ UNCHANGED first
     \/ /\ S!Interrupt \/ S!SendChunk \/ S!SendComplete \/ S!SendFails \/ S!Finish
        /\ UNCHANGED first
  /\ UNCHANGED <<world, closing, cut, loadVars>>

LoadEngine ==
  /\ \/ MayBegin("load") /\ L!Begin
     \/ ~Admitted("load") /\ L!Refuse("StoreClosed")
     \/ L!Deliver(loutcome) \/ L!DropOperation
     \/ L!OpenAndValidate \/ L!StreamChunk \/ L!StreamFails \/ L!StreamDone
     \/ L!AwaitAcknowledgement
  /\ UNCHANGED <<world, first, closing, cut, saveVars>>

SaveEngine ==
  /\ \/ MayBegin("save") /\ S!Begin
     \/ ~Admitted("save") /\ S!Refuse("StoreClosed")
     \/ S!Deliver(soutcome) \/ S!DropOperation
     \/ S!OpenStaging \/ S!ReceiveChunk \/ S!ReceiveComplete
     \/ S!ReceiveDisconnected \/ S!Commit
  /\ UNCHANGED <<world, first, closing, cut, loadVars>>

LoadDropped == L!Cancel /\ UNCHANGED <<world, first, closing, cut, saveVars>>
SaveDropped == S!Cancel /\ UNCHANGED <<world, first, closing, cut, loadVars>>

Next ==
  \/ LoadWriter \/ SaveReader \/ LoadCaller \/ SaveCaller
  \/ LoadEngine \/ SaveEngine \/ LoadDropped \/ SaveDropped
  \/ Close \/ Closed

Spec == Init /\ [][Next]_vars

(* The threads of the engine go on, and the application makes both calls   *)
(* and lets them run; the ends of the pipe may stall, and nobody has to    *)
(* close or to be dropped.                                                 *)
FairSpec ==
  /\ Spec
  /\ WF_vars(LoadCaller) /\ WF_vars(SaveCaller)
  /\ WF_vars(LoadEngine) /\ WF_vars(SaveEngine)
  /\ WF_vars(Closed)

-----------------------------------------------------------------------------
(* Properties.                                                             *)

Gone == WriterGone /\ ReaderGone
Answering == WF_vars(LoadWriter) /\ WF_vars(SaveReader)

(* The streams both return if the store has a second slot for them and     *)
(* they are for different keys.  Otherwise they wait for each other, but   *)
(* not beyond the end of either: dropping one of them frees the other.     *)
StreamsFinish ==
  Answering =>
    ((slots > 1 /\ ~sameKey) \/ lpc = "dropped" \/ spc = "dropped") ~> Gone

(* A close waits for a stream whose reader or writer has stalled, and the  *)
(* cancellation of the callers releases it without any answer from them.   *)
CancellationReleasesClose ==
  (closing = "closing" /\ lpc \in {"start", "returned", "dropped"}
                       /\ spc \in {"start", "returned", "dropped"})
    ~> closing = "closed"

(* A copy commits the whole payload of a valid blob or nothing: an error   *)
(* of the load in the middle of the payload reaches the save only as an    *)
(* early end of its input.                                                 *)
CopyIsWhole ==
  canonical = "new" /\ declared > 0
    => blob = "valid" /\ IsPayload(output, payloadLen)
=============================================================================
