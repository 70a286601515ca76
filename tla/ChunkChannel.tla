---------------------------- MODULE ChunkChannel ----------------------------
(***************************************************************************)
(* What both streaming directions share: chunks of a payload and the       *)
(* bounded channel that carries them between the caller's thread or task   *)
(* and the worker.  A chunk is named by the part of the payload it holds:  *)
(* [from, to) in bytes.                                                    *)
(***************************************************************************)
EXTENDS Integers, Sequences

CONSTANTS
  ChunkSize,   \* STREAM_CHUNK_SIZE
  Capacity,    \* STREAM_CHANNEL_CAPACITY
  MaxLen       \* bound on the payload and declared lengths of an instance

ASSUME ChunkChannelAssumption ==
  /\ ChunkSize \in Nat \ {0}
  /\ Capacity \in Nat \ {0}
  /\ MaxLen \in Nat

Lengths == 0..MaxLen
Chunk(a, b) == [kind |-> "Chunk", from |-> a, to |-> b]
Chunks == [kind : {"Chunk"}, from : Lengths, to : Lengths]

(* The size of the buffer for the next chunk.                              *)
Requested(remaining) == IF remaining < ChunkSize THEN remaining ELSE ChunkSize

HasRoom(channel) == Len(channel) < Capacity

(* The bytes of a sequence of chunks, one after the other, are the first n *)
(* bytes of the payload.                                                   *)
IsPayload(s, n) ==
  /\ \A i \in 1..Len(s) : s[i].from = IF i = 1 THEN 0 ELSE s[i - 1].to
  /\ n = IF s = <<>> THEN 0 ELSE s[Len(s)].to

(* What a caller gets from Pending::wait when the operation's reply        *)
(* channel holds r: a reply channel that was dropped means EngineFailed.   *)
Waited(r) == IF r = "Disconnected" THEN "EngineFailed" ELSE r
=============================================================================
