------------------------- MODULE ChunkChannelProofs -------------------------
(***************************************************************************)
(* Facts about chunks and channels that the proofs of both streaming       *)
(* directions need.                                                        *)
(***************************************************************************)
EXTENDS ChunkChannel, TLAPS

(* The elements of a sequence after an append.                             *)
LEMMA AppendElements ==
  ASSUME NEW T, NEW s \in Seq(T), NEW e \in T
  PROVE  /\ Append(s, e) \in Seq(T)
         /\ Append(s, e) # <<>>
         /\ Len(s) \in Nat
         /\ Len(Append(s, e)) = Len(s) + 1
         /\ \A i \in 1..Len(s) : Append(s, e)[i] = s[i]
         /\ Append(s, e)[Len(s) + 1] = e
  OBVIOUS

(* The elements of a non-empty sequence, its head and its tail.            *)
LEMMA TailElements ==
  ASSUME NEW T, NEW s \in Seq(T), s # <<>>
  PROVE  /\ Len(s) \in Nat \ {0}
         /\ Tail(s) \in Seq(T)
         /\ Len(Tail(s)) = Len(s) - 1
         /\ \A i \in 1..(Len(s) - 1) : Tail(s)[i] = s[i + 1]
         /\ Head(s) = s[1]
         /\ \A i \in 1..Len(s) : s[i] \in T
  OBVIOUS

(* There is an empty sequence over every set.                              *)
LEMMA EmptySequence == \A T : <<>> \in Seq(T)
  OBVIOUS

(* A sequence without elements is the empty one.                           *)
LEMMA EmptyLength ==
  ASSUME NEW T, NEW s \in Seq(T)
  PROVE  (s = <<>>) <=> (Len(s) = 0)
  OBVIOUS

(* Requested(n) bytes are at least one and never more than are left.       *)
LEMMA RequestedBounds ==
  ASSUME NEW n \in Nat \ {0}
  PROVE  Requested(n) \in 1..n
  BY ChunkChannelAssumption DEF Requested

(* A chunk that begins where a payload prefix ends extends the prefix.     *)
LEMMA PayloadAppend ==
  ASSUME NEW s \in Seq(Chunks), NEW n, IsPayload(s, n),
         NEW c \in Chunks, c.from = n
  PROVE  IsPayload(Append(s, c), c.to)
  <1> DEFINE t == Append(s, c)
  <1>1. /\ t # <<>>
        /\ Len(s) \in Nat
        /\ Len(t) = Len(s) + 1
        /\ \A i \in 1..Len(s) : t[i] = s[i]
        /\ t[Len(s) + 1] = c
    BY AppendElements
  <1>2. (s = <<>>) <=> (Len(s) = 0)
    BY EmptyLength
  <1> HIDE DEF t
  <1>3. ASSUME NEW i \in 1..Len(t)
        PROVE  t[i].from = IF i = 1 THEN 0 ELSE t[i - 1].to
    <2>1. CASE i <= Len(s)
      BY <1>1, <2>1 DEF IsPayload
    <2>2. CASE i = Len(s) + 1 /\ s = <<>>
      BY <1>1, <1>2, <2>2 DEF IsPayload
    <2>3. CASE i = Len(s) + 1 /\ s # <<>>
      BY <1>1, <1>2, <2>3 DEF IsPayload
    <2> QED
      BY <1>1, <2>1, <2>2, <2>3
  <1>4. c.to = t[Len(t)].to
    BY <1>1
  <1>5. IsPayload(t, c.to)
    BY <1>1, <1>3, <1>4 DEF IsPayload
  <1> QED
    BY <1>5 DEF t

(* The empty sequence holds the first 0 bytes and no others.               *)
LEMMA PayloadEmpty == \A n : IsPayload(<<>>, n) <=> n = 0
  BY DEF IsPayload
=============================================================================
