--------------------------- MODULE EnvelopeProofs ---------------------------
(***************************************************************************)
(* Proofs about the envelope format, for every radix, width of the fields, *)
(* chunk size, set of payloads and of maxima, and any number of damages.   *)
(*                                                                         *)
(*   EnvelopeInvariant            what the file and the running checksum   *)
(*                                are at every step of a save and after a  *)
(*                                damage (EnvInv, inductive)               *)
(*   DecodersAgreeCorrect         the two decoders, on any file            *)
(*   AcceptsOnlyEnvelopesCorrect  one file for a payload                   *)
(*   ReadBackCorrect              what was saved is read back              *)
(*   OneDamageIsNamedCorrect      a single damage is noticed and told      *)
(*                                                                         *)
(* The fields and the checksum are recursive functions.  The library's     *)
(* induction takes a predicate as a parameter; here the predicate is the   *)
(* set of the numbers that satisfy it, and induction follows from the      *)
(* least element of its complement.                                        *)
(***************************************************************************)
EXTENDS Envelope, SequenceTheorems, WellFoundedInduction, TLAPS

-----------------------------------------------------------------------------
(* Induction and recursion.                                                *)

(* Induction over the natural numbers, about a set instead of a predicate: *)
(* a number that is missing from the set would have a least one.           *)
LEMMA SetInduction ==
  ASSUME NEW S, 0 \in S, \A n \in Nat : n \in S => n + 1 \in S
  PROVE  \A n \in Nat : n \in S
  <1> DEFINE R == OpToRel(<, Nat)
             T == Nat \ S
  <1>1. R = {ss \in Nat \X Nat : ss[1] < ss[2]}
    BY DEF OpToRel
  <1>2. IsWellFoundedOn(R, Nat)
    BY NatLessThanWellFounded
  <1>3. SUFFICES ASSUME T # {} PROVE FALSE
    OBVIOUS
  <1> HIDE DEF R
  <1>4. PICK x \in T : \A y \in T : ~ (<<y, x>> \in R)
    <2> HIDE DEF T
    <2>1. T \subseteq Nat
      BY DEF T
    <2> QED
      BY <1>2, <1>3, <2>1, WFMin
  <1>5. x # 0 /\ x - 1 \in Nat /\ <<x - 1, x>> \in R
    BY <1>1
  <1>6. x - 1 \in S
    BY <1>4, <1>5
  <1> QED
    BY <1>5, <1>6

(* The same up to a bound.                                                 *)
LEMMA RangeInduction ==
  ASSUME NEW n \in Nat, NEW S, 0 \in S, \A i \in 1..n : i - 1 \in S => i \in S
  PROVE  \A i \in 0..n : i \in S
  <1> DEFINE T == {m \in Nat : m <= n => m \in S}
  <1>1. 0 \in T
    OBVIOUS
  <1>2. ASSUME NEW m \in Nat, m \in T PROVE m + 1 \in T
    <2>1. CASE m + 1 <= n
      <3>1. m + 1 \in 1..n /\ (m + 1) - 1 = m /\ m \in S
        BY <1>2, <2>1
      <3> QED
        BY <3>1
    <2> QED
      BY <2>1
  <1> HIDE DEF T
  <1>3. \A m \in Nat : m \in T
    BY <1>1, <1>2, SetInduction
  <1> QED
    BY <1>3 DEF T

(* There is a function with a given beginning and given steps.             *)
LEMMA RunExists ==
  ASSUME NEW n \in Nat, NEW d \in Nat, NEW step \in [1..n -> [Nat -> Nat]]
  PROVE  \E f \in [0..n -> Nat] :
            f[0] = d /\ \A i \in 1..n : f[i] = step[i][f[i - 1]]
  <1> DEFINE Run(f, m) == f[0] = d /\ \A i \in 1..m : f[i] = step[i][f[i - 1]]
             Reached(m) == \E f \in [0..m -> Nat] : Run(f, m)
             S == {m \in Nat : m <= n => Reached(m)}
  <1>1. Reached(0)
    <2> DEFINE f == [i \in 0..0 |-> d]
    <2>1. f \in [0..0 -> Nat] /\ Run(f, 0)
      OBVIOUS
    <2> QED
      BY <2>1
  <1>2. ASSUME NEW m \in Nat, m + 1 <= n, Reached(m) PROVE Reached(m + 1)
    <2>1. PICK f \in [0..m -> Nat] : Run(f, m)
      BY <1>2
    <2> DEFINE e == step[m + 1][f[m]]
               g == [i \in 0..(m + 1) |-> IF i <= m THEN f[i] ELSE e]
    <2>2. e \in Nat
      <3>1. m + 1 \in 1..n /\ f[m] \in Nat
        BY <1>2
      <3>2. step[m + 1] \in [Nat -> Nat]
        BY <3>1
      <3> QED
        BY <3>1, <3>2
    <2>3. g \in [0..(m + 1) -> Nat]
      <3> HIDE DEF e
      <3>1. \A i \in 0..(m + 1) : i <= m => f[i] \in Nat
        OBVIOUS
      <3> QED
        BY <2>2, <3>1
    <2>4. \A i \in 0..m : g[i] = f[i]
      OBVIOUS
    <2>5. g[m + 1] = e
      OBVIOUS
    <2>6. g[0] = d
      BY <2>1, <2>4
    <2>7. ASSUME NEW i \in 1..(m + 1) PROVE g[i] = step[i][g[i - 1]]
      <3> HIDE DEF g
      <3>1. CASE i <= m
        <4>1. i \in 1..m /\ i \in 0..m /\ i - 1 \in 0..m
          BY <3>1
        <4> QED
          BY <2>1, <2>4, <4>1
      <3>2. CASE i = m + 1
        <4>1. i - 1 = m /\ m \in 0..m
          BY <3>2
        <4> QED
          BY <2>4, <2>5, <3>2, <4>1
      <3> QED
        BY <3>1, <3>2
    <2> HIDE DEF g
    <2>8. Run(g, m + 1)
      BY <2>6, <2>7
    <2> HIDE DEF Run
    <2> QED
      BY <2>3, <2>8
  <1> HIDE DEF Reached
  <1>3. 0 \in S /\ \A m \in Nat : m \in S => m + 1 \in S
    BY <1>1, <1>2
  <1> HIDE DEF S
  <1>4. n \in S
    BY <1>3, SetInduction
  <1>5. Reached(n)
    BY <1>4 DEF S
  <1> QED
    BY <1>5, Zenon DEF Reached

-----------------------------------------------------------------------------
(* Division.                                                               *)

(* Quotient and remainder of a division.                                   *)
LEMMA Division ==
  ASSUME NEW x \in Nat, NEW p \in Nat \ {0}
  PROVE  /\ x \div p \in Nat /\ x % p \in Nat
         /\ x = p * (x \div p) + (x % p)
         /\ x % p < p
  OBVIOUS

(* They are the only ones.                                                 *)
LEMMA DivisionUnique ==
  ASSUME NEW x \in Nat, NEW p \in Nat \ {0}, NEW q \in Nat, NEW r \in Nat,
         x = p * q + r, r < p
  PROVE  x \div p = q /\ x % p = r
  OBVIOUS

(* Dividing by a product is dividing by one factor and then by the other.  *)
LEMMA DivDiv ==
  ASSUME NEW x \in Nat, NEW p \in Nat \ {0}, NEW r \in Nat \ {0}
  PROVE  x \div (r * p) = (x \div p) \div r
  OBVIOUS

-----------------------------------------------------------------------------
(* What the recursive definitions compute.                                 *)

(* The radix and the bytes.                                                *)
LEMMA RadixFacts ==
  Radix \in Nat \ {0, 1} /\ Bytes = 0..(Radix - 1) /\ Bytes \subseteq Nat
  BY EnvelopeAssumption DEF Bytes

(* The powers of the radix, one from the other.                            *)
LEMMA PowRun ==
  ASSUME NEW w \in Nat
  PROVE  \E c \in [0..w -> Nat] :
           /\ c[0] = 1
           /\ \A i \in 1..w : c[i] = Radix * c[i - 1]
           /\ Pow(w) = c[w]
  <1> DEFINE base == 1
             step == [i \in 1..w |-> [x \in Nat |-> Radix * x]]
             Eq(f) == f = [i \in 0..w |->
                             IF i = 0 THEN 1 ELSE Radix * f[i - 1]]
  <1>1. w \in Nat
    OBVIOUS
  <1>2. step \in [1..w -> [Nat -> Nat]] /\ base \in Nat
    BY RadixFacts
  <1>3. PICK f \in [0..w -> Nat] :
          f[0] = base /\ \A i \in 1..w : f[i] = step[i][f[i - 1]]
    <2> HIDE DEF step, base
    <2> QED
      BY <1>1, <1>2, RunExists
  <1>4. f[0] = 1 /\ \A i \in 1..w : f[i] = Radix * f[i - 1]
    <2>1. ASSUME NEW i \in 1..w PROVE f[i] = Radix * f[i - 1]
      <3>1. i - 1 \in 0..w
        BY <1>1
      <3>2. f[i - 1] \in Nat
        BY <3>1
      <3>3. step[i][f[i - 1]] = Radix * f[i - 1]
        BY <3>2
      <3> QED
        BY <1>3, <3>3
    <2> QED
      BY <1>3, <2>1
  <1>5. Eq(f)
    <2>1. \A i \in 0..w : f[i] = IF i = 0 THEN 1 ELSE Radix * f[i - 1]
      BY <1>1, <1>4
    <2> QED
      BY <2>1
  <1> DEFINE c == CHOOSE g : Eq(g)
  <1>6. Eq(c)
    <2> HIDE DEF Eq
    <2> QED
      BY <1>5
  <1>7. Pow(w) = c[w]
    BY DEF Pow
  <1> HIDE DEF c
  <1>8. c[0] = 1 /\ \A i \in 1..w : c[i] = Radix * c[i - 1]
    <2>1. \A i \in 0..w : c[i] = IF i = 0 THEN 1 ELSE Radix * c[i - 1]
      BY <1>6
    <2> QED
      BY <1>1, <2>1
  <1>9. \A i \in 0..w : c[i] = f[i]
    <2> DEFINE S == {i \in 0..w : c[i] = f[i]}
    <2>1. 0 \in S /\ \A i \in 1..w : i - 1 \in S => i \in S
      BY <1>1, <1>4, <1>8
    <2> HIDE DEF S
    <2>2. \A i \in 0..w : i \in S
      BY <1>1, <2>1, RangeInduction
    <2> QED
      BY <2>2 DEF S
  <1>10. c \in [0..w -> Nat]
    <2>1. c = [i \in 0..w |-> c[i]]
      BY <1>6
    <2> HIDE DEF Eq
    <2> QED
      BY <1>9, <2>1
  <1> QED
    BY <1>7, <1>8, <1>10

(* Whatever is computed like the powers is them.                           *)
LEMMA PowIs ==
  ASSUME NEW w \in Nat, NEW g,
         g[0] = 1, \A i \in 1..w : g[i] = Radix * g[i - 1]
  PROVE  Pow(w) = g[w]
  <1>1. PICK c \in [0..w -> Nat] :
          /\ c[0] = 1
          /\ \A i \in 1..w : c[i] = Radix * c[i - 1]
          /\ Pow(w) = c[w]
    BY PowRun
  <1> DEFINE S == {i \in 0..w : c[i] = g[i]}
  <1>2. w \in Nat
    OBVIOUS
  <1>3. 0 \in S /\ \A i \in 1..w : i - 1 \in S => i \in S
    BY <1>1, <1>2
  <1> HIDE DEF S
  <1>4. \A i \in 0..w : i \in S
    BY <1>2, <1>3, RangeInduction
  <1> QED
    BY <1>1, <1>2, <1>4 DEF S

(* The next power.                                                         *)
LEMMA PowFacts ==
  /\ Pow(0) = 1
  /\ \A w \in Nat : Pow(w) \in Nat \ {0} /\ Pow(w + 1) = Radix * Pow(w)
  <1>1. Pow(0) = 1
    BY PowRun
  <1>2. ASSUME NEW w \in Nat PROVE Pow(w) \in Nat \ {0} /\ Pow(w + 1) = Radix * Pow(w)
    <2>1. PICK q \in [0..(w + 1) -> Nat] :
            /\ q[0] = 1 /\ \A i \in 1..(w + 1) : q[i] = Radix * q[i - 1]
            /\ Pow(w + 1) = q[w + 1]
      <3>1. w + 1 \in Nat
        OBVIOUS
      <3> QED
        BY <3>1, PowRun
    <2>2. Pow(w) = q[w]
      <3>1. \A i \in 1..w : q[i] = Radix * q[i - 1]
        BY <2>1
      <3> QED
        BY <2>1, <3>1, PowIs
    <2>3. q[w + 1] = Radix * q[w]
      <3>1. w + 1 \in 1..(w + 1) /\ (w + 1) - 1 = w
        OBVIOUS
      <3> QED
        BY <2>1, <3>1
    <2>4. \A i \in 0..w : q[i] # 0
      <3> DEFINE S == {i \in 0..w : q[i] # 0}
      <3>1. ASSUME NEW i \in 1..w, i - 1 \in S PROVE i \in S
        <4>1. q[i] = Radix * q[i - 1] /\ q[i - 1] \in Nat \ {0}
          BY <2>1, <3>1
        <4> QED
          BY <4>1, RadixFacts
      <3>2. 0 \in S
        BY <2>1
      <3> HIDE DEF S
      <3>3. \A i \in 0..w : i \in S
        BY <3>1, <3>2, RangeInduction
      <3> QED
        BY <3>3 DEF S
    <2>5. q[w] \in Nat /\ q[w] # 0
      BY <2>1, <2>4
    <2> QED
      BY <2>1, <2>2, <2>3, <2>5
  <1> QED
    BY <1>1, <1>2

(* The checksums.                                                          *)
Sums == 0..(Pow(ChecksumLen) - 1)

(* A byte takes a checksum to a checksum.                                  *)
LEMMA StepType ==
  ASSUME NEW x \in Nat, NEW b \in Bytes
  PROVE  Crc32cStep(x, b) \in Nat /\ Crc32cStep(x, b) \in Sums
  <1> DEFINE M == Pow(ChecksumLen)
             y == x * (Radix + 1) + b + 1
  <1>1. M \in Nat \ {0}
    BY PowFacts, EnvelopeAssumption
  <1>2. y \in Nat
    BY <1>1, RadixFacts DEF Sums
  <1> HIDE DEF M, y
  <1>3. y % M \in 0..(M - 1)
    BY <1>1, <1>2, Division
  <1> QED
    BY <1>3 DEF M, y, Crc32cStep, Sums

(* The number that a field stands for, digit by digit.                     *)
LEMMA ValueRun ==
  ASSUME NEW s \in Seq(Bytes)
  PROVE  \E c \in [0..Len(s) -> Nat] :
           /\ c[0] = 0
           /\ \A i \in 1..Len(s) : c[i] = c[i - 1] * Radix + s[i]
           /\ FromBigEndian(s) = c[Len(s)]
  <1> DEFINE len == Len(s)
             base == 0
             step == [i \in 1..len |-> [x \in Nat |-> x * Radix + s[i]]]
             Eq(f) == f = [i \in 0..Len(s) |->
                             IF i = 0 THEN 0 ELSE f[i - 1] * Radix + s[i]]
  <1>1. len \in Nat
    BY LenProperties
  <1>2. step \in [1..len -> [Nat -> Nat]] /\ base \in Nat
    BY RadixFacts, ElementOfSeq
  <1>3. PICK f \in [0..len -> Nat] :
          f[0] = base /\ \A i \in 1..len : f[i] = step[i][f[i - 1]]
    <2> HIDE DEF step, base, len
    <2> QED
      BY <1>1, <1>2, RunExists
  <1>4. f[0] = 0 /\ \A i \in 1..len : f[i] = f[i - 1] * Radix + s[i]
    <2>1. ASSUME NEW i \in 1..len PROVE f[i] = f[i - 1] * Radix + s[i]
      <3>1. i - 1 \in 0..len
        BY <1>1
      <3>2. f[i - 1] \in Nat
        BY <3>1
      <3>3. step[i][f[i - 1]] = f[i - 1] * Radix + s[i]
        BY <3>2
      <3> QED
        BY <1>3, <3>3
    <2> QED
      BY <1>3, <2>1
  <1>5. Eq(f)
    <2>1. \A i \in 0..len : f[i] = IF i = 0 THEN 0 ELSE f[i - 1] * Radix + s[i]
      BY <1>1, <1>4
    <2> QED
      BY <2>1
  <1> DEFINE c == CHOOSE g : Eq(g)
  <1>6. Eq(c)
    <2> HIDE DEF Eq
    <2> QED
      BY <1>5
  <1>7. FromBigEndian(s) = c[Len(s)]
    BY DEF FromBigEndian
  <1> HIDE DEF c
  <1>8. c[0] = 0 /\ \A i \in 1..len : c[i] = c[i - 1] * Radix + s[i]
    <2>1. \A i \in 0..len : c[i] = IF i = 0 THEN 0 ELSE c[i - 1] * Radix + s[i]
      BY <1>6
    <2> QED
      BY <1>1, <2>1
  <1>9. \A i \in 0..len : c[i] = f[i]
    <2> DEFINE S == {i \in 0..len : c[i] = f[i]}
    <2>1. 0 \in S /\ \A i \in 1..len : i - 1 \in S => i \in S
      BY <1>1, <1>4, <1>8
    <2> HIDE DEF S
    <2>2. \A i \in 0..len : i \in S
      BY <1>1, <2>1, RangeInduction
    <2> QED
      BY <2>2 DEF S
  <1>10. c \in [0..len -> Nat]
    <2>1. c = [i \in 0..len |-> c[i]]
      BY <1>6
    <2> HIDE DEF Eq, len
    <2> QED
      BY <1>9, <2>1
  <1> QED
    BY <1>7, <1>8, <1>10

(* Whatever is computed like it is it.                                     *)
LEMMA ValueIs ==
  ASSUME NEW s \in Seq(Bytes), NEW g,
         g[0] = 0, \A i \in 1..Len(s) : g[i] = g[i - 1] * Radix + s[i]
  PROVE  FromBigEndian(s) = g[Len(s)]
  <1> DEFINE len == Len(s)
  <1>1. PICK c \in [0..len -> Nat] :
          /\ c[0] = 0
          /\ \A i \in 1..len : c[i] = c[i - 1] * Radix + s[i]
          /\ FromBigEndian(s) = c[len]
    BY ValueRun
  <1> DEFINE S == {i \in 0..len : c[i] = g[i]}
  <1>2. len \in Nat
    BY LenProperties
  <1>3. 0 \in S /\ \A i \in 1..len : i - 1 \in S => i \in S
    BY <1>1, <1>2
  <1> HIDE DEF S
  <1>4. \A i \in 0..len : i \in S
    BY <1>2, <1>3, RangeInduction
  <1> QED
    BY <1>1, <1>2, <1>4 DEF S

(* The running checksum, byte by byte.                                     *)
LEMMA CrcRun ==
  ASSUME NEW sum \in Nat, NEW s \in Seq(Bytes)
  PROVE  \E c \in [0..Len(s) -> Nat] :
           /\ c[0] = sum
           /\ \A i \in 1..Len(s) : c[i] = Crc32cStep(c[i - 1], s[i])
           /\ Crc32cAppend(sum, s) = c[Len(s)]
  <1> DEFINE len == Len(s)
             base == sum
             step == [i \in 1..len |-> [x \in Nat |-> Crc32cStep(x, s[i])]]
             Eq(f) == f = [i \in 0..Len(s) |->
                             IF i = 0 THEN sum ELSE Crc32cStep(f[i - 1], s[i])]
  <1>1. len \in Nat
    BY LenProperties
  <1>2. step \in [1..len -> [Nat -> Nat]] /\ base \in Nat
    BY StepType, ElementOfSeq
  <1>3. PICK f \in [0..len -> Nat] :
          f[0] = base /\ \A i \in 1..len : f[i] = step[i][f[i - 1]]
    <2> HIDE DEF step, base, len
    <2> QED
      BY <1>1, <1>2, RunExists
  <1>4. f[0] = sum /\ \A i \in 1..len : f[i] = Crc32cStep(f[i - 1], s[i])
    <2>1. ASSUME NEW i \in 1..len PROVE f[i] = Crc32cStep(f[i - 1], s[i])
      <3>1. i - 1 \in 0..len
        BY <1>1
      <3>2. f[i - 1] \in Nat
        BY <3>1
      <3>3. step[i][f[i - 1]] = Crc32cStep(f[i - 1], s[i])
        BY <3>2
      <3> QED
        BY <1>3, <3>3
    <2> QED
      BY <1>3, <2>1
  <1>5. Eq(f)
    <2>1. \A i \in 0..len : f[i] = IF i = 0 THEN sum ELSE Crc32cStep(f[i - 1], s[i])
      BY <1>1, <1>4
    <2> QED
      BY <2>1
  <1> DEFINE c == CHOOSE g : Eq(g)
  <1>6. Eq(c)
    <2> HIDE DEF Eq
    <2> QED
      BY <1>5
  <1>7. Crc32cAppend(sum, s) = c[Len(s)]
    BY DEF Crc32cAppend
  <1> HIDE DEF c
  <1>8. c[0] = sum /\ \A i \in 1..len : c[i] = Crc32cStep(c[i - 1], s[i])
    <2>1. \A i \in 0..len : c[i] = IF i = 0 THEN sum ELSE Crc32cStep(c[i - 1], s[i])
      BY <1>6
    <2> QED
      BY <1>1, <2>1
  <1>9. \A i \in 0..len : c[i] = f[i]
    <2> DEFINE S == {i \in 0..len : c[i] = f[i]}
    <2>1. 0 \in S /\ \A i \in 1..len : i - 1 \in S => i \in S
      BY <1>1, <1>4, <1>8
    <2> HIDE DEF S
    <2>2. \A i \in 0..len : i \in S
      BY <1>1, <2>1, RangeInduction
    <2> QED
      BY <2>2 DEF S
  <1>10. c \in [0..len -> Nat]
    <2>1. c = [i \in 0..len |-> c[i]]
      BY <1>6
    <2> HIDE DEF Eq, len
    <2> QED
      BY <1>9, <2>1
  <1> QED
    BY <1>7, <1>8, <1>10

(* Whatever is computed like it is it.                                     *)
LEMMA CrcIs ==
  ASSUME NEW sum \in Nat, NEW s \in Seq(Bytes), NEW g,
         g[0] = sum, \A i \in 1..Len(s) : g[i] = Crc32cStep(g[i - 1], s[i])
  PROVE  Crc32cAppend(sum, s) = g[Len(s)]
  <1> DEFINE len == Len(s)
  <1>1. PICK c \in [0..len -> Nat] :
          /\ c[0] = sum
          /\ \A i \in 1..len : c[i] = Crc32cStep(c[i - 1], s[i])
          /\ Crc32cAppend(sum, s) = c[len]
    BY CrcRun
  <1> DEFINE S == {i \in 0..len : c[i] = g[i]}
  <1>2. len \in Nat
    BY LenProperties
  <1>3. 0 \in S /\ \A i \in 1..len : i - 1 \in S => i \in S
    BY <1>1, <1>2
  <1> HIDE DEF S
  <1>4. \A i \in 0..len : i \in S
    BY <1>2, <1>3, RangeInduction
  <1> QED
    BY <1>1, <1>2, <1>4 DEF S

(* A checksum that is continued is a checksum.                             *)
LEMMA CrcType ==
  ASSUME NEW sum \in Nat, NEW s \in Seq(Bytes)
  PROVE  /\ Crc32cAppend(sum, s) \in Nat
         /\ sum \in Sums => Crc32cAppend(sum, s) \in Sums
  <1> DEFINE len == Len(s)
  <1>1. PICK c \in [0..len -> Nat] :
          /\ c[0] = sum
          /\ \A i \in 1..len : c[i] = Crc32cStep(c[i - 1], s[i])
          /\ Crc32cAppend(sum, s) = c[len]
    BY CrcRun
  <1>2. len \in Nat
    BY LenProperties
  <1>3. Crc32cAppend(sum, s) \in Nat
    BY <1>1, <1>2
  <1>4. ASSUME len # 0 PROVE Crc32cAppend(sum, s) \in Sums
    <2>1. c[len - 1] \in Nat /\ len \in 1..len
      BY <1>2, <1>4
    <2>2. s[len] \in Bytes
      BY <2>1, ElementOfSeq
    <2> QED
      BY <1>1, <2>1, <2>2, StepType
  <1> QED
    BY <1>1, <1>2, <1>3, <1>4

(* The running checksum, buffer by buffer.                                 *)
LEMMA BuffersRun ==
  ASSUME NEW sum \in Nat, NEW bs \in Seq(Seq(Bytes))
  PROVE  \E c \in [0..Len(bs) -> Nat] :
           /\ c[0] = sum
           /\ \A i \in 1..Len(bs) : c[i] = Crc32cAppend(c[i - 1], bs[i])
           /\ Crc32cBuffers(sum, bs) = c[Len(bs)]
  <1> DEFINE len == Len(bs)
             base == sum
             step == [i \in 1..len |-> [x \in Nat |-> Crc32cAppend(x, bs[i])]]
             Eq(f) == f = [i \in 0..Len(bs) |->
                             IF i = 0 THEN sum ELSE Crc32cAppend(f[i - 1], bs[i])]
  <1>1. len \in Nat
    BY LenProperties
  <1>2. step \in [1..len -> [Nat -> Nat]] /\ base \in Nat
    BY CrcType, ElementOfSeq
  <1>3. PICK f \in [0..len -> Nat] :
          f[0] = base /\ \A i \in 1..len : f[i] = step[i][f[i - 1]]
    <2> HIDE DEF step, base, len
    <2> QED
      BY <1>1, <1>2, RunExists
  <1>4. f[0] = sum /\ \A i \in 1..len : f[i] = Crc32cAppend(f[i - 1], bs[i])
    <2>1. ASSUME NEW i \in 1..len PROVE f[i] = Crc32cAppend(f[i - 1], bs[i])
      <3>1. i - 1 \in 0..len
        BY <1>1
      <3>2. f[i - 1] \in Nat
        BY <3>1
      <3>3. step[i][f[i - 1]] = Crc32cAppend(f[i - 1], bs[i])
        BY <3>2
      <3> QED
        BY <1>3, <3>3
    <2> QED
      BY <1>3, <2>1
  <1>5. Eq(f)
    <2>1. \A i \in 0..len : f[i] = IF i = 0 THEN sum ELSE Crc32cAppend(f[i - 1], bs[i])
      BY <1>1, <1>4
    <2> QED
      BY <2>1
  <1> DEFINE c == CHOOSE g : Eq(g)
  <1>6. Eq(c)
    <2> HIDE DEF Eq
    <2> QED
      BY <1>5
  <1>7. Crc32cBuffers(sum, bs) = c[Len(bs)]
    BY DEF Crc32cBuffers
  <1> HIDE DEF c
  <1>8. c[0] = sum /\ \A i \in 1..len : c[i] = Crc32cAppend(c[i - 1], bs[i])
    <2>1. \A i \in 0..len : c[i] = IF i = 0 THEN sum ELSE Crc32cAppend(c[i - 1], bs[i])
      BY <1>6
    <2> QED
      BY <1>1, <2>1
  <1>9. \A i \in 0..len : c[i] = f[i]
    <2> DEFINE S == {i \in 0..len : c[i] = f[i]}
    <2>1. 0 \in S /\ \A i \in 1..len : i - 1 \in S => i \in S
      BY <1>1, <1>4, <1>8
    <2> HIDE DEF S
    <2>2. \A i \in 0..len : i \in S
      BY <1>1, <2>1, RangeInduction
    <2> QED
      BY <2>2 DEF S
  <1>10. c \in [0..len -> Nat]
    <2>1. c = [i \in 0..len |-> c[i]]
      BY <1>6
    <2> HIDE DEF Eq, len
    <2> QED
      BY <1>9, <2>1
  <1> QED
    BY <1>7, <1>8, <1>10

(* Whatever is computed like it is it.                                     *)
LEMMA BuffersIs ==
  ASSUME NEW sum \in Nat, NEW bs \in Seq(Seq(Bytes)), NEW g,
         g[0] = sum, \A i \in 1..Len(bs) : g[i] = Crc32cAppend(g[i - 1], bs[i])
  PROVE  Crc32cBuffers(sum, bs) = g[Len(bs)]
  <1> DEFINE len == Len(bs)
  <1>1. PICK c \in [0..len -> Nat] :
          /\ c[0] = sum
          /\ \A i \in 1..len : c[i] = Crc32cAppend(c[i - 1], bs[i])
          /\ Crc32cBuffers(sum, bs) = c[len]
    BY BuffersRun
  <1> DEFINE S == {i \in 0..len : c[i] = g[i]}
  <1>2. len \in Nat
    BY LenProperties
  <1>3. 0 \in S /\ \A i \in 1..len : i - 1 \in S => i \in S
    BY <1>1, <1>2
  <1> HIDE DEF S
  <1>4. \A i \in 0..len : i \in S
    BY <1>2, <1>3, RangeInduction
  <1> QED
    BY <1>1, <1>2, <1>4 DEF S

-----------------------------------------------------------------------------
(* The fields: to_be_bytes and from_be_bytes are inverse to each other.    *)

(* A smaller power divides off one digit after the other.                  *)
LEMMA DivPow ==
  ASSUME NEW x \in Nat, NEW k \in Nat
  PROVE  /\ x \div Pow(k) \in Nat
         /\ x \div Pow(k + 1) = (x \div Pow(k)) \div Radix
  <1>1. Pow(k) \in Nat \ {0} /\ Pow(k + 1) = Radix * Pow(k) /\ Radix \in Nat \ {0}
    BY PowFacts, RadixFacts
  <1>2. x \div Pow(k) \in Nat
    BY <1>1, Division
  <1>3. x \div (Radix * Pow(k)) = (x \div Pow(k)) \div Radix
    BY <1>1, DivDiv
  <1> QED
    BY <1>1, <1>2, <1>3

(* The bytes of a number.                                                  *)
LEMMA FieldType ==
  ASSUME NEW n \in Nat, NEW w \in Nat
  PROVE  /\ ToBigEndian(n, w) \in Seq(Bytes)
         /\ Len(ToBigEndian(n, w)) = w
         /\ \A i \in 1..w : ToBigEndian(n, w)[i] = (n \div Pow(w - i)) % Radix
  <1>1. \A i \in 1..w : (n \div Pow(w - i)) % Radix \in Bytes
    <2>1. ASSUME NEW i \in 1..w PROVE (n \div Pow(w - i)) % Radix \in Bytes
      <3>1. w - i \in Nat
        OBVIOUS
      <3>2. n \div Pow(w - i) \in Nat
        BY <3>1, DivPow
      <3> QED
        BY <3>2, RadixFacts, Division
    <2> QED
      BY <2>1
  <1>2. ToBigEndian(n, w) \in [1..w -> Bytes]
    BY <1>1 DEF ToBigEndian
  <1>3. ToBigEndian(n, w) \in Seq(Bytes)
    BY <1>2
  <1> QED
    BY <1>2, <1>3 DEF ToBigEndian

(* A number that fits the field is read back.                              *)
LEMMA FromTo ==
  ASSUME NEW w \in Nat, NEW n \in Nat, n < Pow(w)
  PROVE  FromBigEndian(ToBigEndian(n, w)) = n
  <1> DEFINE s == ToBigEndian(n, w)
             g == [i \in 0..w |-> n \div Pow(w - i)]
  <1>1. s \in Seq(Bytes) /\ Len(s) = w /\ \A i \in 1..w : s[i] = (n \div Pow(w - i)) % Radix
    BY FieldType
  <1>2. g[0] = 0
    <2>1. n \div Pow(w) = 0
      BY PowFacts, DivisionUnique
    <2> QED
      BY <2>1
  <1>3. ASSUME NEW i \in 1..w PROVE g[i] = g[i - 1] * Radix + s[i]
    <2> DEFINE x == n \div Pow(w - i)
    <2>1. w - i \in Nat /\ w - (i - 1) = (w - i) + 1 /\ i \in 0..w /\ i - 1 \in 0..w
      OBVIOUS
    <2>2. x \in Nat /\ n \div Pow((w - i) + 1) = x \div Radix
      BY <2>1, DivPow
    <2>3. g[i] = x /\ g[i - 1] = x \div Radix /\ s[i] = x % Radix
      BY <1>1, <2>1, <2>2
    <2> HIDE DEF x, g, s
    <2>4. x = Radix * (x \div Radix) + (x % Radix) /\ x \div Radix \in Nat
      BY <2>2, RadixFacts, Division
    <2> QED
      BY <2>3, <2>4, RadixFacts
  <1>4. g[w] = n
    <2>1. w - w = 0 /\ n \div 1 = n
      OBVIOUS
    <2> QED
      BY <2>1, PowFacts
  <1> HIDE DEF s, g
  <1>5. FromBigEndian(s) = g[w]
    BY <1>1, <1>2, <1>3, ValueIs
  <1> QED
    BY <1>4, <1>5 DEF s

(* The value of a field determines its bytes.                              *)
LEMMA ToFrom ==
  ASSUME NEW s \in Seq(Bytes)
  PROVE  /\ FromBigEndian(s) \in Nat
         /\ FromBigEndian(s) < Pow(Len(s))
         /\ ToBigEndian(FromBigEndian(s), Len(s)) = s
  <1> DEFINE w == Len(s)
             n == FromBigEndian(s)
  <1>1. PICK v \in [0..w -> Nat] :
          /\ v[0] = 0 /\ \A i \in 1..w : v[i] = v[i - 1] * Radix + s[i]
          /\ n = v[w]
    BY ValueRun
  <1>2. w \in Nat /\ n \in Nat
    BY <1>1, LenProperties
  <1>3. ASSUME NEW i \in 1..w
        PROVE  v[i] \in Nat /\ v[i] \div Radix = v[i - 1] /\ v[i] % Radix = s[i]
    <2>1. s[i] \in Bytes /\ v[i - 1] \in Nat /\ v[i] \in Nat
      BY <1>2, ElementOfSeq
    <2>2. v[i] = Radix * v[i - 1] + s[i] /\ s[i] \in Nat /\ s[i] < Radix
      BY <1>1, <2>1, RadixFacts
    <2> QED
      BY <2>1, <2>2, RadixFacts, DivisionUnique
  <1> DEFINE S == {k \in 0..w : n \div Pow(k) = v[w - k]}
  <1>4. 0 \in S
    <2>1. n \div 1 = n /\ w - 0 = w
      BY <1>2
    <2> QED
      BY <1>1, <1>2, <2>1, PowFacts
  <1>5. ASSUME NEW k \in 1..w, k - 1 \in S PROVE k \in S
    <2>1. /\ k - 1 \in Nat /\ (k - 1) + 1 = k /\ w - (k - 1) \in 1..w
          /\ (w - (k - 1)) - 1 = w - k /\ k \in 0..w
      BY <1>2
    <2>2. n \div Pow(k) = (n \div Pow(k - 1)) \div Radix
      BY <1>2, <2>1, DivPow
    <2>3. n \div Pow(k - 1) = v[w - (k - 1)]
      BY <1>5
    <2>4. v[w - (k - 1)] \div Radix = v[w - k]
      BY <1>3, <2>1
    <2> QED
      BY <2>1, <2>2, <2>3, <2>4
  <1> HIDE DEF S
  <1>6. \A k \in 0..w : k \in S
    BY <1>2, <1>4, <1>5, RangeInduction
  <1>7. \A k \in 0..w : n \div Pow(k) = v[w - k]
    BY <1>6 DEF S
  <1>8. n < Pow(w)
    <2>1. n \div Pow(w) = 0
      <3>1. w \in 0..w /\ w - w = 0
        BY <1>2
      <3> QED
        BY <1>1, <1>7, <3>1
    <2>2. Pow(w) \in Nat \ {0}
      BY <1>2, PowFacts
    <2>3. n = Pow(w) * (n \div Pow(w)) + (n % Pow(w)) /\ n % Pow(w) < Pow(w)
      BY <1>2, <2>2, Division
    <2> QED
      BY <1>2, <2>1, <2>2, <2>3
  <1>9. ToBigEndian(n, w) = s
    <2> DEFINE t == ToBigEndian(n, w)
    <2>1. t \in Seq(Bytes) /\ Len(t) = w /\ \A i \in 1..w : t[i] = (n \div Pow(w - i)) % Radix
      BY <1>2, FieldType
    <2> HIDE DEF t, n
    <2>2. ASSUME NEW i \in 1..w PROVE t[i] = s[i]
      <3>1. w - i \in 0..w /\ w - (w - i) = i
        BY <1>2
      <3>2. n \div Pow(w - i) = v[i]
        BY <1>7, <3>1
      <3> QED
        BY <1>3, <2>1, <3>2
    <2> QED
      BY <2>1, <2>2, SeqEqual DEF t
  <1> QED
    BY <1>2, <1>8, <1>9

(* The value of a field that holds a number that fits.                     *)
LEMMA FieldValue ==
  ASSUME NEW s \in Seq(Bytes), NEW n \in Nat, n < Pow(Len(s))
  PROVE  FromBigEndian(s) = n <=> s = ToBigEndian(n, Len(s))
  BY FromTo, ToFrom, LenProperties

-----------------------------------------------------------------------------
(* The checksum: feeding parts one after the other is feeding the whole.   *)

(* Nothing fed leaves the checksum.                                        *)
LEMMA CrcEmpty ==
  ASSUME NEW sum \in Nat
  PROVE  Crc32cAppend(sum, <<>>) = sum
  <1> DEFINE s == <<>>
  <1>1. s \in Seq(Bytes) /\ Len(s) = 0
    BY EmptySeq
  <1> HIDE DEF s
  <1>2. PICK c \in [0..Len(s) -> Nat] : c[0] = sum /\ Crc32cAppend(sum, s) = c[Len(s)]
    BY <1>1, CrcRun
  <1> QED
    BY <1>1, <1>2 DEF s

(* Two parts.                                                              *)
LEMMA CrcConcat ==
  ASSUME NEW sum \in Nat, NEW s \in Seq(Bytes), NEW t \in Seq(Bytes)
  PROVE  Crc32cAppend(Crc32cAppend(sum, s), t) = Crc32cAppend(sum, s \o t)
  <1> DEFINE m == Len(s)
             n == Len(t)
             u == s \o t
             mid == Crc32cAppend(sum, s)
  <1>1. m \in Nat /\ n \in Nat /\ mid \in Nat
    BY LenProperties, CrcType
  <1>2. /\ u \in Seq(Bytes) /\ Len(u) = m + n
        /\ \A i \in 1..(m + n) : u[i] = IF i <= m THEN s[i] ELSE t[i - m]
    BY ConcatProperties
  <1>3. PICK c \in [0..m -> Nat] :
          /\ c[0] = sum /\ \A i \in 1..m : c[i] = Crc32cStep(c[i - 1], s[i])
          /\ mid = c[m]
    BY CrcRun
  <1>4. PICK e \in [0..n -> Nat] :
          /\ e[0] = mid /\ \A i \in 1..n : e[i] = Crc32cStep(e[i - 1], t[i])
          /\ Crc32cAppend(mid, t) = e[n]
    BY <1>1, CrcRun
  <1> DEFINE g == [i \in 0..(m + n) |-> IF i <= m THEN c[i] ELSE e[i - m]]
  <1> HIDE DEF m, n, u, mid
  <1>5. \A i \in 0..m : g[i] = c[i]
    BY <1>1
  <1>6. \A i \in 0..n : g[m + i] = e[i]
    <2>1. g[m + 0] = e[0]
      BY <1>1, <1>3, <1>4
    <2>2. ASSUME NEW i \in 1..n PROVE g[m + i] = e[i]
      <3>1. m + i \in 0..(m + n) /\ ~(m + i <= m) /\ (m + i) - m = i
        BY <1>1
      <3> QED
        BY <3>1
    <2>3. \A i \in 0..n : i = 0 \/ i \in 1..n
      BY <1>1
    <2> HIDE DEF g
    <2> QED
      BY <2>1, <2>2, <2>3
  <1> HIDE DEF g
  <1>7. g[0] = sum
    BY <1>1, <1>3, <1>5
  <1>8. ASSUME NEW i \in 1..(m + n) PROVE g[i] = Crc32cStep(g[i - 1], u[i])
    <2>1. CASE i <= m
      <3>1. i \in 1..m /\ i \in 0..m /\ i - 1 \in 0..m
        BY <1>1, <2>1
      <3>2. u[i] = s[i]
        BY <1>2, <2>1
      <3> QED
        BY <1>3, <1>5, <3>1, <3>2
    <2>2. CASE ~(i <= m)
      <3> DEFINE j == i - m
      <3>1. j \in 1..n /\ j \in 0..n /\ j - 1 \in 0..n /\ i = m + j /\ i - 1 = m + (j - 1)
        BY <1>1, <2>2
      <3>2. u[i] = t[j]
        BY <1>2, <2>2
      <3> HIDE DEF j
      <3>3. g[i] = e[j] /\ g[i - 1] = e[j - 1]
        BY <1>6, <3>1
      <3> QED
        BY <1>4, <3>1, <3>2, <3>3
    <2> QED
      BY <2>1, <2>2
  <1>9. Crc32cAppend(sum, u) = g[m + n]
    <2>1. \A i \in 1..Len(u) : g[i] = Crc32cStep(g[i - 1], u[i])
      BY <1>2, <1>8
    <2>2. Crc32cAppend(sum, u) = g[Len(u)]
      BY <1>2, <1>7, <2>1, CrcIs
    <2> QED
      BY <1>2, <2>2
  <1>10. g[m + n] = e[n]
    BY <1>1, <1>6
  <1> QED
    BY <1>4, <1>9, <1>10 DEF u, mid

(* A field of a file.                                                      *)
LEMMA FieldFacts ==
  ASSUME NEW f \in Seq(Bytes), NEW at \in Nat, NEW n \in Nat, Has(f, at, n)
  PROVE  /\ Field(f, at, n) \in Seq(Bytes) /\ Len(Field(f, at, n)) = n
         /\ \A i \in 1..n : Field(f, at, n)[i] = f[at + i]
  <1>1. at + n <= Len(f) /\ Len(f) \in Nat
    BY LenProperties DEF Has
  <1>2. \A i \in 1..n : at + i \in 1..Len(f)
    BY <1>1
  <1>3. Field(f, at, n) \in Seq(Bytes) /\ Len(Field(f, at, n)) = n
    BY <1>1 DEF Field
  <1>4. ASSUME NEW i \in 1..n PROVE Field(f, at, n)[i] = f[at + i]
    BY <1>1 DEF Field
  <1> QED
    BY <1>3, <1>4

(* Two adjacent fields are one.                                            *)
LEMMA AdjacentFields ==
  ASSUME NEW f \in Seq(Bytes), NEW at \in Nat, NEW m \in Nat, NEW n \in Nat,
         Has(f, at, m + n)
  PROVE  Field(f, at, m) \o Field(f, at + m, n) = Field(f, at, m + n)
  <1> DEFINE a == Field(f, at, m)
             b == Field(f, at + m, n)
             c == Field(f, at, m + n)
  <1>1. Has(f, at, m) /\ Has(f, at + m, n) /\ at + m \in Nat /\ m + n \in Nat
    BY LenProperties DEF Has
  <1>2. /\ a \in Seq(Bytes) /\ Len(a) = m /\ \A i \in 1..m : a[i] = f[at + i]
        /\ b \in Seq(Bytes) /\ Len(b) = n /\ \A i \in 1..n : b[i] = f[(at + m) + i]
        /\ c \in Seq(Bytes) /\ Len(c) = m + n /\ \A i \in 1..(m + n) : c[i] = f[at + i]
    BY <1>1, FieldFacts
  <1> HIDE DEF a, b, c
  <1>3. /\ a \o b \in Seq(Bytes) /\ Len(a \o b) = m + n
        /\ \A i \in 1..(m + n) : (a \o b)[i] = IF i <= m THEN a[i] ELSE b[i - m]
    BY <1>2, ConcatProperties
  <1>4. ASSUME NEW i \in 1..(m + n) PROVE (a \o b)[i] = c[i]
    <2>1. CASE i <= m
      <3>1. i \in 1..m
        BY <2>1
      <3> QED
        BY <1>2, <1>3, <2>1, <3>1
    <2>2. CASE ~(i <= m)
      <3>1. i - m \in 1..n /\ (at + m) + (i - m) = at + i
        BY <2>2
      <3> QED
        BY <1>2, <1>3, <2>2, <3>1
    <2> QED
      BY <2>1, <2>2
  <1>5. a \o b = c
    BY <1>2, <1>3, <1>4, SeqEqual
  <1> QED
    BY <1>5 DEF a, b, c

(* The streaming decoder's buffers follow each other: one that is full, as *)
(* long as there is enough, and a last one with what is left.              *)
LEMMA BufferBounds ==
  ASSUME NEW n \in Nat
  PROVE  LET K == (n + ChunkSize - 1) \div ChunkSize IN
         /\ K \in Nat /\ n <= K * ChunkSize
         /\ \A i \in 1..K : (i - 1) * ChunkSize \in Nat /\ (i - 1) * ChunkSize < n
  <1> DEFINE x == n + ChunkSize - 1
             K == x \div ChunkSize
             r == x % ChunkSize
  <1>1. ChunkSize \in Nat \ {0} /\ x \in Nat
    BY EnvelopeAssumption
  <1>2. K \in Nat /\ r \in Nat /\ x = ChunkSize * K + r /\ r < ChunkSize
    <2> HIDE DEF x
    <2> QED
      BY <1>1, Division
  <1> HIDE DEF K, r
  <1>3. n <= K * ChunkSize /\ (K - 1) * ChunkSize < n
    BY <1>1, <1>2
  <1>4. ASSUME NEW i \in 1..K
        PROVE  (i - 1) * ChunkSize \in Nat /\ (i - 1) * ChunkSize < n
    <2>1. i - 1 \in Nat /\ K - 1 \in Nat /\ i - 1 <= K - 1
      BY <1>2
    <2>2. (i - 1) * ChunkSize \in Nat /\ (i - 1) * ChunkSize <= (K - 1) * ChunkSize
      BY <1>1, <2>1
    <2> QED
      BY <1>1, <1>2, <1>3, <2>1, <2>2
  <1> QED
    BY <1>2, <1>3, <1>4 DEF K, x

(* Fed to the checksum they count as the payload.                          *)
LEMMA BuffersArePayload ==
  ASSUME NEW f \in Seq(Bytes), NEW sum \in Nat, NEW n \in Nat, Has(f, HeaderLen, n)
  PROVE  Crc32cBuffers(sum, Buffers(f, n)) = Crc32cAppend(sum, Field(f, HeaderLen, n))
  <1> DEFINE K == (n + ChunkSize - 1) \div ChunkSize
             H == HeaderLen
             size(i) == IF i * ChunkSize > n THEN n - (i - 1) * ChunkSize ELSE ChunkSize
             reach(i) == IF i * ChunkSize > n THEN n ELSE i * ChunkSize
             bs == Buffers(f, n)
             g == [i \in 0..K |-> Crc32cAppend(sum, Field(f, H, reach(i)))]
  <1>1. /\ ChunkSize \in Nat \ {0} /\ H \in Nat /\ Len(f) \in Nat
    BY EnvelopeAssumption, LenProperties DEF HeaderLen
  <1>2. /\ K \in Nat /\ n <= K * ChunkSize
        /\ \A i \in 1..K : (i - 1) * ChunkSize \in Nat /\ (i - 1) * ChunkSize < n
    BY BufferBounds
  <1>3. bs = [i \in 1..K |-> Field(f, H + (i - 1) * ChunkSize, size(i))]
    BY DEF Buffers
  <1>4. ASSUME NEW i \in 1..K
        PROVE  /\ reach(i - 1) = (i - 1) * ChunkSize
               /\ reach(i - 1) \in Nat /\ size(i) \in Nat
               /\ reach(i) = reach(i - 1) + size(i) /\ reach(i) <= n
    <2> DEFINE a == (i - 1) * ChunkSize
               b == i * ChunkSize
    <2>1. a \in Nat /\ a < n /\ b = a + ChunkSize /\ b \in Nat
      BY <1>1, <1>2
    <2>2. reach(i - 1) = a
      BY <2>1
    <2> QED
      BY <1>1, <2>1, <2>2
  <1>5. \A i \in 0..K : reach(i) \in Nat /\ reach(i) <= n
    BY <1>1, <1>2
  <1>6. reach(0) = 0 /\ reach(K) = n
    BY <1>1, <1>2
  <1> HIDE DEF K, H, size, reach, bs
  <1>7. \A i \in 0..K : Has(f, H, reach(i))
    BY <1>1, <1>5 DEF Has, H
  <1>8. ASSUME NEW i \in 1..K
        PROVE  /\ bs[i] \in Seq(Bytes)
               /\ Field(f, H, reach(i)) = Field(f, H, reach(i - 1)) \o bs[i]
    <2>1. bs[i] = Field(f, H + reach(i - 1), size(i))
      BY <1>3, <1>4
    <2>2. /\ reach(i - 1) \in Nat /\ size(i) \in Nat /\ reach(i) = reach(i - 1) + size(i)
          /\ i \in 0..K
      BY <1>2, <1>4
    <2>3. Has(f, H, reach(i - 1) + size(i))
      BY <1>7, <2>2
    <2>4. Has(f, H + reach(i - 1), size(i)) /\ H + reach(i - 1) \in Nat
      BY <1>1, <2>2, <2>3 DEF Has
    <2>5. bs[i] \in Seq(Bytes)
      BY <2>1, <2>2, <2>4, FieldFacts
    <2>6. Field(f, H, reach(i - 1)) \o Field(f, H + reach(i - 1), size(i)) =
            Field(f, H, reach(i - 1) + size(i))
      <3> DEFINE a == reach(i - 1)
                 b == size(i)
      <3>1. a \in Nat /\ b \in Nat /\ Has(f, H, a + b)
        BY <2>2, <2>3
      <3> HIDE DEF a, b
      <3>2. Field(f, H, a) \o Field(f, H + a, b) = Field(f, H, a + b)
        BY <1>1, <3>1, AdjacentFields
      <3> QED
        BY <3>2 DEF a, b
    <2> QED
      BY <2>1, <2>2, <2>5, <2>6
  <1>9. bs \in Seq(Seq(Bytes)) /\ Len(bs) = K
    <2>1. bs \in [1..K -> Seq(Bytes)]
      BY <1>3, <1>8
    <2> QED
      BY <1>2, <2>1
  <1>10. g[0] = sum
    <2>1. g[0] = Crc32cAppend(sum, Field(f, H, 0))
      BY <1>2, <1>6
    <2>2. Field(f, H, 0) = <<>>
      <3>1. Has(f, H, 0)
        BY <1>1, <1>2, <1>6, <1>7
      <3>2. Field(f, H, 0) \in Seq(Bytes) /\ Len(Field(f, H, 0)) = 0
        BY <1>1, <3>1, FieldFacts
      <3> QED
        BY <3>2, EmptySeq
    <2> QED
      BY <2>1, <2>2, CrcEmpty
  <1>11. ASSUME NEW i \in 1..Len(bs) PROVE g[i] = Crc32cAppend(g[i - 1], bs[i])
    <2>1. i \in 1..K /\ i \in 0..K /\ i - 1 \in 0..K
      BY <1>2, <1>9
    <2> DEFINE a == Field(f, H, reach(i - 1))
    <2>2. a \in Seq(Bytes)
      <3>1. reach(i - 1) \in Nat /\ Has(f, H, reach(i - 1))
        BY <1>5, <1>7, <2>1
      <3> QED
        BY <1>1, <3>1, FieldFacts
    <2>3. bs[i] \in Seq(Bytes) /\ Field(f, H, reach(i)) = a \o bs[i]
      BY <1>8, <2>1
    <2>4. g[i] = Crc32cAppend(sum, Field(f, H, reach(i))) /\ g[i - 1] = Crc32cAppend(sum, a)
      BY <2>1
    <2> HIDE DEF g, a
    <2>5. Crc32cAppend(Crc32cAppend(sum, a), bs[i]) = Crc32cAppend(sum, a \o bs[i])
      BY <2>2, <2>3, CrcConcat
    <2> QED
      BY <2>3, <2>4, <2>5
  <1>12. g[K] = Crc32cAppend(sum, Field(f, H, n))
    BY <1>2, <1>6
  <1> HIDE DEF g
  <1>13. Crc32cBuffers(sum, bs) = g[Len(bs)]
    BY <1>9, <1>10, <1>11, BuffersIs
  <1> QED
    BY <1>9, <1>12, <1>13 DEF bs, H

-----------------------------------------------------------------------------
(* The header.                                                             *)

(* The lengths of the fields.                                              *)
LEMMA Lengths ==
  /\ DomainTagLen \in Nat /\ VersionLen \in Nat /\ LengthLen \in Nat
  /\ ChecksumLen \in Nat /\ HeaderLen \in Nat
  /\ VersionAt = DomainTagLen /\ LengthAt = DomainTagLen + VersionLen
  /\ HeaderLen = LengthAt + LengthLen /\ LengthAt \in Nat /\ VersionAt \in Nat
  /\ Version \in Nat /\ Version < Pow(VersionLen)
  <1>1. /\ DomainTagLen \in Nat /\ VersionLen \in Nat /\ LengthLen \in Nat
        /\ ChecksumLen \in Nat
    BY EnvelopeAssumption
  <1>2. Pow(VersionLen) \in Nat
    BY <1>1, PowFacts
  <1>3. Version \in 0..(Pow(VersionLen) - 1)
    BY EnvelopeAssumption
  <1> QED
    BY <1>1, <1>2, <1>3 DEF VersionAt, LengthAt, HeaderLen

(* A domain tag is a sequence of bytes.                                    *)
LEMMA DomainBytes ==
  ASSUME NEW d \in Domains
  PROVE  d \in Seq(Bytes) /\ Len(d) = DomainTagLen
  <1>1. d \in [1..DomainTagLen -> Bytes] /\ DomainTagLen \in Nat
    BY EnvelopeAssumption DEF Bytes
  <1> QED
    BY <1>1

(* The header of a payload of n bytes.                                     *)
LEMMA HeaderType ==
  ASSUME NEW d \in Domains, NEW n \in Nat
  PROVE  EnvelopeHeader(d, n) \in Seq(Bytes) /\ Len(EnvelopeHeader(d, n)) = HeaderLen
  <1> DEFINE v == ToBigEndian(Version, VersionLen)
             l == ToBigEndian(n, LengthLen)
  <1>1. /\ d \in Seq(Bytes) /\ Len(d) = DomainTagLen
        /\ v \in Seq(Bytes) /\ Len(v) = VersionLen
        /\ l \in Seq(Bytes) /\ Len(l) = LengthLen
    BY Lengths, DomainBytes, FieldType
  <1> HIDE DEF v, l
  <1>2. d \o v \in Seq(Bytes) /\ Len(d \o v) = LengthAt
    BY <1>1, Lengths, ConcatProperties
  <1>3. (d \o v) \o l \in Seq(Bytes) /\ Len((d \o v) \o l) = HeaderLen
    <2> DEFINE u == d \o v
    <2>1. u \in Seq(Bytes) /\ Len(u) = LengthAt
      BY <1>2
    <2> HIDE DEF u
    <2>2. u \o l \in Seq(Bytes) /\ Len(u \o l) = LengthAt + LengthLen
      BY <1>1, <2>1, ConcatProperties
    <2> QED
      BY <2>2, Lengths DEF u
  <1> QED
    BY <1>3 DEF EnvelopeHeader, v, l

(* The checks of the header that both decoders make.                       *)
HeaderOk(f, d) ==
  /\ Has(f, 0, DomainTagLen) /\ Field(f, 0, DomainTagLen) = d
  /\ Has(f, VersionAt, VersionLen)
  /\ FromBigEndian(Field(f, VersionAt, VersionLen)) = Version
  /\ Has(f, LengthAt, LengthLen)

(* What the header says of the length of the payload.                      *)
LEMMA DeclaredType ==
  ASSUME NEW f \in Seq(Bytes), Has(f, LengthAt, LengthLen)
  PROVE  /\ DeclaredIn(f) \in Nat /\ DeclaredIn(f) < Pow(LengthLen)
         /\ Field(f, LengthAt, LengthLen) = ToBigEndian(DeclaredIn(f), LengthLen)
  <1> DEFINE s == Field(f, LengthAt, LengthLen)
  <1>1. s \in Seq(Bytes) /\ Len(s) = LengthLen
    BY Lengths, FieldFacts
  <1> HIDE DEF s
  <1>2. FromBigEndian(s) \in Nat /\ FromBigEndian(s) < Pow(Len(s))
        /\ ToBigEndian(FromBigEndian(s), Len(s)) = s
    BY <1>1, ToFrom
  <1> QED
    BY <1>1, <1>2 DEF s, DeclaredIn

(* A header that passes the checks is the one that save would write.       *)
LEMMA HeaderIs ==
  ASSUME NEW f \in Seq(Bytes), NEW d \in Domains, HeaderOk(f, d)
  PROVE  /\ Has(f, 0, HeaderLen)
         /\ Field(f, 0, HeaderLen) = EnvelopeHeader(d, DeclaredIn(f))
  <1> DEFINE v == Field(f, VersionAt, VersionLen)
             l == Field(f, LengthAt, LengthLen)
  <1>1. Has(f, 0, LengthAt) /\ Has(f, 0, HeaderLen)
    BY Lengths, LenProperties DEF HeaderOk, Has
  <1>2. v = ToBigEndian(Version, VersionLen)
    <2>1. v \in Seq(Bytes) /\ Len(v) = VersionLen
      BY Lengths, FieldFacts DEF HeaderOk
    <2>2. FromBigEndian(v) = Version
      BY DEF HeaderOk
    <2> HIDE DEF v
    <2> QED
      BY <2>1, <2>2, Lengths, FieldValue
  <1>3. l = ToBigEndian(DeclaredIn(f), LengthLen)
    BY DeclaredType DEF HeaderOk
  <1>4. Field(f, 0, DomainTagLen) \o Field(f, 0 + DomainTagLen, VersionLen) =
          Field(f, 0, DomainTagLen + VersionLen)
    BY <1>1, Lengths, AdjacentFields
  <1>5. Field(f, 0, LengthAt) \o Field(f, 0 + LengthAt, LengthLen) =
          Field(f, 0, LengthAt + LengthLen)
    <2>1. LengthAt \in Nat /\ LengthLen \in Nat /\ Has(f, 0, LengthAt + LengthLen)
      BY <1>1, Lengths
    <2> QED
      BY <2>1, AdjacentFields
  <1>6. d \o v = Field(f, 0, LengthAt)
    BY <1>4, Lengths DEF HeaderOk
  <1>7. (d \o v) \o l = Field(f, 0, HeaderLen)
    BY <1>5, <1>6, Lengths
  <1> QED
    BY <1>1, <1>2, <1>3, <1>7 DEF EnvelopeHeader

(* The checksum of an envelope.                                            *)
ChecksumOf(d, p) == Crc32cAppend(Crc32c(EnvelopeHeader(d, Len(p))), p)

(* Zero is a checksum.                                                     *)
LEMMA ZeroSum == 0 \in Nat /\ 0 \in Sums
  BY Lengths, PowFacts DEF Sums

(* The checksum of an envelope fits its field.                             *)
LEMMA ChecksumType ==
  ASSUME NEW d \in Domains, NEW p \in Seq(Bytes)
  PROVE  ChecksumOf(d, p) \in Nat /\ ChecksumOf(d, p) < Pow(ChecksumLen)
  <1> DEFINE h == EnvelopeHeader(d, Len(p))
  <1>1. h \in Seq(Bytes)
    BY HeaderType, LenProperties
  <1> HIDE DEF h
  <1>2. Crc32c(h) \in Nat /\ Crc32c(h) \in Sums
    BY <1>1, ZeroSum, CrcType DEF Crc32c
  <1>3. Crc32cAppend(Crc32c(h), p) \in Sums
    BY <1>2, CrcType
  <1>4. Pow(ChecksumLen) \in Nat
    BY Lengths, PowFacts
  <1> QED
    BY <1>3, <1>4 DEF h, ChecksumOf, Sums

(* load takes the checksum over the parts of the header that it expects.   *)
LEMMA LoadSum ==
  ASSUME NEW d \in Domains, NEW n \in Nat, NEW p \in Seq(Bytes)
  PROVE  Crc32cAppend(Crc32cAppend(Crc32cAppend(Crc32c(d),
           ToBigEndian(Version, VersionLen)), ToBigEndian(n, LengthLen)), p) =
         Crc32cAppend(Crc32c(EnvelopeHeader(d, n)), p)
  <1> DEFINE v == ToBigEndian(Version, VersionLen)
             l == ToBigEndian(n, LengthLen)
  <1>1. d \in Seq(Bytes) /\ v \in Seq(Bytes) /\ l \in Seq(Bytes)
    BY Lengths, DomainBytes, FieldType
  <1> HIDE DEF v, l
  <1>2. d \o v \in Seq(Bytes)
    BY <1>1, ConcatProperties
  <1>3. Crc32cAppend(Crc32cAppend(0, d), v) = Crc32cAppend(0, d \o v)
    BY <1>1, ZeroSum, CrcConcat
  <1>4. Crc32cAppend(Crc32cAppend(0, d \o v), l) = Crc32cAppend(0, (d \o v) \o l)
    BY <1>1, <1>2, ZeroSum, CrcConcat
  <1> QED
    BY <1>3, <1>4 DEF EnvelopeHeader, Crc32c, v, l

(* The two decoders compute the same checksum.                             *)
LEMMA SameSums ==
  ASSUME NEW f \in Seq(Bytes), NEW d \in Domains, HeaderOk(f, d),
         Has(f, HeaderLen, DeclaredIn(f))
  PROVE  LET n == DeclaredIn(f)
             p == Field(f, HeaderLen, n)
         IN /\ p \in Seq(Bytes) /\ Len(p) = n
            /\ Crc32cAppend(Crc32cAppend(Crc32cAppend(Crc32c(d),
                 ToBigEndian(Version, VersionLen)), ToBigEndian(n, LengthLen)), p) =
                 ChecksumOf(d, p)
            /\ Crc32cBuffers(Crc32c(Field(f, 0, HeaderLen)), Buffers(f, n)) =
                 ChecksumOf(d, p)
  <1> DEFINE n == DeclaredIn(f)
             p == Field(f, HeaderLen, n)
             h == EnvelopeHeader(d, n)
  <1>1. n \in Nat
    BY DeclaredType DEF HeaderOk
  <1>2. p \in Seq(Bytes) /\ Len(p) = n
    BY <1>1, Lengths, FieldFacts
  <1>3. Field(f, 0, HeaderLen) = h /\ h \in Seq(Bytes)
    BY <1>1, HeaderIs, HeaderType
  <1>4. Crc32c(h) \in Nat
    BY <1>3, ZeroSum, CrcType DEF Crc32c
  <1>5. Crc32cBuffers(Crc32c(h), Buffers(f, n)) = Crc32cAppend(Crc32c(h), p)
    BY <1>1, <1>4, BuffersArePayload
  <1>6. Crc32cAppend(Crc32cAppend(Crc32cAppend(Crc32c(d),
          ToBigEndian(Version, VersionLen)), ToBigEndian(n, LengthLen)), p) =
        Crc32cAppend(Crc32c(h), p)
    BY <1>1, <1>2, LoadSum
  <1> QED
    BY <1>2, <1>3, <1>5, <1>6 DEF ChecksumOf

-----------------------------------------------------------------------------
(* The decoders.                                                           *)

(* Every error has its kind, and none is "Ok".                             *)
LEMMA ErrorKinds ==
  /\ \A x : Truncated(x).kind = "TruncatedEnvelope"
  /\ \A x : Failed(x).kind = x
  BY DEF Truncated, Failed

(* What load has checked when it accepts a file.                           *)
LEMMA LoadAccepts ==
  ASSUME NEW f \in Seq(Bytes), NEW d \in Domains, NEW m,
         DecodeReader(f, d, m).kind = "Ok"
  PROVE  LET n == DeclaredIn(f)
             p == Field(f, HeaderLen, n)
         IN /\ HeaderOk(f, d) /\ Has(f, HeaderLen, n)
            /\ Has(f, HeaderLen + n, ChecksumLen)
            /\ ~HasTrailing(f, HeaderLen + n + ChecksumLen)
            /\ FromBigEndian(Field(f, HeaderLen + n, ChecksumLen)) = ChecksumOf(d, p)
            /\ DecodeReader(f, d, m).payload = p
  <1> DEFINE n == DeclaredIn(f)
             p == Field(f, HeaderLen, n)
             actual == Crc32cAppend(Crc32cAppend(Crc32cAppend(Crc32c(d),
                         ToBigEndian(Version, VersionLen)), ToBigEndian(n, LengthLen)), p)
  <1>1. /\ HeaderOk(f, d) /\ Has(f, HeaderLen, n)
        /\ Has(f, HeaderLen + n, ChecksumLen)
        /\ ~HasTrailing(f, HeaderLen + n + ChecksumLen)
        /\ FromBigEndian(Field(f, HeaderLen + n, ChecksumLen)) = actual
        /\ DecodeReader(f, d, m) = [kind |-> "Ok", payload |-> p]
    BY ErrorKinds DEF DecodeReader, HeaderOk, Mismatch
  <1>2. actual = ChecksumOf(d, p)
    BY <1>1, SameSums
  <1> QED
    BY <1>1, <1>2

(* The two decoders of one file.                                           *)
LEMMA Agreement ==
  ASSUME NEW f \in Seq(Bytes), NEW d \in Domains, NEW m
  PROVE  LET a == DecodeReader(f, d, m)
             b == ValidateEnvelopeReader(f, d, m)
         IN \/ a.kind = "Ok" /\ b = [kind |-> "Ok", payloadLen |-> Len(a.payload)]
            \/ a.kind # "Ok" /\ a = b
            \/ a.kind = "InvalidPayloadLength" /\ ~FitsUsize(DeclaredIn(f))
  <1> DEFINE n == DeclaredIn(f)
             p == Field(f, HeaderLen, n)
             actual == Crc32cAppend(Crc32cAppend(Crc32cAppend(Crc32c(d),
                         ToBigEndian(Version, VersionLen)), ToBigEndian(n, LengthLen)), p)
             streamed == Crc32cBuffers(Crc32c(Field(f, 0, HeaderLen)), Buffers(f, n))
             a == DecodeReader(f, d, m)
             b == ValidateEnvelopeReader(f, d, m)
  <1>1. CASE ~HeaderOk(f, d)
    BY <1>1, ErrorKinds DEF DecodeReader, ValidateEnvelopeReader, HeaderOk
  <1>2. CASE HeaderOk(f, d) /\ ~Has(f, HeaderLen, n)
    <2>1. n > UsizeMax \/ n + Overhead > UsizeMax => ~FitsUsize(n)
      <3>1. n \in Nat /\ UsizeMax \in Nat /\ Overhead \in Nat
        BY <1>2, DeclaredType, EnvelopeAssumption, Lengths DEF Overhead, HeaderOk
      <3> QED
        BY <3>1 DEF FitsUsize
    <2> QED
      BY <1>2, <2>1, ErrorKinds DEF DecodeReader, ValidateEnvelopeReader, HeaderOk
  <1>3. CASE HeaderOk(f, d) /\ Has(f, HeaderLen, n)
    <2>1. n > UsizeMax \/ n + Overhead > UsizeMax => ~FitsUsize(n)
      <3>1. n \in Nat /\ UsizeMax \in Nat /\ Overhead \in Nat
        BY <1>3, DeclaredType, EnvelopeAssumption, Lengths DEF Overhead, HeaderOk
      <3> QED
        BY <3>1 DEF FitsUsize
    <2>2. actual = streamed /\ Len(p) = n
      BY <1>3, SameSums
    <2> QED
      BY <1>3, <2>1, <2>2, ErrorKinds DEF DecodeReader, ValidateEnvelopeReader, HeaderOk
  <1> QED
    BY <1>1, <1>2, <1>3

(* An accepted file is the envelope of the payload that is returned.       *)
LEMMA AcceptedIsEnvelope ==
  ASSUME NEW f \in Seq(Bytes), NEW d \in Domains, NEW m,
         DecodeReader(f, d, m).kind = "Ok"
  PROVE  f = EncodeEnvelope(d, DecodeReader(f, d, m).payload)
  <1> DEFINE n == DeclaredIn(f)
             p == Field(f, HeaderLen, n)
             c == Field(f, HeaderLen + n, ChecksumLen)
             h == EnvelopeHeader(d, n)
  <1>1. /\ HeaderOk(f, d) /\ Has(f, HeaderLen, n)
        /\ Has(f, HeaderLen + n, ChecksumLen)
        /\ ~HasTrailing(f, HeaderLen + n + ChecksumLen)
        /\ FromBigEndian(c) = ChecksumOf(d, p)
        /\ DecodeReader(f, d, m).payload = p
    BY LoadAccepts
  <1>2. n \in Nat /\ Len(f) \in Nat
    BY <1>1, DeclaredType, LenProperties DEF HeaderOk
  <1>3. p \in Seq(Bytes) /\ Len(p) = n
    BY <1>1, <1>2, Lengths, FieldFacts
  <1>4. c \in Seq(Bytes) /\ Len(c) = ChecksumLen
    <2>1. HeaderLen + n \in Nat
      BY <1>2, Lengths
    <2> QED
      BY <1>1, <2>1, Lengths, FieldFacts
  <1>5. c = ToBigEndian(ChecksumOf(d, p), ChecksumLen)
    <2>1. ChecksumOf(d, p) \in Nat /\ ChecksumOf(d, p) < Pow(ChecksumLen)
      BY <1>3, ChecksumType
    <2> HIDE DEF c
    <2> QED
      BY <1>1, <1>4, <2>1, FieldValue
  <1>6. h = Field(f, 0, HeaderLen)
    BY <1>1, HeaderIs
  <1>7. Len(f) = HeaderLen + n + ChecksumLen
    BY <1>1, <1>2, Lengths DEF Has, HasTrailing
  <1>8. h \o p = Field(f, 0, HeaderLen + n)
    <2>1. Has(f, 0, HeaderLen + n)
      BY <1>2, <1>7, Lengths DEF Has
    <2>2. \A k, j \in Nat : Has(f, 0, k + j) =>
             Field(f, 0, k) \o Field(f, 0 + k, j) = Field(f, 0, k + j)
      BY AdjacentFields
    <2>3. HeaderLen \in Nat /\ 0 + HeaderLen = HeaderLen
      BY Lengths
    <2>4. Field(f, 0, HeaderLen) \o Field(f, 0 + HeaderLen, n) = Field(f, 0, HeaderLen + n)
      <3> HIDE DEF n
      <3> QED
        BY <1>2, <2>1, <2>2, <2>3
    <2> QED
      BY <1>6, <2>3, <2>4
  <1>9. (h \o p) \o c = Field(f, 0, Len(f))
    <2> DEFINE k == HeaderLen + n
    <2>1. k \in Nat /\ k + ChecksumLen = Len(f) /\ Has(f, 0, k + ChecksumLen) /\ 0 + k = k
      BY <1>2, <1>7, Lengths DEF Has
    <2> HIDE DEF k
    <2>2. Field(f, 0, k) \o Field(f, 0 + k, ChecksumLen) = Field(f, 0, k + ChecksumLen)
      BY <2>1, Lengths, AdjacentFields
    <2> QED
      BY <1>8, <2>1, <2>2 DEF k
  <1>10. Field(f, 0, Len(f)) = f
    <2> DEFINE g == Field(f, 0, Len(f))
    <2>1. Has(f, 0, Len(f))
      BY <1>2 DEF Has
    <2>2. g \in Seq(Bytes) /\ Len(g) = Len(f) /\ \A i \in 1..Len(f) : g[i] = f[0 + i]
      BY <1>2, <2>1, FieldFacts
    <2> HIDE DEF g
    <2>3. \A i \in 1..Len(g) : g[i] = f[i]
      BY <1>2, <2>2
    <2>4. g = f
      BY <2>2, <2>3, SeqEqual
    <2> QED
      BY <2>4 DEF g
  <1>11. EncodeEnvelope(d, p) = (h \o p) \o c
    BY <1>3, <1>5 DEF EncodeEnvelope, ChecksumOf
  <1> QED
    BY <1>1, <1>9, <1>10, <1>11

-----------------------------------------------------------------------------
(* The state machine.                                                      *)

(* What a save has written so far, and what one damage makes of a file.    *)
HeaderOfSave == EnvelopeHeader(domain, Len(payload))
Original == EncodeEnvelope(savedFor, payload)

ChangedAt(f, e, i) ==
  /\ i \in 1..Len(e) /\ Len(f) = Len(e) /\ f[i] # e[i]
  /\ \A j \in 1..Len(e) : j # i => f[j] = e[j]
CutAt(f, e, n) == n \in 0..(Len(e) - 1) /\ f = SubSeq(e, 1, n)
Extended(f, e) == \E b \in Bytes : f = Append(e, b)

Damaged(f, e, h) ==
  \/ h.kind = "changed" /\ ChangedAt(f, e, h.at)
  \/ h.kind = "cut" /\ CutAt(f, e, h.at)
  \/ h.kind = "extended" /\ Extended(f, e)

(* The inductive invariant: while a save streams, the file is the header   *)
(* and the chunks so far and the running checksum is theirs; a saved file  *)
(* is the envelope of the payload until it is damaged, and then that       *)
(* envelope with the damage.                                               *)
IdleInv == saver = "idle" => written = 0 /\ checksum = 0 /\ savedFor = domain /\ harm = <<>>
ChunksInv ==
  saver = "chunks" =>
    /\ savedFor = domain /\ harm = <<>>
    /\ Len(payload) < Pow(LengthLen)
    /\ file = HeaderOfSave \o SubSeq(payload, 1, written)
    /\ checksum = Crc32cAppend(Crc32c(HeaderOfSave), SubSeq(payload, 1, written))
SavedInv ==
  saver = "saved" =>
    /\ Len(payload) < Pow(LengthLen)
    /\ harm = <<>> => file = Original
    /\ Len(harm) = 1 => Damaged(file, Original, harm[1])

EnvInv == TypeOK /\ IdleInv /\ ChunksInv /\ SavedInv

(* Concatenation associates.                                               *)
LEMMA ConcatBytes ==
  ASSUME NEW a \in Seq(Bytes), NEW b \in Seq(Bytes), NEW c \in Seq(Bytes)
  PROVE  (a \o b) \o c = a \o (b \o c)
  BY ConcatAssociative

(* An envelope is a sequence of bytes, of the length of its parts.         *)
LEMMA EncodedType ==
  ASSUME NEW d \in Domains, NEW p \in Seq(Bytes)
  PROVE  LET h == EnvelopeHeader(d, Len(p))
             c == ToBigEndian(ChecksumOf(d, p), ChecksumLen)
         IN /\ h \in Seq(Bytes) /\ Len(h) = HeaderLen
            /\ c \in Seq(Bytes) /\ Len(c) = ChecksumLen
            /\ EncodeEnvelope(d, p) = (h \o p) \o c
            /\ EncodeEnvelope(d, p) \in Seq(Bytes)
            /\ Len(EncodeEnvelope(d, p)) = HeaderLen + Len(p) + ChecksumLen
  <1> DEFINE h == EnvelopeHeader(d, Len(p))
             c == ToBigEndian(ChecksumOf(d, p), ChecksumLen)
  <1>1. h \in Seq(Bytes) /\ Len(h) = HeaderLen
    BY HeaderType, LenProperties
  <1>2. c \in Seq(Bytes) /\ Len(c) = ChecksumLen
    BY ChecksumType, FieldType, Lengths
  <1>3. EncodeEnvelope(d, p) = (h \o p) \o c
    BY DEF EncodeEnvelope, ChecksumOf
  <1> HIDE DEF h, c
  <1>4. h \o p \in Seq(Bytes) /\ Len(h \o p) = HeaderLen + Len(p)
    BY <1>1, ConcatProperties
  <1>5. (h \o p) \o c \in Seq(Bytes) /\ Len((h \o p) \o c) = Len(h \o p) + ChecksumLen
    <2> DEFINE u == h \o p
    <2>1. u \in Seq(Bytes)
      BY <1>4
    <2> HIDE DEF u
    <2>2. u \o c \in Seq(Bytes) /\ Len(u \o c) = Len(u) + Len(c)
      BY <1>2, <2>1, ConcatProperties
    <2> QED
      BY <1>2, <2>2 DEF u
  <1>6. Len((h \o p) \o c) = HeaderLen + Len(p) + ChecksumLen
    BY <1>4, <1>5, Lengths
  <1> QED
    BY <1>1, <1>2, <1>3, <1>5, <1>6 DEF h, c

(* A payload that is not too large has a length that fits its field.       *)
LEMMA FitsField ==
  ASSUME TypeOK, ~TooLarge(Len(payload), maximum)
  PROVE  Len(payload) < Pow(LengthLen)
  <1>1. Pow(LengthLen) \in Nat /\ payload \in Seq(Bytes)
    BY Lengths, PowFacts, EnvelopeAssumption DEF TypeOK, Bytes
  <1>2. Len(payload) \in Nat /\ maximum \in 0..(Pow(LengthLen) - 1)
    BY <1>1, LenProperties, EnvelopeAssumption DEF TypeOK
  <1> QED
    BY <1>1, <1>2 DEF TooLarge

(* The first chunks and the next one.                                      *)
LEMMA Chunks ==
  ASSUME NEW p \in Seq(Bytes), NEW w \in Nat, NEW n \in Nat, w + n <= Len(p)
  PROVE  /\ SubSeq(p, 1, w) \in Seq(Bytes) /\ SubSeq(p, w + 1, w + n) \in Seq(Bytes)
         /\ SubSeq(p, 1, w + n) \in Seq(Bytes)
         /\ SubSeq(p, 1, w) \o SubSeq(p, w + 1, w + n) = SubSeq(p, 1, w + n)
  <1>1. Len(p) \in Nat
    BY LenProperties
  <1>2. Has(p, 0, w + n) /\ Has(p, 0, w) /\ Has(p, w, n) /\ w + n \in Nat
    BY <1>1 DEF Has
  <1>3. Field(p, 0, w) \o Field(p, 0 + w, n) = Field(p, 0, w + n)
    BY <1>2, AdjacentFields
  <1>4. /\ Field(p, 0, w) = SubSeq(p, 1, w) /\ Field(p, 0 + w, n) = SubSeq(p, w + 1, w + n)
        /\ Field(p, 0, w + n) = SubSeq(p, 1, w + n) /\ 0 + w = w
    BY DEF Field
  <1>5. Field(p, 0, w) \in Seq(Bytes) /\ Field(p, w, n) \in Seq(Bytes)
    BY <1>2, FieldFacts
  <1>6. Field(p, 0, w + n) \in Seq(Bytes)
    <2> DEFINE k == w + n
    <2>1. k \in Nat /\ Has(p, 0, k)
      BY <1>2
    <2> HIDE DEF k
    <2>2. Field(p, 0, k) \in Seq(Bytes)
      BY <2>1, FieldFacts
    <2> QED
      BY <2>2 DEF k
  <1> QED
    BY <1>3, <1>4, <1>5, <1>6

(* The beginning: nothing is written.                                      *)
LEMMA EnvInit == Init => EnvInv
  <1> SUFFICES ASSUME Init PROVE EnvInv
    OBVIOUS
  <1>1. payload \in Seq(Bytes) /\ Len(payload) \in Nat
    BY EnvelopeAssumption, LenProperties DEF Init, Bytes
  <1>2. 0 \in 0..(Pow(ChecksumLen) - 1)
    BY ZeroSum DEF Sums
  <1>3. MaxHarm \in Nat /\ <<>> \in Seq(Harms) /\ Len(<<>>) = 0 /\ <<>> \in Seq(Bytes)
    BY EnvelopeAssumption, EmptySeq
  <1>4. TypeOK
    BY <1>1, <1>2, <1>3 DEF Init, TypeOK
  <1> QED
    BY <1>4 DEF Init, EnvInv, IdleInv, ChunksInv, SavedInv

(* One step of one damage: the new file has it, the harm records it.       *)
LEMMA DamageStep ==
  ASSUME EnvInv, NEW h \in Harms, NEW f \in Seq(Bytes), Damage(h, f),
         Damaged(f, file, h)
  PROVE  EnvInv'
  <1>1. Append(harm, h) \in Seq(Harms) /\ Len(Append(harm, h)) = Len(harm) + 1
        /\ Len(harm) \in Nat /\ MaxHarm \in Nat
    BY AppendProperties, LenProperties, EnvelopeAssumption DEF EnvInv, TypeOK
  <1>2. Len(Append(harm, h)) <= MaxHarm
    BY <1>1 DEF Damage
  <1>3. TypeOK'
    BY <1>1, <1>2 DEF EnvInv, TypeOK, Damage
  <1>4. harm' # <<>> /\ saver' = "saved" /\ Original' = Original
    BY <1>1, EmptySeq DEF Damage, Original
  <1>5. ASSUME Len(harm') = 1 PROVE Damaged(file', Original', harm'[1])
    <2>1. Len(harm) = 0
      BY <1>1, <1>5 DEF Damage
    <2>2. harm = <<>>
      BY <2>1, EmptySeq DEF EnvInv, TypeOK
    <2>3. harm'[1] = h
      BY <2>1, AppendProperties DEF Damage, EnvInv, TypeOK
    <2>4. file = Original
      BY <2>2 DEF EnvInv, SavedInv, Damage
    <2> QED
      BY <1>4, <2>3, <2>4 DEF Damage
  <1>6. (Len(payload) < Pow(LengthLen))'
    BY DEF Damage, EnvInv, SavedInv
  <1> QED
    BY <1>3, <1>4, <1>5, <1>6 DEF EnvInv, IdleInv, ChunksInv, SavedInv

(* Every step keeps the invariant.                                         *)
LEMMA EnvStep == EnvInv /\ [Next]_vars => EnvInv'
  <1> SUFFICES ASSUME EnvInv, [Next]_vars PROVE EnvInv'
    OBVIOUS
  <1>1. TypeOK /\ IdleInv /\ ChunksInv /\ SavedInv
    BY DEF EnvInv
  <1>2. /\ domain \in Domains /\ payload \in Seq(Bytes) /\ Len(payload) \in Nat
        /\ written \in Nat /\ written <= Len(payload) /\ file \in Seq(Bytes)
        /\ Len(file) \in Nat
    BY <1>1, EnvelopeAssumption, LenProperties DEF TypeOK, Bytes
  <1>3. HeaderOfSave \in Seq(Bytes)
    BY <1>2, HeaderType DEF HeaderOfSave
  <1>4. Crc32c(HeaderOfSave) \in Nat /\ Crc32c(HeaderOfSave) \in Sums
    BY <1>3, ZeroSum, CrcType DEF Crc32c
  <1>5. Pow(ChecksumLen) \in Nat /\ checksum \in Nat /\ checksum \in Sums
    BY <1>1, Lengths, PowFacts DEF TypeOK, Sums
  <1>6. CASE Refuse
    BY <1>1, <1>6 DEF Refuse, EnvInv, TypeOK, IdleInv, ChunksInv, SavedInv
  <1>7. CASE Save
    <2>1. EncodeEnvelope(domain, payload) \in Seq(Bytes)
      BY <1>2, EncodedType
    <2>2. Len(payload) < Pow(LengthLen)
      BY <1>1, <1>7, FitsField DEF Save
    <2>3. TypeOK'
      BY <1>1, <1>7, <2>1 DEF Save, TypeOK
    <2>4. harm' = <<>> /\ savedFor' = domain /\ Len(harm') = 0
      BY <1>1, <1>7, EmptySeq DEF Save, IdleInv
    <2>5. SavedInv'
      BY <1>7, <2>2, <2>4 DEF Save, SavedInv, Original
    <2> QED
      BY <1>7, <2>3, <2>5 DEF Save, EnvInv, IdleInv, ChunksInv
  <1>8. CASE StreamHeader
    <2>1. Len(payload) < Pow(LengthLen)
      BY <1>1, <1>8, FitsField DEF StreamHeader
    <2>2. TypeOK'
      BY <1>1, <1>3, <1>4, <1>8 DEF StreamHeader, TypeOK, HeaderChecksum, HeaderOfSave, Sums
    <2>3. SubSeq(payload, 1, 0) = <<>>
      BY <1>2, SubSeqProperties, EmptySeq
    <2>4. HeaderOfSave \o <<>> = HeaderOfSave
      BY <1>3, ConcatEmptySeq
    <2>5. Crc32cAppend(Crc32c(HeaderOfSave), <<>>) = Crc32c(HeaderOfSave)
      BY <1>4, CrcEmpty
    <2>6. written' = 0 /\ HeaderOfSave' = HeaderOfSave /\ payload' = payload
      BY <1>1, <1>8 DEF StreamHeader, IdleInv, HeaderOfSave
    <2>7. file' = HeaderOfSave /\ checksum' = Crc32c(HeaderOfSave)
      BY <1>8 DEF StreamHeader, HeaderChecksum, HeaderOfSave
    <2>8. ChunksInv'
      BY <1>1, <1>8, <2>1, <2>3, <2>4, <2>5, <2>6, <2>7 DEF StreamHeader, ChunksInv, IdleInv
    <2> QED
      BY <1>8, <2>2, <2>8 DEF StreamHeader, EnvInv, IdleInv, SavedInv
  <1>9. ASSUME NEW n \in 1..ChunkSize, StreamChunk(n) PROVE EnvInv'
    <2> DEFINE s == SubSeq(payload, 1, written)
               t == SubSeq(payload, written + 1, written + n)
               u == SubSeq(payload, 1, written + n)
    <2>1. n \in Nat /\ written + n <= Len(payload)
      BY <1>9, EnvelopeAssumption DEF StreamChunk
    <2>2. s \in Seq(Bytes) /\ t \in Seq(Bytes) /\ u \in Seq(Bytes) /\ s \o t = u
      BY <1>2, <2>1, Chunks
    <2>3. /\ file' = file \o t /\ checksum' = Crc32cAppend(checksum, t)
          /\ written' = written + n /\ saver' = "chunks"
          /\ HeaderOfSave' = HeaderOfSave /\ payload' = payload
          /\ domain' = domain /\ savedFor' = savedFor /\ harm' = harm
          /\ maximum' = maximum
      BY <1>9 DEF StreamChunk, HeaderOfSave
    <2>4. /\ file = HeaderOfSave \o s
          /\ checksum = Crc32cAppend(Crc32c(HeaderOfSave), s)
          /\ savedFor = domain /\ harm = <<>> /\ Len(payload) < Pow(LengthLen)
      BY <1>1, <1>9 DEF StreamChunk, ChunksInv
    <2> HIDE DEF s, t, u
    <2>5. (HeaderOfSave \o s) \o t = HeaderOfSave \o u
      BY <1>3, <2>2, ConcatBytes
    <2>6. Crc32cAppend(checksum, t) = Crc32cAppend(Crc32c(HeaderOfSave), u)
      BY <1>4, <2>2, <2>4, CrcConcat
    <2>7. file \o t \in Seq(Bytes) /\ Crc32cAppend(checksum, t) \in Sums
      BY <1>2, <1>5, <2>2, CrcType, ConcatProperties
    <2>8. TypeOK'
      <3>1. written' \in 0..Len(payload')
        BY <1>2, <2>1, <2>3
      <3> QED
        BY <1>1, <2>3, <2>7, <3>1 DEF TypeOK, Sums
    <2>9. ChunksInv'
      BY <2>3, <2>4, <2>5, <2>6 DEF ChunksInv, u
    <2> QED
      BY <2>3, <2>8, <2>9 DEF EnvInv, IdleInv, SavedInv
  <1>10. CASE StreamComplete
    <2> DEFINE c == ToBigEndian(checksum, ChecksumLen)
    <2>1. SubSeq(payload, 1, written) = payload
      BY <1>2, <1>10, SubSeqFull DEF StreamComplete
    <2>2. /\ file = HeaderOfSave \o payload
          /\ checksum = Crc32cAppend(Crc32c(HeaderOfSave), payload)
          /\ savedFor = domain /\ harm = <<>> /\ Len(payload) < Pow(LengthLen)
      BY <1>1, <1>10, <2>1 DEF StreamComplete, ChunksInv
    <2>3. checksum = ChecksumOf(domain, payload)
      BY <2>2 DEF ChecksumOf, HeaderOfSave
    <2>4. /\ EncodeEnvelope(domain, payload) = (HeaderOfSave \o payload) \o c
          /\ EncodeEnvelope(domain, payload) \in Seq(Bytes)
      BY <1>2, <2>3, EncodedType DEF HeaderOfSave
    <2>5. file' = EncodeEnvelope(domain, payload)
      BY <1>10, <2>2, <2>4 DEF StreamComplete
    <2>6. TypeOK'
      BY <1>1, <1>10, <2>4, <2>5 DEF StreamComplete, TypeOK
    <2>7. Len(harm') = 0 /\ Original' = EncodeEnvelope(domain, payload)
      BY <1>10, <2>2, EmptySeq DEF StreamComplete, Original
    <2>8. SavedInv'
      BY <1>10, <2>2, <2>5, <2>7 DEF StreamComplete, SavedInv
    <2> QED
      BY <1>10, <2>6, <2>8 DEF StreamComplete, EnvInv, IdleInv, ChunksInv
  <1>11. ASSUME NEW d \in Domains, NEW m \in Maxima, NEW v \in Versions, Reopen(d, m, v)
         PROVE  EnvInv'
    <2>1. TypeOK'
      BY <1>1, <1>11 DEF Reopen, TypeOK
    <2>2. SavedInv'
      BY <1>1, <1>11 DEF Reopen, SavedInv, Original
    <2> QED
      BY <1>11, <2>1, <2>2 DEF Reopen, EnvInv, IdleInv, ChunksInv
  <1>12. CASE ChangeByte
    <2>1. PICK i \in 1..Len(file), b \in Bytes :
             /\ b # file[i]
             /\ Damage([kind |-> "changed", at |-> i], [file EXCEPT ![i] = b])
      BY <1>12 DEF ChangeByte
    <2> DEFINE h == [kind |-> "changed", at |-> i]
               f == [file EXCEPT ![i] = b]
    <2>2. h \in Harms /\ h.kind = "changed" /\ h.at = i
      BY <1>2 DEF Harms
    <2>3. f \in Seq(Bytes) /\ ChangedAt(f, file, i)
      BY <1>2, <2>1, ExceptSeq DEF ChangedAt
    <2>4. Damaged(f, file, h)
      BY <2>2, <2>3 DEF Damaged
    <2> QED
      BY <2>1, <2>2, <2>3, <2>4, DamageStep
  <1>13. CASE CutOff
    <2>1. PICK n \in 0..(Len(file) - 1) :
             Damage([kind |-> "cut", at |-> n], SubSeq(file, 1, n))
      BY <1>13 DEF CutOff
    <2> DEFINE h == [kind |-> "cut", at |-> n]
               f == SubSeq(file, 1, n)
    <2>2. h \in Harms /\ h.kind = "cut" /\ h.at = n
      BY <1>2 DEF Harms
    <2>3. f \in Seq(Bytes) /\ CutAt(f, file, n)
      BY <1>2, <2>1, SubSeqProperties DEF CutAt
    <2>4. Damaged(f, file, h)
      BY <2>2, <2>3 DEF Damaged
    <2> QED
      BY <2>1, <2>2, <2>3, <2>4, DamageStep
  <1>14. CASE Extend
    <2>1. PICK b \in Bytes : Damage([kind |-> "extended"], Append(file, b))
      BY <1>14 DEF Extend
    <2> DEFINE h == [kind |-> "extended"]
               f == Append(file, b)
    <2>2. h \in Harms /\ h.kind = "extended"
      BY DEF Harms
    <2>3. f \in Seq(Bytes) /\ Extended(f, file)
      BY <1>2, <2>1, AppendProperties DEF Extended
    <2>4. Damaged(f, file, h)
      BY <2>2, <2>3 DEF Damaged
    <2> QED
      BY <2>1, <2>2, <2>3, <2>4, DamageStep
  <1>15. CASE UNCHANGED vars
    BY <1>1, <1>15 DEF vars, EnvInv, TypeOK, IdleInv, ChunksInv, SavedInv, HeaderOfSave, Original
  <1> QED
    BY <1>6, <1>7, <1>8, <1>9, <1>10, <1>11, <1>12, <1>13, <1>14, <1>15 DEF Next

(* The invariant holds in every state of every instance: whatever the      *)
(* chunks a streaming save was given, what it wrote is what save writes.   *)
THEOREM EnvelopeInvariant == Spec => []EnvInv
  <1> QED
    BY EnvInit, EnvStep, PTL DEF Spec

(* Whatever was done to the file, load and the reader of load_into come to *)
(* the same verdict, unless the payload is too large for the platform.     *)
THEOREM DecodersAgreeCorrect == Spec => []DecodersAgree
  <1>1. EnvInv => DecodersAgree
    <2> SUFFICES ASSUME EnvInv PROVE DecodersAgree
      OBVIOUS
    <2>1. file \in Seq(Bytes) /\ domain \in Domains
      BY DEF EnvInv, TypeOK
    <2> QED
      BY <2>1, Agreement DEF DecodersAgree, Loaded, Validated
  <1> QED
    BY <1>1, EnvelopeInvariant, PTL

(* A file that load accepts is, byte for byte, the envelope of the payload *)
(* that it returns, after any number of damages.                           *)
THEOREM AcceptsOnlyEnvelopesCorrect == Spec => []AcceptsOnlyEnvelopes
  <1>1. EnvInv => AcceptsOnlyEnvelopes
    <2> SUFFICES ASSUME EnvInv, Loaded.kind = "Ok"
                 PROVE  file = EncodeEnvelope(domain, Loaded.payload)
      BY DEF AcceptsOnlyEnvelopes
    <2>1. file \in Seq(Bytes) /\ domain \in Domains
      BY DEF EnvInv, TypeOK
    <2> QED
      BY <2>1, AcceptedIsEnvelope DEF Loaded
  <1> QED
    BY <1>1, EnvelopeInvariant, PTL

-----------------------------------------------------------------------------
(* Reading an envelope back.                                               *)

(* A field that is the same in two files.                                  *)
LEMMA SameField ==
  ASSUME NEW f \in Seq(Bytes), NEW g \in Seq(Bytes), NEW at \in Nat, NEW n \in Nat,
         Has(f, at, n), Has(g, at, n), \A i \in 1..n : f[at + i] = g[at + i]
  PROVE  Field(f, at, n) = Field(g, at, n)
  <1> DEFINE a == Field(f, at, n)
             b == Field(g, at, n)
  <1>1. /\ a \in Seq(Bytes) /\ Len(a) = n /\ \A i \in 1..n : a[i] = f[at + i]
        /\ b \in Seq(Bytes) /\ Len(b) = n /\ \A i \in 1..n : b[i] = g[at + i]
    BY FieldFacts
  <1> HIDE DEF a, b
  <1>2. a = b
    BY <1>1, SeqEqual
  <1> QED
    BY <1>2 DEF a, b

(* A file of three parts has the second one as a field.                    *)
LEMMA MiddleField ==
  ASSUME NEW s \in Seq(Bytes), NEW t \in Seq(Bytes), NEW u \in Seq(Bytes)
  PROVE  LET f == (s \o t) \o u IN
         /\ f \in Seq(Bytes) /\ Len(f) = Len(s) + Len(t) + Len(u)
         /\ Len(s) \in Nat /\ Len(t) \in Nat /\ Len(u) \in Nat
         /\ Has(f, Len(s), Len(t)) /\ Field(f, Len(s), Len(t)) = t
  <1> DEFINE g == s \o t
             f == g \o u
             m == Len(s)
             n == Len(t)
             x == Field(f, m, n)
  <1>1. /\ g \in Seq(Bytes) /\ Len(g) = m + n /\ m \in Nat /\ n \in Nat /\ Len(u) \in Nat
        /\ \A i \in 1..(m + n) : g[i] = IF i <= m THEN s[i] ELSE t[i - m]
    BY ConcatProperties, LenProperties
  <1> HIDE DEF g
  <1>2. /\ f \in Seq(Bytes) /\ Len(f) = (m + n) + Len(u)
        /\ \A i \in 1..(m + n) : f[i] = g[i]
    <2>1. g \in Seq(Bytes)
      BY <1>1
    <2>2. /\ f \in Seq(Bytes) /\ Len(f) = Len(g) + Len(u)
          /\ \A i \in 1..(Len(g) + Len(u)) : f[i] = IF i <= Len(g) THEN g[i] ELSE u[i - Len(g)]
      BY <2>1, ConcatProperties
    <2> HIDE DEF f
    <2> QED
      BY <1>1, <2>2
  <1> HIDE DEF f
  <1>3. Has(f, m, n)
    BY <1>1, <1>2 DEF Has
  <1>4. x \in Seq(Bytes) /\ Len(x) = n /\ \A i \in 1..n : x[i] = f[m + i]
    BY <1>1, <1>2, <1>3, FieldFacts
  <1> HIDE DEF x
  <1>5. ASSUME NEW i \in 1..n PROVE x[i] = t[i]
    <2>1. m + i \in 1..(m + n) /\ ~(m + i <= m) /\ (m + i) - m = i
      BY <1>1
    <2>2. f[m + i] = g[m + i]
      BY <1>2, <2>1
    <2>3. g[m + i] = t[(m + i) - m]
      BY <1>1, <2>1
    <2> QED
      BY <1>4, <2>1, <2>2, <2>3
  <1>6. x = t
    BY <1>4, <1>5, SeqEqual
  <1> QED
    BY <1>1, <1>2, <1>3, <1>6 DEF f, g, x

(* The fields of an envelope.                                              *)
LEMMA EncodedFields ==
  ASSUME NEW d \in Domains, NEW p \in Seq(Bytes), Len(p) < Pow(LengthLen)
  PROVE  LET e == EncodeEnvelope(d, p)
             n == Len(p)
         IN /\ e \in Seq(Bytes) /\ Len(e) = HeaderLen + n + ChecksumLen
            /\ Field(e, 0, DomainTagLen) = d
            /\ Field(e, VersionAt, VersionLen) = ToBigEndian(Version, VersionLen)
            /\ Field(e, LengthAt, LengthLen) = ToBigEndian(n, LengthLen)
            /\ Field(e, HeaderLen, n) = p
            /\ Field(e, HeaderLen + n, ChecksumLen) =
                 ToBigEndian(ChecksumOf(d, p), ChecksumLen)
  <1> DEFINE n == Len(p)
             v == ToBigEndian(Version, VersionLen)
             l == ToBigEndian(n, LengthLen)
             h == EnvelopeHeader(d, n)
             c == ToBigEndian(ChecksumOf(d, p), ChecksumLen)
             e == EncodeEnvelope(d, p)
  <1>1. /\ d \in Seq(Bytes) /\ Len(d) = DomainTagLen /\ n \in Nat
        /\ v \in Seq(Bytes) /\ Len(v) = VersionLen
        /\ l \in Seq(Bytes) /\ Len(l) = LengthLen
    BY Lengths, DomainBytes, FieldType, LenProperties
  <1>2. /\ h \in Seq(Bytes) /\ Len(h) = HeaderLen
        /\ c \in Seq(Bytes) /\ Len(c) = ChecksumLen
        /\ e = (h \o p) \o c /\ e \in Seq(Bytes) /\ Len(e) = HeaderLen + n + ChecksumLen
    BY EncodedType
  <1>3. h = (d \o v) \o l
    BY DEF EnvelopeHeader
  <1> HIDE DEF n, v, l, h, c, e
  <1>4. <<>> \in Seq(Bytes) /\ Len(<<>>) = 0
    BY EmptySeq
  (* Each part is the middle of three.                                     *)
  <1>5. Field(e, HeaderLen, n) = p
    BY <1>2, MiddleField DEF n
  <1>6. Field(e, HeaderLen + n, ChecksumLen) = c
    <2> DEFINE g == h \o p
    <2>1. g \in Seq(Bytes) /\ Len(g) = HeaderLen + n
      BY <1>2, ConcatProperties DEF n
    <2>2. e = g \o c
      BY <1>2
    <2> HIDE DEF g
    <2>3. (g \o c) \o <<>> = g \o c
      BY <1>2, <2>1, ConcatProperties, ConcatEmptySeq
    <2>4. Field((g \o c) \o <<>>, Len(g), Len(c)) = c
      BY <1>2, <1>4, <2>1, MiddleField
    <2> QED
      BY <1>2, <2>1, <2>2, <2>3, <2>4
  <1>7. e = d \o (v \o (l \o (p \o c)))
    <2> DEFINE r == p \o c
               q == l \o r
    <2>1. r \in Seq(Bytes)
      BY <1>2, ConcatProperties
    <2>2. (h \o p) \o c = h \o r
      BY <1>2, ConcatBytes
    <2> HIDE DEF r
    <2>3. q \in Seq(Bytes)
      BY <1>1, <2>1, ConcatProperties
    <2>4. ((d \o v) \o l) \o r = (d \o v) \o q
      <3> DEFINE k == d \o v
      <3>1. k \in Seq(Bytes)
        BY <1>1, ConcatProperties
      <3> HIDE DEF k
      <3>2. (k \o l) \o r = k \o (l \o r)
        BY <1>1, <2>1, <3>1, ConcatBytes
      <3> QED
        BY <3>2 DEF k
    <2> HIDE DEF q
    <2>5. (d \o v) \o q = d \o (v \o q)
      BY <1>1, <2>3, ConcatBytes
    <2> QED
      BY <1>2, <1>3, <2>2, <2>4, <2>5 DEF q, r
  <1> DEFINE q == l \o (p \o c)
             z == v \o q
  <1>8. q \in Seq(Bytes)
    <2> DEFINE r == p \o c
    <2>1. r \in Seq(Bytes)
      BY <1>2, ConcatProperties
    <2> HIDE DEF r
    <2>2. l \o r \in Seq(Bytes)
      BY <1>1, <2>1, ConcatProperties
    <2> QED
      BY <2>2 DEF r
  <1>9. e = d \o (v \o q)
    BY <1>7
  <1>10. e = (d \o v) \o q
    <2> HIDE DEF q
    <2>1. (d \o v) \o q = d \o (v \o q)
      BY <1>1, <1>8, ConcatBytes
    <2> QED
      BY <1>9, <2>1
  <1>11. Field(e, DomainTagLen, VersionLen) = v
    <2> HIDE DEF q
    <2> QED
      BY <1>1, <1>8, <1>10, MiddleField
  <1>12. Field(e, 0, DomainTagLen) = d
    <2>1. z \in Seq(Bytes)
      <3> HIDE DEF q
      <3> QED
        BY <1>1, <1>8, ConcatProperties
    <2>2. e = d \o z
      BY <1>9
    <2> HIDE DEF z
    <2>3. (<<>> \o d) \o z = d \o z
      BY <1>1, ConcatEmptySeq
    <2>4. Field((<<>> \o d) \o z, Len(<<>>), Len(d)) = d
      BY <1>1, <1>4, <2>1, MiddleField
    <2> QED
      BY <1>1, <1>4, <2>2, <2>3, <2>4
  <1>13. Field(e, LengthAt, LengthLen) = l
    <2> DEFINE k == d \o v
               r == p \o c
    <2>1. k \in Seq(Bytes) /\ Len(k) = LengthAt /\ r \in Seq(Bytes)
      BY <1>1, <1>2, Lengths, ConcatProperties
    <2>2. e = k \o (l \o r)
      BY <1>10
    <2> HIDE DEF k, r
    <2>3. (k \o l) \o r = k \o (l \o r)
      <3>1. k \in Seq(Bytes) /\ l \in Seq(Bytes) /\ r \in Seq(Bytes)
        BY <1>1, <2>1
      <3> QED
        BY <3>1, ConcatBytes
    <2>4. Field((k \o l) \o r, Len(k), Len(l)) = l
      BY <1>1, <2>1, MiddleField
    <2> QED
      BY <1>1, <2>1, <2>2, <2>3, <2>4
  <1> QED
    BY <1>2, <1>5, <1>6, <1>11, <1>12, <1>13, Lengths DEF n, v, l, c, e

(* The checks that an undamaged envelope passes.                           *)
LEMMA EncodedPasses ==
  ASSUME NEW d \in Domains, NEW p \in Seq(Bytes), Len(p) < Pow(LengthLen)
  PROVE  LET e == EncodeEnvelope(d, p)
             n == Len(p)
         IN /\ HeaderOk(e, d) /\ DeclaredIn(e) = n /\ n \in Nat
            /\ Has(e, HeaderLen, n) /\ Has(e, HeaderLen + n, ChecksumLen)
            /\ ~HasTrailing(e, HeaderLen + n + ChecksumLen)
            /\ FromBigEndian(Field(e, HeaderLen + n, ChecksumLen)) = ChecksumOf(d, p)
  <1> DEFINE e == EncodeEnvelope(d, p)
             n == Len(p)
             sum == ChecksumOf(d, p)
  <1>1. /\ e \in Seq(Bytes) /\ Len(e) = HeaderLen + n + ChecksumLen
        /\ Field(e, 0, DomainTagLen) = d
        /\ Field(e, VersionAt, VersionLen) = ToBigEndian(Version, VersionLen)
        /\ Field(e, LengthAt, LengthLen) = ToBigEndian(n, LengthLen)
        /\ Field(e, HeaderLen + n, ChecksumLen) = ToBigEndian(sum, ChecksumLen)
    BY EncodedFields
  <1>2. n \in Nat /\ n < Pow(LengthLen) /\ sum \in Nat /\ sum < Pow(ChecksumLen)
    BY LenProperties, ChecksumType
  <1> HIDE DEF e, n, sum
  <1>3. /\ FromBigEndian(ToBigEndian(Version, VersionLen)) = Version
        /\ FromBigEndian(ToBigEndian(n, LengthLen)) = n
        /\ FromBigEndian(ToBigEndian(sum, ChecksumLen)) = sum
    BY <1>2, Lengths, FromTo
  <1>4. /\ Has(e, 0, DomainTagLen) /\ Has(e, VersionAt, VersionLen)
        /\ Has(e, LengthAt, LengthLen) /\ Has(e, HeaderLen, n)
        /\ Has(e, HeaderLen + n, ChecksumLen)
        /\ ~HasTrailing(e, HeaderLen + n + ChecksumLen)
    BY <1>1, <1>2, Lengths DEF Has, HasTrailing
  <1> QED
    BY <1>1, <1>2, <1>3, <1>4 DEF HeaderOk, DeclaredIn, e, n, sum

(* Both decoders on the envelope of a payload, for any application and any *)
(* maximum.                                                                *)
LEMMA DecodeEncoded ==
  ASSUME NEW d \in Domains, NEW own \in Domains, NEW p \in Seq(Bytes), NEW m \in Nat,
         Len(p) < Pow(LengthLen)
  PROVE  LET e == EncodeEnvelope(own, p)
             a == DecodeReader(e, d, m)
             b == ValidateEnvelopeReader(e, d, m)
         IN IF d # own THEN a = Failed("InvalidEnvelopeDomain") /\ b = a
            ELSE IF Len(p) > m THEN a = Failed("BlobTooLarge") /\ b = a
            ELSE /\ b = [kind |-> "Ok", payloadLen |-> Len(p)]
                 /\ FitsUsize(Len(p)) => a = [kind |-> "Ok", payload |-> p]
  <1> DEFINE e == EncodeEnvelope(own, p)
             n == Len(p)
             a == DecodeReader(e, d, m)
             b == ValidateEnvelopeReader(e, d, m)
             actual == Crc32cAppend(Crc32cAppend(Crc32cAppend(Crc32c(own),
                         ToBigEndian(Version, VersionLen)), ToBigEndian(n, LengthLen)), p)
             streamed == Crc32cBuffers(Crc32c(Field(e, 0, HeaderLen)), Buffers(e, n))
  <1>1. /\ e \in Seq(Bytes) /\ Field(e, HeaderLen, n) = p
    BY EncodedFields
  <1>2. /\ HeaderOk(e, own) /\ DeclaredIn(e) = n /\ n \in Nat
        /\ Has(e, HeaderLen, n) /\ Has(e, HeaderLen + n, ChecksumLen)
        /\ ~HasTrailing(e, HeaderLen + n + ChecksumLen)
        /\ FromBigEndian(Field(e, HeaderLen + n, ChecksumLen)) = ChecksumOf(own, p)
    BY EncodedPasses
  <1>3. actual = ChecksumOf(own, p) /\ streamed = ChecksumOf(own, p)
    <2> HIDE DEF e, n
    <2> QED
      BY <1>1, <1>2, SameSums
  <1>4. FitsUsize(n) => ~(n > UsizeMax \/ n + Overhead > UsizeMax)
    <2>1. n \in Nat /\ UsizeMax \in Nat /\ Overhead \in Nat
      BY <1>2, EnvelopeAssumption, Lengths DEF Overhead
    <2> HIDE DEF n
    <2> QED
      BY <2>1 DEF FitsUsize
  <1> HIDE DEF e, n
  <1>5. CASE d # own
    <2>1. Has(e, 0, DomainTagLen) /\ Field(e, 0, DomainTagLen) # d
      BY <1>2, <1>5 DEF HeaderOk
    <2> QED
      BY <1>5, <2>1 DEF DecodeReader, ValidateEnvelopeReader, e
  <1>6. CASE d = own /\ n > m
    <2>1. a = Failed("BlobTooLarge") /\ b = Failed("BlobTooLarge")
      BY <1>2, <1>6 DEF DecodeReader, ValidateEnvelopeReader, HeaderOk, TooLarge
    <2> QED
      BY <1>6, <2>1 DEF e, n
  <1>7. CASE d = own /\ ~(n > m)
    <2>1. b = [kind |-> "Ok", payloadLen |-> n]
      <3> HIDE DEF streamed
      <3>1. Crc32cBuffers(Crc32c(Field(e, 0, HeaderLen)), Buffers(e, n)) = ChecksumOf(own, p)
        BY <1>3 DEF streamed
      <3> QED
        BY <1>2, <1>7, <3>1 DEF ValidateEnvelopeReader, HeaderOk, TooLarge, Mismatch
    <2>2. FitsUsize(n) => a = [kind |-> "Ok", payload |-> p]
      BY <1>1, <1>2, <1>3, <1>4, <1>7 DEF DecodeReader, HeaderOk, TooLarge, Mismatch
    <2> QED
      BY <1>7, <2>1, <2>2 DEF e, n
  <1> QED
    BY <1>5, <1>6, <1>7 DEF e, n

(* What is saved, at once or in chunks of any sizes, is one envelope, and  *)
(* every store reads it back exactly or refuses it for the reason of its   *)
(* own options.                                                            *)
THEOREM ReadBackCorrect == Spec => []ReadBack
  <1>1. EnvInv => ReadBack
    <2> SUFFICES ASSUME EnvInv, Saved, harm = <<>>
                 PROVE  /\ file = EncodeEnvelope(savedFor, payload)
                        /\ IF domain # savedFor
                             THEN {Loaded, Validated} = {Failed("InvalidEnvelopeDomain")}
                           ELSE IF Len(payload) > maximum
                             THEN {Loaded, Validated} = {Failed("BlobTooLarge")}
                           ELSE /\ Validated = [kind |-> "Ok", payloadLen |-> Len(payload)]
                                /\ FitsUsize(Len(payload)) =>
                                     Loaded = [kind |-> "Ok", payload |-> payload]
      BY DEF ReadBack
    <2>1. /\ domain \in Domains /\ savedFor \in Domains /\ payload \in Seq(Bytes)
          /\ maximum \in Nat
      BY EnvelopeAssumption DEF EnvInv, TypeOK, Bytes
    <2>2. file = EncodeEnvelope(savedFor, payload) /\ Len(payload) < Pow(LengthLen)
      BY DEF EnvInv, SavedInv, Saved, Original
    <2>3. IF domain # savedFor
            THEN Loaded = Failed("InvalidEnvelopeDomain") /\ Validated = Loaded
          ELSE IF Len(payload) > maximum
            THEN Loaded = Failed("BlobTooLarge") /\ Validated = Loaded
          ELSE /\ Validated = [kind |-> "Ok", payloadLen |-> Len(payload)]
               /\ FitsUsize(Len(payload)) => Loaded = [kind |-> "Ok", payload |-> payload]
      BY <2>1, <2>2, DecodeEncoded DEF Loaded, Validated
    <2> QED
      BY <2>2, <2>3
  <1> QED
    BY <1>1, EnvelopeInvariant, PTL

-----------------------------------------------------------------------------
(* One byte of the checksum's input.                                       *)

(* A lower power divides a higher one.                                     *)
LEMMA PowDivides ==
  ASSUME NEW i \in Nat
  PROVE  \A k \in Nat : \E z \in Nat : Pow(i + k) = Pow(i) * z
  <1> DEFINE S == {k \in Nat : \E z \in Nat : Pow(i + k) = Pow(i) * z}
  <1>1. 0 \in S
    <2>1. Pow(i + 0) = Pow(i) * 1 /\ 1 \in Nat
      BY PowFacts
    <2> QED
      BY <2>1
  <1>2. ASSUME NEW k \in Nat, k \in S PROVE k + 1 \in S
    <2>1. PICK z \in Nat : Pow(i + k) = Pow(i) * z
      BY <1>2
    <2>2. Pow((i + k) + 1) = Radix * Pow(i + k)
      BY PowFacts
    <2>3. Pow(i) \in Nat /\ Radix \in Nat
      BY PowFacts, RadixFacts
    <2>4. (i + k) + 1 = i + (k + 1)
      OBVIOUS
    <2>5. Radix * (Pow(i) * z) = Pow(i) * (Radix * z) /\ Radix * z \in Nat
      <3> DEFINE a == Pow(i)
      <3>1. a \in Nat
        BY <2>3
      <3> HIDE DEF a
      <3>2. Radix * (a * z) = a * (Radix * z) /\ Radix * z \in Nat
        BY <2>3, <3>1
      <3> QED
        BY <3>2 DEF a
    <2>6. Pow(i + (k + 1)) = Pow(i) * (Radix * z)
      BY <2>1, <2>2, <2>4, <2>5
    <2> QED
      BY <2>5, <2>6
  <1> HIDE DEF S
  <1>3. \A k \in Nat : k \in S
    BY <1>1, <1>2, SetInduction
  <1> QED
    BY <1>3 DEF S

(* y * p, times r + 1, is a multiple of r * p * z.                         *)
Balanced(p, r, y, z, k) == (y * p) * (r + 1) = k * ((r * p) * z)

(* Then y * p is a multiple of r * p: the next power of r divides it.      *)
LEMMA Round ==
  ASSUME NEW p \in Nat \ {0}, NEW r \in Nat \ {0}, NEW y \in Nat, NEW z \in Nat,
         NEW k \in Nat, Balanced(p, r, y, z, k)
  PROVE  \E q \in Nat : y * p = q * (r * p)
  <1> USE DEF Balanced
  <1>1. (y * p) * (r + 1) = p * (y * (r + 1))
    OBVIOUS
  <1>2. k * ((r * p) * z) = p * (k * (r * z))
    OBVIOUS
  <1>3. y * (r + 1) = k * (r * z)
    <2> DEFINE a == y * (r + 1)
               b == k * (r * z)
    <2>1. a \in Nat /\ b \in Nat /\ p * a = p * b
      BY <1>1, <1>2
    <2> HIDE DEF a, b
    <2>2. a = b
      BY <2>1
    <2> QED
      BY <2>2 DEF a, b
  <1> DEFINE q == k * z - y
  <1>4. q \in Int /\ y = r * q
    <2>1. k * (r * z) = r * (k * z) /\ y * (r + 1) = y * r + y /\ k * z \in Nat
      OBVIOUS
    <2>2. r * (k * z - y) = r * (k * z) - r * y /\ r * y = y * r
      BY <2>1
    <2> QED
      BY <1>3, <2>1, <2>2
  <1> HIDE DEF q
  <1>5. q \in Nat
    <2>1. ~(q < 0)
      <3>1. ASSUME q < 0 PROVE FALSE
        <4>1. r * q < 0
          BY <1>4, <3>1
        <4> QED
          BY <1>4, <4>1
      <3> QED
        BY <3>1
    <2> QED
      BY <1>4, <2>1
  <1>6. (r * q) * p = q * (r * p)
    BY <1>5
  <1> QED
    BY <1>4, <1>5, <1>6

(* Radix and Radix + 1 have no factor in common: a number below a power    *)
(* whose product with Radix + 1 is a multiple of that power is zero.       *)
LEMMA NoCommonFactor ==
  ASSUME NEW w \in Nat, NEW x \in Nat, NEW k \in Nat, x < Pow(w),
         x * (Radix + 1) = k * Pow(w)
  PROVE  x = 0
  <1> DEFINE S == {i \in 0..w : \E y \in Nat : x = y * Pow(i)}
  <1>1. 0 \in S
    BY PowFacts
  <1>2. ASSUME NEW i \in 1..w, i - 1 \in S PROVE i \in S
    <2> DEFINE j == i - 1
               p == Pow(j)
    <2>1. j \in Nat /\ j + 1 = i /\ w - i \in Nat /\ i + (w - i) = w /\ i \in Nat
      OBVIOUS
    <2>2. PICK y \in Nat : x = y * p
      BY <1>2
    <2>3. PICK z \in Nat : Pow(i + (w - i)) = Pow(i) * z
      <3> DEFINE u == w - i
      <3>1. u \in Nat
        BY <2>1
      <3> HIDE DEF u
      <3>2. \E z \in Nat : Pow(i + u) = Pow(i) * z
        BY <2>1, <3>1, PowDivides
      <3> QED
        BY <3>2 DEF u
    <2>4. Pow(i) = Radix * p /\ p \in Nat \ {0} /\ Radix \in Nat \ {0}
      <3> HIDE DEF j
      <3>1. Pow(j + 1) = Radix * Pow(j) /\ Pow(j) \in Nat \ {0}
        BY <2>1, PowFacts
      <3> QED
        BY <2>1, <3>1, RadixFacts
    <2>5. Pow(w) = (Radix * p) * z
      BY <2>1, <2>3, <2>4
    <2>6. (y * p) * (Radix + 1) = k * ((Radix * p) * z)
      BY <2>2, <2>5
    <2> HIDE DEF p
    <2>7. \E q \in Nat : y * p = q * (Radix * p)
      <3>1. Balanced(p, Radix, y, z, k)
        BY <2>6 DEF Balanced
      <3> QED
        BY <2>4, <3>1, Round
    <2>8. \E q \in Nat : x = q * Pow(i)
      BY <2>2, <2>4, <2>7
    <2> QED
      BY <2>8
  <1> HIDE DEF S
  <1>3. w \in S
    BY <1>1, <1>2, RangeInduction
  <1>4. PICK y \in Nat : x = y * Pow(w)
    BY <1>3 DEF S
  <1> DEFINE p == Pow(w)
  <1>5. p \in Nat \ {0} /\ x = y * p /\ x < p
    BY <1>4, PowFacts
  <1> HIDE DEF p
  <1>6. CASE y = 0
    BY <1>5, <1>6
  <1>7. CASE y >= 1
    <2>1. y * p >= p
      BY <1>5, <1>7
    <2> QED
      BY <1>5, <2>1
  <1> QED
    BY <1>6, <1>7

(* Two numbers with the same remainder differ by a multiple.               *)
LEMMA SameRemainder ==
  ASSUME NEW a \in Nat, NEW b \in Nat, NEW p \in Nat \ {0}, b <= a, a % p = b % p
  PROVE  \E k \in Nat : a - b = k * p
  <1> DEFINE qa == a \div p
             qb == b \div p
             r == a % p
  <1>1. /\ qa \in Nat /\ qb \in Nat /\ r \in Nat
        /\ a = p * qa + r /\ b = p * qb + r
    BY Division
  <1> HIDE DEF qa, qb, r
  <1>2. p * qb <= p * qa
    BY <1>1
  <1>3. qb <= qa
    <2>1. ASSUME qa < qb PROVE FALSE
      <3>1. PICK e \in Nat \ {0} : qb = qa + e
        <4>1. qb - qa \in Nat \ {0} /\ qb = qa + (qb - qa)
          BY <1>1, <2>1
        <4> QED
          BY <4>1
      <3>2. p * qb = p * qa + p * e /\ p * e > 0
        BY <1>1, <3>1
      <3> QED
        BY <1>1, <1>2, <3>2
    <2> QED
      BY <1>1, <2>1
  <1> DEFINE k == qa - qb
  <1>4. k \in Nat /\ qa = qb + k
    BY <1>1, <1>3
  <1> HIDE DEF k
  <1>5. p * qa = p * qb + k * p
    BY <1>1, <1>4
  <1>6. a - b = k * p
    <2> DEFINE u == p * qa
               v == p * qb
               t == k * p
    <2>1. /\ u \in Nat /\ v \in Nat /\ t \in Nat
          /\ a = u + r /\ b = v + r /\ u = v + t
      BY <1>1, <1>4, <1>5
    <2> HIDE DEF u, v, t
    <2>2. a - b = t
      BY <1>1, <2>1
    <2> QED
      BY <2>2 DEF t
  <1> QED
    BY <1>4, <1>6

(* A byte is less than what a checksum is reduced by.                      *)
LEMMA ChecksumRange ==
  Pow(ChecksumLen) \in Nat \ {0} /\ Radix <= Pow(ChecksumLen) /\ Radix \in Nat
  <1> DEFINE j == ChecksumLen - 1
             q == Pow(j)
  <1>1. j \in Nat /\ j + 1 = ChecksumLen
    BY EnvelopeAssumption
  <1> HIDE DEF j
  <1>2. q \in Nat \ {0} /\ Pow(j + 1) = Radix * q /\ Pow(j + 1) \in Nat \ {0}
    BY <1>1, PowFacts
  <1> HIDE DEF q
  <1>3. Radix \in Nat /\ Radix <= Radix * q
    BY <1>2, RadixFacts
  <1> QED
    BY <1>1, <1>2, <1>3

(* Different checksums stay different when the same byte is added.         *)
LEMMA StepKeepsApart ==
  ASSUME NEW x \in Sums, NEW y \in Sums, NEW b \in Bytes, y <= x,
         Crc32cStep(x, b) = Crc32cStep(y, b)
  PROVE  x = y
  <1> DEFINE P == Pow(ChecksumLen)
             R == Radix
             u == x * (R + 1) + b + 1
             v == y * (R + 1) + b + 1
  <1>1. P \in Nat \ {0} /\ R \in Nat /\ b \in Nat
    BY ChecksumRange, RadixFacts
  <1>2. x \in Nat /\ y \in Nat /\ x < P
    BY <1>1 DEF Sums
  <1>3. u % P = v % P
    BY DEF Crc32cStep
  <1> DEFINE z == x - y
  <1>4. z \in Nat /\ x = y + z /\ z < P
    BY <1>1, <1>2
  <1> HIDE DEF P, R, z
  <1>5. x * (R + 1) = y * (R + 1) + z * (R + 1)
    BY <1>1, <1>2, <1>4
  <1>6. u \in Nat /\ v \in Nat /\ v <= u /\ u - v = z * (R + 1)
    <2> DEFINE m == y * (R + 1)
               n == z * (R + 1)
    <2>1. m \in Nat /\ n \in Nat
      BY <1>1, <1>2, <1>4
    <2>2. u = m + n + b + 1 /\ v = m + b + 1
      BY <1>5
    <2> HIDE DEF m, n, u, v
    <2>3. u \in Nat /\ v \in Nat /\ v <= u /\ u - v = n
      BY <1>1, <2>1, <2>2
    <2> QED
      BY <2>3 DEF n
  <1> HIDE DEF u, v
  <1>7. PICK k \in Nat : u - v = k * P
    BY <1>1, <1>3, <1>6, SameRemainder
  <1>8. z * (R + 1) = k * P
    BY <1>6, <1>7
  <1>9. z = 0
    BY <1>4, <1>8, Lengths, NoCommonFactor DEF P, R
  <1> QED
    BY <1>2, <1>4, <1>9

(* Different bytes take a checksum to different ones.                      *)
LEMMA StepTellsBytes ==
  ASSUME NEW x \in Nat, NEW a \in Bytes, NEW b \in Bytes, b <= a,
         Crc32cStep(x, a) = Crc32cStep(x, b)
  PROVE  a = b
  <1> DEFINE P == Pow(ChecksumLen)
             m == x * (Radix + 1)
             u == m + a + 1
             v == m + b + 1
  <1>1. P \in Nat \ {0} /\ Radix \in Nat /\ Radix <= P
    BY ChecksumRange
  <1>2. a \in Nat /\ b \in Nat /\ a < P /\ m \in Nat
    BY <1>1, RadixFacts
  <1>3. u % P = v % P
    BY DEF Crc32cStep
  <1> HIDE DEF P, m
  <1>4. u \in Nat /\ v \in Nat /\ v <= u /\ u - v = a - b
    BY <1>2
  <1> HIDE DEF u, v
  <1>5. PICK k \in Nat : u - v = k * P
    BY <1>1, <1>3, <1>4, SameRemainder
  <1>6. CASE k = 0
    BY <1>1, <1>2, <1>4, <1>5, <1>6
  <1>7. CASE k >= 1
    <2>1. k * P >= P
      BY <1>1, <1>7
    <2>2. a - b < P /\ a - b = k * P
      BY <1>1, <1>2, <1>4, <1>5
    <2> DEFINE t == k * P
    <2>3. t \in Int
      BY <1>1
    <2> HIDE DEF t
    <2>4. t >= P /\ a - b < P /\ a - b = t
      BY <2>1, <2>2 DEF t
    <2> QED
      BY <1>1, <1>2, <2>3, <2>4
  <1> QED
    BY <1>6, <1>7

(* The same facts, without an order.                                       *)
LEMMA StepsDiffer ==
  /\ \A x, y \in Sums, b \in Bytes : x # y => Crc32cStep(x, b) # Crc32cStep(y, b)
  /\ \A x \in Nat, a, b \in Bytes : a # b => Crc32cStep(x, a) # Crc32cStep(x, b)
  <1>1. Sums \subseteq Nat /\ Bytes \subseteq Nat
    BY ChecksumRange, RadixFacts DEF Sums
  <1>2. ASSUME NEW x \in Sums, NEW y \in Sums, NEW b \in Bytes,
               Crc32cStep(x, b) = Crc32cStep(y, b)
        PROVE  x = y
    <2>1. y <= x \/ x <= y
      BY <1>1
    <2> QED
      BY <1>2, <2>1, StepKeepsApart
  <1>3. ASSUME NEW x \in Nat, NEW a \in Bytes, NEW b \in Bytes,
               Crc32cStep(x, a) = Crc32cStep(x, b)
        PROVE  a = b
    <2>1. a <= b \/ b <= a
      BY <1>1
    <2> QED
      BY <1>3, <2>1, StepTellsBytes
  <1> QED
    BY <1>2, <1>3

(* The checksum notices a change of one byte, wherever it is.              *)
LEMMA ChecksumNotices ==
  ASSUME NEW sum \in Nat, NEW s \in Seq(Bytes), NEW t \in Seq(Bytes),
         Len(s) = Len(t), NEW j \in 1..Len(s), s[j] # t[j],
         \A i \in 1..Len(s) : i # j => s[i] = t[i]
  PROVE  Crc32cAppend(sum, s) # Crc32cAppend(sum, t)
  <1> DEFINE n == Len(s)
  <1>1. n \in Nat /\ Len(t) = n
    BY LenProperties
  <1>2. \A i \in 1..n : s[i] \in Bytes /\ t[i] \in Bytes
    BY <1>1, ElementOfSeq
  <1>3. PICK c \in [0..n -> Nat] :
          /\ c[0] = sum
          /\ \A i \in 1..n : c[i] = Crc32cStep(c[i - 1], s[i])
          /\ Crc32cAppend(sum, s) = c[n]
    BY CrcRun
  <1>4. PICK e \in [0..n -> Nat] :
          /\ e[0] = sum
          /\ \A i \in 1..n : e[i] = Crc32cStep(e[i - 1], t[i])
          /\ Crc32cAppend(sum, t) = e[n]
    <2>1. \E e \in [0..Len(t) -> Nat] :
            /\ e[0] = sum
            /\ \A i \in 1..Len(t) : e[i] = Crc32cStep(e[i - 1], t[i])
            /\ Crc32cAppend(sum, t) = e[Len(t)]
      BY CrcRun
    <2> HIDE DEF n
    <2> QED
      BY <1>1, <2>1
  <1> HIDE DEF n
  <1> DEFINE S == {i \in 0..n : IF i < j THEN c[i] = e[i] ELSE c[i] # e[i]}
  <1>5. j \in 1..n /\ s[j] # t[j] /\ \A i \in 1..n : i # j => s[i] = t[i]
    BY DEF n
  <1>6. 0 \in S
    BY <1>1, <1>3, <1>4, <1>5
  <1>7. ASSUME NEW i \in 1..n, i - 1 \in S PROVE i \in S
    <2>1. /\ i - 1 \in 0..n /\ i \in 0..n
          /\ s[i] \in Bytes /\ t[i] \in Bytes /\ c[i - 1] \in Nat /\ e[i - 1] \in Nat
          /\ c[i] = Crc32cStep(c[i - 1], s[i]) /\ e[i] = Crc32cStep(e[i - 1], t[i])
      BY <1>1, <1>2, <1>3, <1>4
    <2>2. CASE i < j
      <3>1. c[i - 1] = e[i - 1] /\ s[i] = t[i]
        BY <1>5, <1>7, <2>1, <2>2
      <3> QED
        BY <2>1, <2>2, <3>1
    <2>3. CASE i = j
      <3>1. c[i - 1] = e[i - 1] /\ s[i] # t[i]
        BY <1>5, <1>7, <2>1, <2>3
      <3>2. c[i] # e[i]
        BY <2>1, <3>1, StepsDiffer
      <3> QED
        BY <2>1, <2>3, <3>2
    <2>4. CASE i > j
      <3>1. ~(i - 1 < j) /\ i - 1 \in 1..n /\ (i - 1) - 1 \in 0..n
        BY <1>1, <1>5, <2>4
      <3>2. c[i - 1] # e[i - 1]
        BY <1>7, <3>1
      <3>3. s[i] = t[i]
        <4>1. i # j
          BY <1>5, <2>4
        <4> QED
          BY <1>5, <4>1
      <3>4. c[i - 1] \in Sums /\ e[i - 1] \in Sums
        <4> DEFINE k == i - 1
        <4>1. k \in 1..n /\ k - 1 \in 0..n
          BY <3>1
        <4> HIDE DEF k
        <4>2. /\ c[k] = Crc32cStep(c[k - 1], s[k]) /\ e[k] = Crc32cStep(e[k - 1], t[k])
              /\ c[k - 1] \in Nat /\ e[k - 1] \in Nat /\ s[k] \in Bytes /\ t[k] \in Bytes
          BY <1>2, <1>3, <1>4, <4>1
        <4>3. c[k] \in Sums /\ e[k] \in Sums
          BY <4>2, StepType
        <4> QED
          BY <4>3 DEF k
      <3>5. c[i] # e[i]
        BY <2>1, <3>2, <3>3, <3>4, StepsDiffer
      <3> QED
        BY <1>5, <2>1, <2>4, <3>5
    <2> QED
      BY <1>5, <2>2, <2>3, <2>4
  <1> HIDE DEF S
  <1>8. n \in S
    <2>1. \A i \in 1..n : i - 1 \in S => i \in S
      BY <1>7
    <2>2. \A i \in 0..n : i \in S
      BY <1>1, <1>6, <2>1, RangeInduction
    <2> QED
      BY <1>1, <2>2
  <1>9. c[n] # e[n]
    BY <1>1, <1>5, <1>8 DEF S
  <1> QED
    BY <1>3, <1>4, <1>9

-----------------------------------------------------------------------------
(* One damage.                                                             *)

(* Two files have their first k bytes in common.                           *)
AgreeTo(f, e, k) ==
  k <= Len(f) /\ k <= Len(e) /\ \A i \in 1..k : f[i] = e[i]

(* Two files that agree up to the end of a field agree on the field.       *)
LEMMA KeptField ==
  ASSUME NEW f \in Seq(Bytes), NEW e \in Seq(Bytes), NEW k \in Nat, AgreeTo(f, e, k),
         NEW at \in Nat, NEW n \in Nat, at + n <= k
  PROVE  Has(f, at, n) /\ Field(f, at, n) = Field(e, at, n)
  <1>1. Len(f) \in Nat /\ Len(e) \in Nat
    BY LenProperties
  <1>2. Has(f, at, n) /\ Has(e, at, n)
    BY <1>1 DEF AgreeTo, Has
  <1>3. \A i \in 1..n : f[at + i] = e[at + i]
    BY DEF AgreeTo
  <1> QED
    BY <1>2, <1>3, SameField

(* The part of the header that a file has in common with an envelope       *)
(* passes the checks.                                                      *)
LEMMA KeptHeader ==
  ASSUME NEW d \in Domains, NEW p \in Seq(Bytes), Len(p) < Pow(LengthLen),
         NEW f \in Seq(Bytes), NEW k \in Nat, AgreeTo(f, EncodeEnvelope(d, p), k)
  PROVE  /\ DomainTagLen <= k => Has(f, 0, DomainTagLen) /\ Field(f, 0, DomainTagLen) = d
         /\ LengthAt <= k => /\ Has(f, VersionAt, VersionLen)
                             /\ FromBigEndian(Field(f, VersionAt, VersionLen)) = Version
         /\ HeaderLen <= k => HeaderOk(f, d) /\ DeclaredIn(f) = Len(p)
         /\ HeaderLen + Len(p) <= k => Has(f, HeaderLen, Len(p))
         /\ HeaderLen + Len(p) + ChecksumLen <= k =>
              Has(f, HeaderLen + Len(p), ChecksumLen)
  <1> DEFINE e == EncodeEnvelope(d, p)
             n == Len(p)
  <1>1. /\ e \in Seq(Bytes) /\ HeaderOk(e, d) /\ DeclaredIn(e) = n /\ n \in Nat
    BY EncodedType, EncodedPasses
  <1>2. AgreeTo(f, e, k)
    OBVIOUS
  <1>3. HeaderLen + n \in Nat /\ HeaderLen \in Nat
    BY <1>1, Lengths
  <1> HIDE DEF e, n
  <1>4. ASSUME DomainTagLen <= k
        PROVE  Has(f, 0, DomainTagLen) /\ Field(f, 0, DomainTagLen) = d
    <2>1. 0 + DomainTagLen <= k
      BY <1>4, Lengths
    <2>2. Has(f, 0, DomainTagLen) /\ Field(f, 0, DomainTagLen) = Field(e, 0, DomainTagLen)
      BY <1>1, <1>2, <2>1, Lengths, KeptField
    <2> QED
      BY <1>1, <2>2 DEF HeaderOk
  <1>5. ASSUME LengthAt <= k
        PROVE  /\ Has(f, VersionAt, VersionLen)
               /\ FromBigEndian(Field(f, VersionAt, VersionLen)) = Version
    <2>1. VersionAt + VersionLen <= k
      BY <1>5, Lengths
    <2>2. /\ Has(f, VersionAt, VersionLen)
          /\ Field(f, VersionAt, VersionLen) = Field(e, VersionAt, VersionLen)
      BY <1>1, <1>2, <2>1, Lengths, KeptField
    <2> QED
      BY <1>1, <2>2 DEF HeaderOk
  <1>6. ASSUME HeaderLen <= k PROVE HeaderOk(f, d) /\ DeclaredIn(f) = n
    <2>1. LengthAt + LengthLen <= k /\ DomainTagLen <= k /\ LengthAt <= k
      BY <1>6, Lengths
    <2>2. /\ Has(f, LengthAt, LengthLen)
          /\ Field(f, LengthAt, LengthLen) = Field(e, LengthAt, LengthLen)
      BY <1>1, <1>2, <2>1, Lengths, KeptField
    <2> QED
      BY <1>1, <1>4, <1>5, <2>1, <2>2 DEF HeaderOk, DeclaredIn
  <1>7. ASSUME HeaderLen + n <= k PROVE Has(f, HeaderLen, n)
    BY <1>1, <1>2, <1>3, <1>7, KeptField
  <1>8. ASSUME HeaderLen + n + ChecksumLen <= k PROVE Has(f, HeaderLen + n, ChecksumLen)
    <2> DEFINE h == HeaderLen + n
    <2>1. h \in Nat /\ h + ChecksumLen <= k
      BY <1>3, <1>8
    <2> HIDE DEF h
    <2>2. Has(f, h, ChecksumLen)
      BY <1>1, <1>2, <2>1, Lengths, KeptField
    <2> QED
      BY <2>2 DEF h
  <1> QED
    BY <1>4, <1>5, <1>6, <1>7, <1>8 DEF e, n

(* A file that was cut off is truncated in the section where it ends.      *)
LEMMA CutIsNamed ==
  ASSUME NEW d \in Domains, NEW p \in Seq(Bytes), Len(p) < Pow(LengthLen),
         NEW m \in Nat, Len(p) <= m,
         NEW f \in Seq(Bytes), NEW k \in Nat, CutAt(f, EncodeEnvelope(d, p), k)
  PROVE  LET v == ValidateEnvelopeReader(f, d, m) IN
         /\ k < VersionAt => v = Truncated("Magic")
         /\ VersionAt <= k /\ k < LengthAt => v = Truncated("Version")
         /\ LengthAt <= k /\ k < HeaderLen => v = Truncated("PayloadLength")
         /\ HeaderLen <= k /\ k < HeaderLen + Len(p) => v = Truncated("Payload")
         /\ HeaderLen + Len(p) <= k => v = Truncated("Checksum")
  <1> DEFINE e == EncodeEnvelope(d, p)
             n == Len(p)
             v == ValidateEnvelopeReader(f, d, m)
  <1>1. e \in Seq(Bytes) /\ Len(e) = HeaderLen + n + ChecksumLen /\ n \in Nat
    BY EncodedType, LenProperties
  <1>2. k \in 0..(Len(e) - 1) /\ f = SubSeq(e, 1, k)
    BY DEF CutAt
  <1> HIDE DEF e
  <1>3. Len(f) = k /\ k < Len(e) /\ \A i \in 1..k : f[i] = e[i]
    <2>1. Len(e) \in Nat
      BY <1>1, Lengths
    <2>2. Has(e, 0, k)
      BY <1>2, <2>1 DEF Has
    <2>3. Len(Field(e, 0, k)) = k /\ \A i \in 1..k : Field(e, 0, k)[i] = e[0 + i]
      <3>1. e \in Seq(Bytes) /\ 0 \in Nat
        BY <1>1
      <3> QED
        BY <2>2, <3>1, FieldFacts
    <2>4. Field(e, 0, k) = f
      BY <1>2 DEF Field
    <2> QED
      BY <1>2, <2>1, <2>3, <2>4
  <1>4. AgreeTo(f, e, k)
    BY <1>1, <1>3, Lengths DEF AgreeTo
  <1>5. /\ DomainTagLen <= k => Has(f, 0, DomainTagLen) /\ Field(f, 0, DomainTagLen) = d
        /\ LengthAt <= k => /\ Has(f, VersionAt, VersionLen)
                            /\ FromBigEndian(Field(f, VersionAt, VersionLen)) = Version
        /\ HeaderLen <= k => HeaderOk(f, d) /\ DeclaredIn(f) = n
        /\ HeaderLen + n <= k => Has(f, HeaderLen, n)
    BY <1>4, KeptHeader DEF e
  <1> HIDE DEF n
  <1>6. ASSUME k < VersionAt PROVE v = Truncated("Magic")
    <2>1. ~Has(f, 0, DomainTagLen)
      BY <1>3, <1>6, Lengths DEF Has
    <2> QED
      BY <2>1 DEF ValidateEnvelopeReader
  <1>7. ASSUME VersionAt <= k, k < LengthAt PROVE v = Truncated("Version")
    <2>1. ~Has(f, VersionAt, VersionLen) /\ DomainTagLen <= k
      BY <1>3, <1>7, Lengths DEF Has
    <2> QED
      BY <1>5, <2>1 DEF ValidateEnvelopeReader
  <1>8. ASSUME LengthAt <= k, k < HeaderLen PROVE v = Truncated("PayloadLength")
    <2>1. ~Has(f, LengthAt, LengthLen) /\ DomainTagLen <= k
      BY <1>3, <1>8, Lengths DEF Has
    <2> QED
      BY <1>5, <1>8, <2>1 DEF ValidateEnvelopeReader
  <1>9. ~TooLarge(n, m)
    BY <1>1 DEF TooLarge, n
  <1>10. ASSUME HeaderLen <= k, k < HeaderLen + n PROVE v = Truncated("Payload")
    <2>1. ~Has(f, HeaderLen, n)
      BY <1>1, <1>3, <1>10, Lengths DEF Has
    <2> QED
      BY <1>5, <1>9, <1>10, <2>1 DEF ValidateEnvelopeReader, HeaderOk
  <1>11. ASSUME HeaderLen + n <= k PROVE v = Truncated("Checksum")
    <2>1. ~Has(f, HeaderLen + n, ChecksumLen) /\ HeaderLen <= k
      BY <1>1, <1>3, <1>11, Lengths DEF Has
    <2> QED
      BY <1>5, <1>9, <1>11, <2>1 DEF ValidateEnvelopeReader, HeaderOk
  <1> QED
    BY <1>6, <1>7, <1>8, <1>10, <1>11 DEF n

(* A file that was extended has trailing data.                             *)
LEMMA ExtensionIsNamed ==
  ASSUME NEW d \in Domains, NEW p \in Seq(Bytes), Len(p) < Pow(LengthLen),
         NEW m \in Nat, Len(p) <= m,
         NEW f \in Seq(Bytes), Extended(f, EncodeEnvelope(d, p))
  PROVE  ValidateEnvelopeReader(f, d, m) = Failed("TrailingData")
  <1> DEFINE e == EncodeEnvelope(d, p)
             n == Len(p)
             k == HeaderLen + n + ChecksumLen
  <1>1. e \in Seq(Bytes) /\ Len(e) = k /\ n \in Nat /\ k \in Nat
    BY EncodedType, LenProperties, Lengths
  <1>2. PICK b \in Bytes : f = Append(e, b)
    BY DEF Extended
  <1>3. n <= m /\ ~TooLarge(n, m)
    BY <1>1 DEF TooLarge
  <1> HIDE DEF e, k
  <1>4. Len(f) = k + 1 /\ \A i \in 1..k : f[i] = e[i]
    BY <1>1, <1>2, AppendProperties
  <1>5. AgreeTo(f, e, k)
    BY <1>1, <1>4 DEF AgreeTo
  <1>6. HeaderLen <= k /\ HeaderLen + n <= k /\ k = HeaderLen + n + ChecksumLen
    BY <1>1, Lengths DEF k
  <1>7. /\ HeaderOk(f, d) /\ DeclaredIn(f) = n
        /\ Has(f, HeaderLen, n) /\ Has(f, HeaderLen + n, ChecksumLen)
    <2>1. /\ HeaderLen <= k => HeaderOk(f, d) /\ DeclaredIn(f) = n
          /\ HeaderLen + n <= k => Has(f, HeaderLen, n)
          /\ HeaderLen + n + ChecksumLen <= k => Has(f, HeaderLen + n, ChecksumLen)
      BY <1>1, <1>5, KeptHeader DEF e
    <2> QED
      BY <1>1, <1>6, <2>1
  <1>8. HasTrailing(f, HeaderLen + n + ChecksumLen)
    BY <1>1, <1>4, <1>6 DEF HasTrailing
  <1> HIDE DEF n
  <1> QED
    BY <1>3, <1>7, <1>8 DEF ValidateEnvelopeReader, HeaderOk

(* A changed byte changes the field that it lies in, there only.           *)
LEMMA ChangedField ==
  ASSUME NEW f \in Seq(Bytes), NEW e \in Seq(Bytes), NEW i \in Nat, ChangedAt(f, e, i),
         NEW at \in Nat, NEW n \in Nat, at + n <= Len(e), at < i, i <= at + n
  PROVE  LET a == Field(f, at, n)
             b == Field(e, at, n)
         IN /\ Has(f, at, n) /\ Has(e, at, n)
            /\ a \in Seq(Bytes) /\ Len(a) = n /\ b \in Seq(Bytes) /\ Len(b) = n
            /\ i - at \in 1..n /\ a[i - at] # b[i - at] /\ a # b
            /\ \A j \in 1..n : j # i - at => a[j] = b[j]
  <1> DEFINE a == Field(f, at, n)
             b == Field(e, at, n)
             k == i - at
  <1>1. Len(e) \in Nat /\ Len(f) = Len(e)
    BY LenProperties DEF ChangedAt
  <1>2. Has(f, at, n) /\ Has(e, at, n)
    BY <1>1 DEF Has
  <1>3. /\ a \in Seq(Bytes) /\ Len(a) = n /\ \A j \in 1..n : a[j] = f[at + j]
        /\ b \in Seq(Bytes) /\ Len(b) = n /\ \A j \in 1..n : b[j] = e[at + j]
    BY <1>2, FieldFacts
  <1>4. k \in 1..n /\ at + k = i
    OBVIOUS
  <1> HIDE DEF a, b
  <1>5. a[k] = f[i] /\ b[k] = e[i]
    BY <1>3, <1>4
  <1>6. a[k] # b[k]
    BY <1>5 DEF ChangedAt
  <1>7. ASSUME NEW j \in 1..n, j # k PROVE a[j] = b[j]
    <2>1. at + j \in 1..Len(e) /\ at + j # i
      BY <1>1, <1>4, <1>7
    <2>2. f[at + j] = e[at + j]
      BY <2>1 DEF ChangedAt
    <2> QED
      BY <1>3, <2>2
  <1> QED
    BY <1>2, <1>3, <1>4, <1>6, <1>7 DEF a, b

(* What lies before the changed byte, and after it, is as it was.          *)
LEMMA UnchangedParts ==
  ASSUME NEW f \in Seq(Bytes), NEW e \in Seq(Bytes), NEW i \in Nat, ChangedAt(f, e, i)
  PROVE  /\ i - 1 \in Nat /\ AgreeTo(f, e, i - 1)
         /\ \A at, n \in Nat : at + n <= Len(e) /\ (i <= at \/ at + n < i) =>
              Has(f, at, n) /\ Field(f, at, n) = Field(e, at, n)
  <1>1. Len(e) \in Nat /\ Len(f) = Len(e) /\ i \in 1..Len(e)
        /\ \A j \in 1..Len(e) : j # i => f[j] = e[j]
    BY LenProperties DEF ChangedAt
  <1>2. i - 1 \in Nat /\ AgreeTo(f, e, i - 1)
    BY <1>1 DEF AgreeTo
  <1>3. ASSUME NEW at \in Nat, NEW n \in Nat, at + n <= Len(e), i <= at \/ at + n < i
        PROVE  Has(f, at, n) /\ Field(f, at, n) = Field(e, at, n)
    <2>1. Has(f, at, n) /\ Has(e, at, n)
      BY <1>1, <1>3 DEF Has
    <2>2. ASSUME NEW j \in 1..n PROVE f[at + j] = e[at + j]
      <3>1. at + j \in 1..Len(e) /\ at + j # i
        BY <1>1, <1>3
      <3> QED
        BY <1>1, <3>1
    <2> QED
      BY <2>1, <2>2, SameField
  <1> QED
    BY <1>2, <1>3

(* A changed payload or checksum does not match.                           *)
LEMMA ChangedSum ==
  ASSUME NEW d \in Domains, NEW p \in Seq(Bytes), Len(p) < Pow(LengthLen),
         NEW f \in Seq(Bytes), NEW i \in Nat, ChangedAt(f, EncodeEnvelope(d, p), i),
         HeaderLen < i
  PROVE  LET n == Len(p) IN
         /\ HeaderOk(f, d) /\ DeclaredIn(f) = n
         /\ Has(f, HeaderLen, n) /\ Has(f, HeaderLen + n, ChecksumLen)
         /\ ~HasTrailing(f, HeaderLen + n + ChecksumLen)
         /\ FromBigEndian(Field(f, HeaderLen + n, ChecksumLen)) #
              Crc32cBuffers(Crc32c(Field(f, 0, HeaderLen)), Buffers(f, n))
  <1> DEFINE e == EncodeEnvelope(d, p)
             n == Len(p)
             H == HeaderLen
             E == HeaderLen + n
             q == Field(f, H, n)
             c == Field(f, E, ChecksumLen)
             sum == ChecksumOf(d, p)
             h == EnvelopeHeader(d, n)
  <1>1. /\ e \in Seq(Bytes) /\ Len(e) = E + ChecksumLen /\ n \in Nat
        /\ H \in Nat /\ E \in Nat /\ ChecksumLen \in Nat /\ E = H + n
    BY EncodedType, LenProperties, Lengths
  <1>2. Field(e, H, n) = p /\ Field(e, E, ChecksumLen) = ToBigEndian(sum, ChecksumLen)
    BY EncodedFields
  <1>3. sum \in Nat /\ sum < Pow(ChecksumLen)
    BY ChecksumType
  <1>4. sum = Crc32cAppend(Crc32c(h), p) /\ Crc32c(h) \in Nat
    <2>1. h \in Seq(Bytes)
      BY HeaderType, LenProperties
    <2> HIDE DEF h
    <2>2. Crc32c(h) \in Nat
      BY <2>1, ZeroSum, CrcType DEF Crc32c
    <2> QED
      BY <2>2 DEF ChecksumOf, h
  <1>5. ChangedAt(f, e, i) /\ H < i
    OBVIOUS
  <1>6. HeaderOk(f, d) /\ DeclaredIn(f) = n
    <2>1. i - 1 \in Nat /\ AgreeTo(f, e, i - 1)
      <3> HIDE DEF e
      <3> QED
        BY <1>1, <1>5, UnchangedParts
    <2> DEFINE k == i - 1
    <2>2. k \in Nat /\ AgreeTo(f, e, k) /\ HeaderLen <= k
      BY <1>1, <1>5, <2>1
    <2> HIDE DEF k
    <2> QED
      BY <2>2, KeptHeader
  <1> HIDE DEF e, n, E, H, sum
  <1>7. Len(f) = E + ChecksumLen /\ i <= E + ChecksumLen
    BY <1>1, <1>5 DEF ChangedAt
  <1>8. Has(f, H, n) /\ Has(f, E, ChecksumLen) /\ ~HasTrailing(f, E + ChecksumLen)
    BY <1>1, <1>7 DEF Has, HasTrailing
  <1>9. /\ q \in Seq(Bytes) /\ Len(q) = n
        /\ c \in Seq(Bytes) /\ Len(c) = ChecksumLen
    BY <1>1, <1>8, FieldFacts
  <1>10. Crc32cBuffers(Crc32c(Field(f, 0, HeaderLen)), Buffers(f, n)) =
           Crc32cAppend(Crc32c(h), q)
    <2>1. Crc32cBuffers(Crc32c(Field(f, 0, HeaderLen)), Buffers(f, DeclaredIn(f))) =
            ChecksumOf(d, Field(f, HeaderLen, DeclaredIn(f)))
      BY <1>6, <1>8, SameSums DEF H
    <2>2. ChecksumOf(d, q) = Crc32cAppend(Crc32c(h), q)
      BY <1>9 DEF ChecksumOf, h
    <2> QED
      BY <1>6, <2>1, <2>2 DEF H
  <1> HIDE DEF h
  <1>11. CASE i <= E
    <2>1. /\ i - H \in 1..n /\ q[i - H] # p[i - H]
          /\ \A j \in 1..n : j # i - H => q[j] = p[j]
      <3>1. /\ e \in Seq(Bytes) /\ H \in Nat /\ n \in Nat /\ ChangedAt(f, e, i)
            /\ H + n <= Len(e) /\ H < i /\ i <= H + n
        BY <1>1, <1>5, <1>11
      <3> DEFINE a == Field(f, H, n)
                 b == Field(e, H, n)
      <3>2. /\ i - H \in 1..n /\ a[i - H] # b[i - H]
            /\ \A j \in 1..n : j # i - H => a[j] = b[j]
        BY <3>1, ChangedField
      <3>3. b = p /\ a = q
        BY <1>2
      <3> HIDE DEF a, b, q
      <3> QED
        BY <3>2, <3>3
    <2> DEFINE j == i - H
    <2>2. j \in 1..n /\ q[j] # p[j] /\ \A x \in 1..n : x # j => q[x] = p[x]
      BY <2>1
    <2>3. Len(p) = n
      BY DEF n
    <2> HIDE DEF j, q
    <2>4. Crc32cAppend(Crc32c(h), q) # Crc32cAppend(Crc32c(h), p)
      <3> DEFINE s == Crc32c(h)
      <3>1. s \in Nat /\ q \in Seq(Bytes) /\ Len(q) = Len(p) /\ j \in 1..Len(q)
            /\ q[j] # p[j] /\ \A x \in 1..Len(q) : x # j => q[x] = p[x]
        BY <1>4, <1>9, <2>2, <2>3
      <3> HIDE DEF s
      <3>2. Crc32cAppend(s, q) # Crc32cAppend(s, p)
        BY <3>1, ChecksumNotices
      <3> QED
        BY <3>2 DEF s
    <2>5. c = ToBigEndian(sum, ChecksumLen)
      <3>1. E + ChecksumLen <= Len(e) /\ i <= E
        BY <1>1, <1>11
      <3>2. Field(f, E, ChecksumLen) = Field(e, E, ChecksumLen)
        BY <1>1, <1>5, <3>1, UnchangedParts
      <3> QED
        BY <1>2, <3>2
    <2>6. FromBigEndian(c) = sum
      BY <1>1, <1>3, <2>5, FromTo
    <2>7. FromBigEndian(c) # Crc32cAppend(Crc32c(h), q)
      BY <1>4, <2>4, <2>6
    <2> QED
      BY <1>6, <1>8, <1>10, <2>7 DEF E, H, n, q
  <1>12. CASE E < i
    <2>1. q = p
      <3>1. H + n <= Len(e) /\ H + n < i
        BY <1>1, <1>12
      <3>2. Field(f, H, n) = Field(e, H, n)
        BY <1>1, <1>5, <3>1, UnchangedParts
      <3> QED
        BY <1>2, <3>2
    <2>2. c # ToBigEndian(sum, ChecksumLen)
      <3>1. E + ChecksumLen <= Len(e) /\ i <= E + ChecksumLen /\ E < i
        BY <1>1, <1>7, <1>12
      <3>2. Field(f, E, ChecksumLen) # Field(e, E, ChecksumLen)
        BY <1>1, <1>5, <3>1, ChangedField
      <3> QED
        BY <1>2, <3>2
    <2>3. FromBigEndian(c) # sum
      <3> HIDE DEF c
      <3> QED
        BY <1>3, <1>9, <2>2, FieldValue
    <2>4. FromBigEndian(c) # Crc32cAppend(Crc32c(h), q)
      BY <1>4, <2>1, <2>3
    <2> QED
      BY <1>6, <1>8, <1>10, <2>4 DEF E, H, n
  <1> QED
    BY <1>1, <1>11, <1>12

(* A changed byte is told by the check of the section that it lies in.     *)
LEMMA ChangeIsNamed ==
  ASSUME NEW d \in Domains, NEW p \in Seq(Bytes), Len(p) < Pow(LengthLen),
         NEW m \in Nat, Len(p) <= m,
         NEW f \in Seq(Bytes), NEW i \in Nat, ChangedAt(f, EncodeEnvelope(d, p), i)
  PROVE  LET v == ValidateEnvelopeReader(f, d, m) IN
         /\ i <= VersionAt => v = Failed("InvalidEnvelopeDomain")
         /\ VersionAt < i /\ i <= LengthAt => v = Failed("UnsupportedEnvelopeVersion")
         /\ LengthAt < i /\ i <= HeaderLen =>
              v.kind \in {"BlobTooLarge", "TruncatedEnvelope", "TrailingData"}
         /\ HeaderLen < i => v = Failed("ChecksumMismatch")
  <1> DEFINE e == EncodeEnvelope(d, p)
             n == Len(p)
             v == ValidateEnvelopeReader(f, d, m)
             k == i - 1
  <1>1. /\ e \in Seq(Bytes) /\ Len(e) = HeaderLen + n + ChecksumLen /\ n \in Nat
        /\ Len(f) = Len(e) /\ ChangedAt(f, e, i) /\ i \in 1..Len(e)
    BY EncodedType, LenProperties DEF ChangedAt
  <1>2. /\ Field(e, 0, DomainTagLen) = d
        /\ Field(e, VersionAt, VersionLen) = ToBigEndian(Version, VersionLen)
        /\ Field(e, LengthAt, LengthLen) = ToBigEndian(n, LengthLen)
    BY EncodedFields
  <1>3. k \in Nat /\ AgreeTo(f, e, k)
    <2> HIDE DEF e
    <2> QED
      BY <1>1, UnchangedParts
  <1>4. /\ DomainTagLen <= k => Has(f, 0, DomainTagLen) /\ Field(f, 0, DomainTagLen) = d
        /\ LengthAt <= k => /\ Has(f, VersionAt, VersionLen)
                            /\ FromBigEndian(Field(f, VersionAt, VersionLen)) = Version
    <2> HIDE DEF k
    <2> QED
      BY <1>3, KeptHeader
  <1>5. n <= m /\ ~TooLarge(n, m)
    BY <1>1 DEF TooLarge
  <1> HIDE DEF e, n
  <1>6. /\ DomainTagLen <= Len(e) /\ VersionAt + VersionLen <= Len(e)
        /\ LengthAt + LengthLen <= Len(e)
    BY <1>1, Lengths
  <1>7. ASSUME i <= VersionAt PROVE v = Failed("InvalidEnvelopeDomain")
    <2>1. 0 + DomainTagLen <= Len(e) /\ 0 < i /\ i <= 0 + DomainTagLen
      BY <1>1, <1>6, <1>7, Lengths
    <2>2. Has(f, 0, DomainTagLen) /\ Field(f, 0, DomainTagLen) # Field(e, 0, DomainTagLen)
      BY <1>1, <2>1, Lengths, ChangedField
    <2> QED
      BY <1>2, <2>2 DEF ValidateEnvelopeReader
  <1>8. ASSUME VersionAt < i, i <= LengthAt PROVE v = Failed("UnsupportedEnvelopeVersion")
    <2> DEFINE a == Field(f, VersionAt, VersionLen)
    <2>1. VersionAt < i /\ i <= VersionAt + VersionLen /\ DomainTagLen <= k
      BY <1>1, <1>8, Lengths
    <2>2. /\ Has(f, VersionAt, VersionLen) /\ a \in Seq(Bytes) /\ Len(a) = VersionLen
          /\ a # Field(e, VersionAt, VersionLen)
      BY <1>1, <1>6, <2>1, Lengths, ChangedField
    <2>3. FromBigEndian(a) # Version
      <3> HIDE DEF a
      <3> QED
        BY <1>2, <2>2, Lengths, FieldValue
    <2> QED
      BY <1>4, <2>1, <2>2, <2>3 DEF ValidateEnvelopeReader
  <1>9. ASSUME LengthAt < i, i <= HeaderLen
        PROVE  v.kind \in {"BlobTooLarge", "TruncatedEnvelope", "TrailingData"}
    <2> DEFINE l == DeclaredIn(f)
    <2>1. /\ LengthAt < i /\ i <= LengthAt + LengthLen /\ DomainTagLen <= k /\ LengthAt <= k
      BY <1>1, <1>9, Lengths
    <2>2. /\ Has(f, LengthAt, LengthLen)
          /\ Field(f, LengthAt, LengthLen) # Field(e, LengthAt, LengthLen)
      BY <1>1, <1>6, <2>1, Lengths, ChangedField
    <2>3. HeaderOk(f, d)
      BY <1>4, <2>1, <2>2 DEF HeaderOk
    <2>4. l \in Nat /\ Field(f, LengthAt, LengthLen) = ToBigEndian(l, LengthLen)
      BY <2>2, DeclaredType
    <2>5. l # n
      BY <1>2, <2>2, <2>4
    <2> HIDE DEF l
    <2>6. CASE TooLarge(l, m)
      <3>1. v = Failed("BlobTooLarge")
        BY <2>3, <2>6 DEF ValidateEnvelopeReader, HeaderOk, l
      <3> QED
        BY <3>1, ErrorKinds
    <2>7. CASE ~TooLarge(l, m) /\ l > n
      <3>1. ~Has(f, HeaderLen + l, ChecksumLen)
        BY <1>1, <2>4, <2>7, Lengths DEF Has
      <3>2. v = Truncated("Payload") \/ v = Truncated("Checksum")
        BY <2>3, <2>7, <3>1 DEF ValidateEnvelopeReader, HeaderOk, l
      <3> QED
        BY <3>2, ErrorKinds
    <2>8. CASE ~TooLarge(l, m) /\ l < n
      <3>1. /\ Has(f, HeaderLen, l) /\ Has(f, HeaderLen + l, ChecksumLen)
            /\ HasTrailing(f, HeaderLen + l + ChecksumLen)
        BY <1>1, <2>4, <2>8, Lengths DEF Has, HasTrailing
      <3>2. v = Failed("TrailingData")
        BY <2>3, <2>8, <3>1 DEF ValidateEnvelopeReader, HeaderOk, l
      <3> QED
        BY <3>2, ErrorKinds
    <2> QED
      BY <1>1, <2>4, <2>5, <2>6, <2>7, <2>8
  <1>10. ASSUME HeaderLen < i PROVE v = Failed("ChecksumMismatch")
    <2>1. /\ HeaderOk(f, d) /\ DeclaredIn(f) = n
          /\ Has(f, HeaderLen, n) /\ Has(f, HeaderLen + n, ChecksumLen)
          /\ ~HasTrailing(f, HeaderLen + n + ChecksumLen)
          /\ FromBigEndian(Field(f, HeaderLen + n, ChecksumLen)) #
               Crc32cBuffers(Crc32c(Field(f, 0, HeaderLen)), Buffers(f, n))
      BY <1>10, ChangedSum DEF n
    <2> QED
      BY <1>5, <2>1 DEF ValidateEnvelopeReader, HeaderOk, Mismatch
  <1> QED
    BY <1>7, <1>8, <1>9, <1>10

(* A single damage is always noticed by the store that saved the blob, and *)
(* the error tells the section where it is: a changed byte, a file that is *)
(* cut off at any place, a byte too many.                                  *)
THEOREM OneDamageIsNamedCorrect == Spec => []OneDamageIsNamed
  <1>1. EnvInv => OneDamageIsNamed
    <2> SUFFICES ASSUME EnvInv, Saved, Len(harm) = 1, domain = savedFor,
                        Len(payload) <= maximum
                 PROVE  OneDamageIsNamed
      BY DEF OneDamageIsNamed
    <2> DEFINE h == harm[1]
               v == Validated
               n == Len(payload)
    <2>1. /\ domain \in Domains /\ payload \in Seq(Bytes) /\ maximum \in Nat
          /\ file \in Seq(Bytes) /\ n \in Nat /\ n < Pow(LengthLen)
      BY EnvelopeAssumption, LenProperties DEF EnvInv, TypeOK, SavedInv, Saved, Bytes
    <2>2. Damaged(file, EncodeEnvelope(domain, payload), h)
      BY DEF EnvInv, SavedInv, Saved, Original
    <2>3. EncodeEnvelope(domain, payload) \in Seq(Bytes)
          /\ Len(EncodeEnvelope(domain, payload)) \in Nat
      BY <2>1, EncodedType, LenProperties
    <2> DEFINE e == EncodeEnvelope(domain, payload)
    <2> HIDE DEF h
    <2>4. CASE h.kind = "changed"
      <3> DEFINE i == h.at
      <3>1. ChangedAt(file, e, i)
        BY <2>2, <2>4 DEF Damaged
      <3>2. i \in Nat /\ i >= 1
        BY <2>3, <3>1 DEF ChangedAt
      <3> HIDE DEF i
      <3>3. /\ i <= VersionAt => v = Failed("InvalidEnvelopeDomain")
            /\ VersionAt < i /\ i <= LengthAt => v = Failed("UnsupportedEnvelopeVersion")
            /\ LengthAt < i /\ i <= HeaderLen =>
                 v.kind \in {"BlobTooLarge", "TruncatedEnvelope", "TrailingData"}
            /\ HeaderLen < i => v = Failed("ChecksumMismatch")
        BY <2>1, <3>1, <3>2, ChangeIsNamed DEF Validated
      <3> DEFINE where == SectionAt(i - 1)
      <3>4. CASE i <= VersionAt
        <4>1. where = "Magic"
          BY <2>1, <3>2, <3>4, Lengths DEF SectionAt
        <4>2. v = Failed("InvalidEnvelopeDomain")
          BY <3>3, <3>4
        <4> QED
          BY <2>4, <4>1, <4>2 DEF OneDamageIsNamed, h, i
      <3>5. CASE VersionAt < i /\ i <= LengthAt
        <4>1. where = "Version"
          BY <2>1, <3>2, <3>5, Lengths DEF SectionAt
        <4>2. v = Failed("UnsupportedEnvelopeVersion")
          BY <3>3, <3>5
        <4> QED
          BY <2>4, <4>1, <4>2 DEF OneDamageIsNamed, h, i
      <3>6. CASE LengthAt < i /\ i <= HeaderLen
        <4>1. where = "PayloadLength"
          BY <2>1, <3>2, <3>6, Lengths DEF SectionAt
        <4>2. v.kind \in {"BlobTooLarge", "TruncatedEnvelope", "TrailingData"}
          BY <3>3, <3>6
        <4> QED
          BY <2>4, <4>1, <4>2 DEF OneDamageIsNamed, h, i
      <3>7. CASE HeaderLen < i
        <4>1. where = "Payload" \/ where = "Checksum"
          BY <2>1, <3>2, <3>7, Lengths DEF SectionAt
        <4>2. v = Failed("ChecksumMismatch")
          BY <3>3, <3>7
        <4> QED
          BY <2>4, <4>1, <4>2 DEF OneDamageIsNamed, h, i
      <3> QED
        BY <3>2, <3>4, <3>5, <3>6, <3>7, Lengths
    <2>5. CASE h.kind = "cut"
      <3> DEFINE k == h.at
      <3>1. CutAt(file, e, k)
        BY <2>2, <2>5 DEF Damaged
      <3>2. k \in Nat
        BY <2>3, <3>1 DEF CutAt
      <3> HIDE DEF k
      <3>3. /\ k < VersionAt => v = Truncated("Magic")
            /\ VersionAt <= k /\ k < LengthAt => v = Truncated("Version")
            /\ LengthAt <= k /\ k < HeaderLen => v = Truncated("PayloadLength")
            /\ HeaderLen <= k /\ k < HeaderLen + n => v = Truncated("Payload")
            /\ HeaderLen + n <= k => v = Truncated("Checksum")
        BY <2>1, <3>1, <3>2, CutIsNamed DEF Validated
      <3>4. v = Truncated(SectionAt(k))
        <4> HIDE DEF v
        <4>1. CASE k < VersionAt
          BY <2>1, <3>2, <3>3, <4>1, Lengths DEF SectionAt
        <4>2. CASE VersionAt <= k /\ k < LengthAt
          BY <2>1, <3>2, <3>3, <4>2, Lengths DEF SectionAt
        <4>3. CASE LengthAt <= k /\ k < HeaderLen
          BY <2>1, <3>2, <3>3, <4>3, Lengths DEF SectionAt
        <4>4. CASE HeaderLen <= k /\ k < HeaderLen + n
          BY <2>1, <3>2, <3>3, <4>4, Lengths DEF SectionAt
        <4>5. CASE HeaderLen + n <= k
          BY <2>1, <3>2, <3>3, <4>5, Lengths DEF SectionAt
        <4> QED
          BY <2>1, <3>2, <4>1, <4>2, <4>3, <4>4, <4>5, Lengths
      <3> QED
        BY <2>5, <3>4 DEF OneDamageIsNamed, h, k
    <2>6. CASE h.kind = "extended"
      <3>1. Extended(file, e)
        BY <2>2, <2>6 DEF Damaged
      <3>2. v = Failed("TrailingData")
        BY <2>1, <3>1, ExtensionIsNamed DEF Validated
      <3> QED
        BY <2>6, <3>2 DEF OneDamageIsNamed, h
    <2> QED
      BY <2>2, <2>4, <2>5, <2>6 DEF Damaged
  <1> QED
    BY <1>1, EnvelopeInvariant, PTL
=============================================================================
