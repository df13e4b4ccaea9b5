--------------------- MODULE PasswordTyperConfigurator_proofs ---------------------
(***************************************************************************)
(* What the script sends, for every payload and every width of a byte: the *)
(* commands of a run are those of the start, then two for every bit, and   *)
(* each of them takes the LEDs to the next mark of the frame or leaves     *)
(* them at the one they are.                                               *)
(***************************************************************************)
EXTENDS PasswordTyperConfigurator, SequenceTheorems, WellFoundedInduction, TLAPS

Byte == [0 .. BITS_PER_BYTE - 1 -> BOOLEAN]

(***************************************************************************)
(* Numbers and sequences.                                                  *)
(***************************************************************************)

\* A set of numbers that is not empty has a least one.
LEMMA LeastNumber ==
  ASSUME NEW T \in SUBSET Nat, T # {}
  PROVE  \E x \in T : \A y \in T : x <= y
<1>1. PICK x \in T : \A y \in T : <<y, x>> \notin OpToRel(<, Nat)
  BY NatLessThanWellFounded, WFMin
<1>2. \A y \in T : ~(y < x)
  BY <1>1 DEF OpToRel
<1>3. \A y \in T : x <= y
  BY <1>2
<1> QED  BY <1>3

\* Induction, for a set of numbers.
LEMMA SetInduction ==
  ASSUME NEW P, 0 \in P, \A n \in Nat : n \in P => n + 1 \in P
  PROVE  Nat \subseteq P
<1> SUFFICES ASSUME Nat \ P # {} PROVE FALSE
  OBVIOUS
<1>1. PICK x \in Nat \ P : \A y \in Nat \ P : x <= y
  BY LeastNumber
<1>2. x \in Nat /\ x \notin P /\ x # 0
  OBVIOUS
<1>3. x - 1 \in Nat /\ ~(x <= x - 1) /\ (x - 1) + 1 = x
  BY <1>2
<1>4. x - 1 \in P
  BY <1>1, <1>3
<1> QED  BY <1>2, <1>3, <1>4

\* ... and for the places of a sequence.
LEMMA IntervalInduction ==
  ASSUME NEW n \in Nat, NEW P, 1 \in P, \A m \in 1 .. n - 1 : m \in P => m + 1 \in P
  PROVE  1 .. n \subseteq P
<1> DEFINE Q == {m \in Nat : m < n => m + 1 \in P}
<1>1. 0 \in Q
  OBVIOUS
<1>2. \A m \in Nat : m \in Q => m + 1 \in Q
  <2> SUFFICES ASSUME NEW m \in Nat, m \in Q, m + 1 < n PROVE (m + 1) + 1 \in P
    OBVIOUS
  <2>1. m + 1 \in P /\ m + 1 \in 1 .. n - 1
    OBVIOUS
  <2> QED  BY <2>1
<1>3. Nat \subseteq Q
  <2> HIDE DEF Q
  <2> QED  BY <1>1, <1>2, SetInduction
<1> SUFFICES ASSUME NEW i \in 1 .. n PROVE i \in P
  OBVIOUS
<1>4. i - 1 \in Nat /\ i - 1 < n /\ (i - 1) + 1 = i
  OBVIOUS
<1> QED  BY <1>3, <1>4

\* Sequences are joined from the left, one after the other: by induction there is a
\* function that does it, and its values are sequences.
LEMMA FlattenParts ==
  ASSUME NEW S, NEW seqs \in Seq(Seq(S)), seqs # <<>>
  PROVE  \E flat : /\ FlattenSeq(seqs) = flat[Len(seqs)]
                   /\ flat[1] = seqs[1]
                   /\ \A i \in 2 .. Len(seqs) : flat[i] = flat[i - 1] \o seqs[i]
                   /\ \A i \in 1 .. Len(seqs) : flat[i] \in Seq(S)
<1> DEFINE n == Len(seqs)
           Part(f, i) == IF i = 1 THEN seqs[i] ELSE f[i - 1] \o seqs[i]
           Flattens(f, m) == f = [i \in 1 .. m |-> Part(f, i)]
<1>1. n \in Nat /\ n # 0 /\ \A i \in 1 .. n : seqs[i] \in Seq(S)
  BY LenProperties, ElementOfSeq, EmptySeq
<1>2. \E f : Flattens(f, n)
  <2> DEFINE P == {m \in Nat : \E f : Flattens(f, m)}
  <2>1. 0 \in P
    <3> DEFINE f == [i \in 1 .. 0 |-> seqs]
    <3>1. f = [i \in 1 .. 0 |-> Part(f, i)]
      OBVIOUS
    <3> HIDE DEF f
    <3> QED  BY <3>1
  <2>2. \A m \in Nat : m \in P => m + 1 \in P
    <3> HIDE DEF Flattens
    <3> SUFFICES ASSUME NEW m \in Nat, m \in P PROVE \E g : Flattens(g, m + 1)
      OBVIOUS
    <3>1. PICK f : Flattens(f, m)
      OBVIOUS
    <3> USE DEF Flattens
    <3> DEFINE g == [i \in 1 .. m + 1 |-> IF i = m + 1 THEN Part(f, i) ELSE f[i]]
    <3>2. \A i \in 1 .. m + 1 : g[i] = Part(g, i)
      <4> SUFFICES ASSUME NEW i \in 1 .. m + 1 PROVE g[i] = Part(g, i)
        OBVIOUS
      <4>1. i # 1 => g[i - 1] = f[i - 1]
        OBVIOUS
      <4>2. g[i] = Part(f, i)
        <5>1. CASE i = m + 1  BY <5>1
        <5>2. CASE i # m + 1
          <6>1. i \in 1 .. m
            BY <5>2
          <6>2. f[i] = Part(f, i)
            <7> HIDE DEF Part
            <7> QED  BY <3>1, <6>1
          <6> QED  BY <5>2, <6>2
        <5> QED  BY <5>1, <5>2
      <4> HIDE DEF g
      <4> QED  BY <4>1, <4>2
    <3>3. g = [i \in 1 .. m + 1 |-> g[i]]
      OBVIOUS
    <3> HIDE DEF g, Part
    <3>4. Flattens(g, m + 1)
      BY <3>2, <3>3
    <3> QED  BY <3>4
  <2> HIDE DEF P
  <2>3. n \in P
    BY <1>1, <2>1, <2>2, SetInduction
  <2> QED  BY <2>3 DEF P
<1> DEFINE flat == CHOOSE f : Flattens(f, n)
<1>3. Flattens(flat, n)
  <2> HIDE DEF Flattens
  <2> QED  BY <1>2
<1>4. FlattenSeq(seqs) = flat[n]
  BY <1>1 DEF FlattenSeq
<1> HIDE DEF flat
<1>5. \A i \in 1 .. n : flat[i] = Part(flat, i)
  <2> HIDE DEF Part
  <2> QED  BY <1>3
<1>6. flat[1] = seqs[1] /\ \A i \in 2 .. n : flat[i] = flat[i - 1] \o seqs[i]
  <2>1. 1 \in 1 .. n /\ \A i \in 2 .. n : i \in 1 .. n /\ i # 1
    BY <1>1
  <2> HIDE DEF n
  <2> QED  BY <1>5, <2>1
<1> HIDE DEF Part, Flattens
<1>7. \A i \in 1 .. n : flat[i] \in Seq(S)
  <2> DEFINE P == {m \in 1 .. n : flat[m] \in Seq(S)}
  <2>1. 1 \in P
    BY <1>1, <1>6
  <2>2. \A m \in 1 .. n - 1 : m \in P => m + 1 \in P
    <3> SUFFICES ASSUME NEW m \in 1 .. n - 1, m \in P
                 PROVE  m + 1 \in 1 .. n /\ flat[m + 1] \in Seq(S)
      <4> HIDE DEF n
      <4> QED  OBVIOUS
    <3> DEFINE k == m + 1
    <3>1. k \in 2 .. n /\ k - 1 = m /\ k \in 1 .. n
      BY <1>1
    <3> HIDE DEF k
    <3>2. flat[k] = flat[m] \o seqs[k] /\ seqs[k] \in Seq(S)
      BY <1>1, <1>6, <3>1
    <3> QED  BY <3>1, <3>2, ConcatProperties DEF k
  <2>3. 1 .. n \subseteq P
    <3> HIDE DEF P
    <3> QED  BY <1>1, <2>1, <2>2, IntervalInduction
  <2> QED  BY <2>3
<1> QED  BY <1>4, <1>6, <1>7

\* Sequences joined are a sequence of the same values.
LEMMA Flattened ==
  ASSUME NEW S, NEW seqs \in Seq(Seq(S))
  PROVE  FlattenSeq(seqs) \in Seq(S)
<1>1. CASE seqs = <<>>
  BY <1>1, EmptySeq DEF FlattenSeq
<1>2. CASE seqs # <<>>
  <2>1. Len(seqs) \in 1 .. Len(seqs)
    BY <1>2, EmptySeq
  <2> QED  BY <1>2, <2>1, FlattenParts
<1> QED  BY <1>1, <1>2

\* The first of them comes first.
LEMMA FlattenFirst ==
  ASSUME NEW S, NEW seqs \in Seq(Seq(S)), seqs # <<>>
  PROVE  FlattenSeq(seqs) = seqs[1] \o FlattenSeq(Tail(seqs))
<1> DEFINE n == Len(seqs)
           rest == Tail(seqs)
<1>1. /\ n \in Nat \ {0} /\ rest \in Seq(Seq(S)) /\ Len(rest) = n - 1
      /\ \A i \in 1 .. n - 1 : rest[i] = seqs[i + 1]
      /\ \A i \in 1 .. n : seqs[i] \in Seq(S)
  BY EmptySeq, HeadTailProperties, ElementOfSeq
<1>2. PICK f : /\ FlattenSeq(seqs) = f[n] /\ f[1] = seqs[1]
               /\ \A i \in 2 .. n : f[i] = f[i - 1] \o seqs[i]
               /\ \A i \in 1 .. n : f[i] \in Seq(S)
  BY FlattenParts
<1> HIDE DEF rest
<1>3. CASE rest = <<>>
  <2>1. n = 1 /\ FlattenSeq(rest) = <<>>
    BY <1>1, <1>3, EmptySeq DEF FlattenSeq
  <2>2. seqs[1] \o <<>> = seqs[1]
    BY <1>1, ConcatEmptySeq
  <2> QED  BY <1>2, <2>1, <2>2 DEF rest
<1>4. CASE rest # <<>>
  <2> DEFINE m == n - 1
  <2>1. m \in Nat \ {0} /\ Len(rest) = m /\ n = m + 1
    <3>1. Len(rest) \in Nat \ {0}
      BY <1>1, <1>4, EmptySeq
    <3> HIDE DEF n
    <3> QED  BY <1>1, <3>1
  <2> HIDE DEF m, n
  <2>2. PICK g : /\ FlattenSeq(rest) = g[m] /\ g[1] = rest[1]
                 /\ \A i \in 2 .. m : g[i] = g[i - 1] \o rest[i]
                 /\ \A i \in 1 .. m : g[i] \in Seq(S)
    BY <1>1, <1>4, <2>1, FlattenParts
  <2> DEFINE P == {i \in 1 .. m : f[i + 1] = seqs[1] \o g[i]}
  <2>3. 1 \in P
    <3>1. 2 \in 2 .. n /\ 2 - 1 = 1 /\ 1 \in 1 .. n - 1 /\ 1 + 1 = 2
      BY <2>1
    <3>2. f[2] = f[1] \o seqs[2] /\ rest[1] = seqs[2]
      BY <1>1, <1>2, <3>1
    <3>3. f[2] = seqs[1] \o g[1]
      BY <1>2, <2>2, <3>2
    <3>4. \A i \in 1 .. m : i = 1 => f[i + 1] = seqs[1] \o g[i]
      <4> SUFFICES ASSUME NEW i \in 1 .. m, i = 1 PROVE f[i + 1] = seqs[1] \o g[i]
        OBVIOUS
      <4>1. i + 1 = 2
        OBVIOUS
      <4> QED  BY <3>3, <4>1
    <3>5. 1 \in 1 .. m
      BY <2>1
    <3> QED  BY <3>4, <3>5
  <2>4. \A i \in 1 .. m - 1 : i \in P => i + 1 \in P
    <3> SUFFICES ASSUME NEW i \in 1 .. m - 1, f[i + 1] = seqs[1] \o g[i]
                 PROVE  i + 1 \in 1 .. m /\ f[(i + 1) + 1] = seqs[1] \o g[i + 1]
      OBVIOUS
    <3> DEFINE k == i + 1
               l == k + 1
    <3>1. k \in 2 .. m /\ k \in 1 .. m /\ k - 1 = i /\ i \in 1 .. m /\ k \in 1 .. n - 1
          /\ l \in 2 .. n /\ l \in 1 .. n /\ l - 1 = k
      BY <2>1
    <3>2. rest[k] = seqs[l] /\ seqs[1] \in Seq(S) /\ seqs[l] \in Seq(S)
      BY <1>1, <2>1, <3>1
    <3> HIDE DEF k, l
    <3>3. f[l] = f[k] \o seqs[l] /\ g[k] = g[i] \o seqs[l] /\ g[i] \in Seq(S)
      BY <1>2, <2>2, <3>1, <3>2
    <3>4. (seqs[1] \o g[i]) \o seqs[l] = seqs[1] \o (g[i] \o seqs[l])
      <4> DEFINE a == seqs[1]
                 b == g[i]
                 c == seqs[l]
      <4>1. a \in Seq(S) /\ b \in Seq(S) /\ c \in Seq(S)
        BY <3>2, <3>3
      <4> HIDE DEF a, b, c
      <4>2. (a \o b) \o c = a \o (b \o c)
        BY ONLY <4>1, ConcatAssociative
      <4> QED  BY <4>2 DEF a, b, c
    <3>5. f[l] = seqs[1] \o g[k]
      BY <3>3, <3>4 DEF k
    <3> QED  BY <3>1, <3>5 DEF k, l
  <2>5. 1 .. m \subseteq P
    <3> HIDE DEF P
    <3> QED  BY <2>1, <2>3, <2>4, IntervalInduction
  <2>6. m \in P
    <3> HIDE DEF P
    <3> QED  BY <2>1, <2>5
  <2> QED  BY <1>2, <2>1, <2>2, <2>6 DEF rest
<1> QED  BY <1>3, <1>4

(***************************************************************************)
(* The script.                                                             *)
(***************************************************************************)
Command == [op : {"on", "off", "toggle", "sleep"}, led : LEDs]

\* Every command helper gives a sequence of commands.
LEMMA CommandTypes ==
  /\ "clock" \in LEDs /\ "data" \in LEDs /\ "info" \in LEDs
  /\ \A led \in LEDs : \A on : SetLed(led, on) \in Seq(Command)
  /\ \A led \in LEDs : ToggleLed(led) \in Seq(Command)
  /\ SyncSleep \in Seq(Command)
  /\ \A s, t \in Seq(Command) : s \o t \in Seq(Command)
  /\ <<>> \in Seq(Command)
<1>1. \A led \in LEDs : \A on : SetLed(led, on) \in Seq(Command)
  BY DEF SetLed, Command
<1>2. \A led \in LEDs : ToggleLed(led) \in Seq(Command)
  BY DEF ToggleLed, Command
<1>3. SyncSleep \in Seq(Command)
  BY DEF SyncSleep, Command, LEDs
<1>4. "clock" \in LEDs /\ "data" \in LEDs /\ "info" \in LEDs
  BY DEF LEDs
<1>5. \A s, t \in Seq(Command) : s \o t \in Seq(Command)
  BY ConcatProperties
<1> QED  BY <1>1, <1>2, <1>3, <1>4, <1>5, EmptySeq

\* Sequences joined can be regrouped.
Join(s, t) == s \o t

\* ... however they were grouped.
LEMMA Regroup ==
  ASSUME NEW S, NEW r \in Seq(S), NEW s \in Seq(S), NEW t \in Seq(S)
  PROVE  Join(r, s) \in Seq(S) /\ Join(Join(r, s), t) = Join(r, Join(s, t))
<1>1. r \o s \in Seq(S)
  BY ConcatProperties
<1> QED  BY <1>1, ConcatAssociative DEF Join

\* The bits of a byte from the j-th on.
BitParts(byte, j) == [i \in 1 .. BITS_PER_BYTE - j |-> SendBit(byte[j + i - 1])]
BitsFrom(byte, j) == FlattenSeq(BitParts(byte, j))

\* Each part is a sequence of commands, one part for each bit left.
LEMMA BitPartsType ==
  ASSUME NEW byte, NEW j \in 0 .. BITS_PER_BYTE
  PROVE  BitParts(byte, j) \in Seq(Seq(Command)) /\ Len(BitParts(byte, j)) = BITS_PER_BYTE - j
<1>1. \A bit : SendBit(bit) \in Seq(Command)
  BY CommandTypes DEF SendBit
<1> DEFINE n == BITS_PER_BYTE - j
<1>2. n \in Nat
  BY ScriptAssumption
<1>3. BitParts(byte, j) \in [1 .. n -> Seq(Command)]
  BY <1>1 DEF BitParts
<1> HIDE DEF n
<1>4. BitParts(byte, j) \in Seq(Seq(Command)) /\ Len(BitParts(byte, j)) = n
  BY <1>2, <1>3
<1> QED  BY <1>4 DEF n

\* Bit j comes first, and then the bits from the next one on.
LEMMA BitsFirst ==
  ASSUME NEW byte, NEW j \in 0 .. BITS_PER_BYTE - 1
  PROVE  BitsFrom(byte, j) = SendBit(byte[j]) \o BitsFrom(byte, j + 1)
<1> DEFINE parts == BitParts(byte, j)
           rest == BitParts(byte, j + 1)
<1>1. /\ BITS_PER_BYTE \in Nat /\ j \in 0 .. BITS_PER_BYTE /\ j + 1 \in 0 .. BITS_PER_BYTE
  BY ScriptAssumption
<1>2. /\ parts \in Seq(Seq(Command)) /\ Len(parts) = BITS_PER_BYTE - j
      /\ rest \in Seq(Seq(Command)) /\ Len(rest) = BITS_PER_BYTE - (j + 1)
  BY <1>1, BitPartsType
<1>3. parts[1] = SendBit(byte[j])
  <2>1. 1 \in 1 .. BITS_PER_BYTE - j /\ j + 1 - 1 = j
    BY <1>1
  <2>2. parts[1] = SendBit(byte[j + 1 - 1])
    BY <2>1 DEF BitParts
  <2> QED  BY <2>1, <2>2
<1>4. \A i \in 1 .. Len(rest) : rest[i] = parts[i + 1]
  <2> SUFFICES ASSUME NEW i \in 1 .. Len(rest) PROVE rest[i] = parts[i + 1]
    OBVIOUS
  <2> DEFINE k == i + 1
  <2>1. /\ i \in 1 .. BITS_PER_BYTE - (j + 1) /\ k \in 1 .. BITS_PER_BYTE - j
        /\ (j + 1) + i - 1 = j + k - 1
    BY <1>1, <1>2
  <2> HIDE DEF k
  <2>2. rest[i] = SendBit(byte[(j + 1) + i - 1]) /\ parts[k] = SendBit(byte[j + k - 1])
    BY <2>1 DEF BitParts
  <2> QED  BY <2>1, <2>2 DEF k
<1> HIDE DEF parts, rest
<1>5. parts # <<>>
  <2>1. BITS_PER_BYTE - j # 0
    BY <1>1
  <2> QED  BY <1>2, <2>1, EmptySeq
<1>6. Tail(parts) = rest
  <2>1. /\ Tail(parts) \in Seq(Seq(Command)) /\ Len(Tail(parts)) = Len(parts) - 1
        /\ \A i \in 1 .. Len(Tail(parts)) : Tail(parts)[i] = parts[i + 1]
    BY <1>2, <1>5, HeadTailProperties
  <2>2. Len(Tail(parts)) = Len(rest)
    BY <1>1, <1>2, <2>1
  <2> QED  BY <1>2, <1>4, <2>1, <2>2, SeqEqual
<1>7. FlattenSeq(parts) = parts[1] \o FlattenSeq(Tail(parts))
  BY <1>2, <1>5, FlattenFirst
<1> QED  BY <1>3, <1>6, <1>7 DEF BitsFrom, parts, rest

\* After the last bit there is nothing left of the byte,
LEMMA BitsEnd ==
  ASSUME NEW byte
  PROVE  BitsFrom(byte, BITS_PER_BYTE) = <<>>
<1>1. BITS_PER_BYTE \in 0 .. BITS_PER_BYTE /\ BITS_PER_BYTE - BITS_PER_BYTE = 0
  BY ScriptAssumption
<1>2. BitParts(byte, BITS_PER_BYTE) = <<>>
  BY <1>1, BitPartsType, EmptySeq
<1> QED  BY <1>2 DEF BitsFrom, FlattenSeq

\* ... and from the first on it is all of it.
LEMMA AllBits ==
  ASSUME NEW byte
  PROVE  SendByte(byte) = BitsFrom(byte, 0)
<1>1. BITS_PER_BYTE - 0 = BITS_PER_BYTE
  BY ScriptAssumption
<1>2. \A i \in 1 .. BITS_PER_BYTE : 0 + i - 1 = i - 1
  BY ScriptAssumption
<1>3. BitParts(byte, 0) = [i \in 1 .. BITS_PER_BYTE |-> SendBit(byte[i - 1])]
  BY <1>1, <1>2 DEF BitParts
<1> QED  BY <1>3 DEF SendByte, BitsFrom

\* The bits, and so the byte, are a sequence of commands.
LEMMA BitsType ==
  ASSUME NEW byte, NEW j \in 0 .. BITS_PER_BYTE
  PROVE  BitsFrom(byte, j) \in Seq(Command)
  BY BitPartsType, Flattened DEF BitsFrom

LEMMA ByteType ==
  ASSUME NEW byte
  PROVE  SendByte(byte) \in Seq(Command)
<1>1. 0 \in 0 .. BITS_PER_BYTE
  BY ScriptAssumption
<1> QED  BY <1>1, AllBits, BitsType

\* The bytes of a payload that come after the k-th.
ByteParts(bytes, k) ==
  [i \in 1 .. Len(bytes) - k |-> ToggleLed("info") \o SendByte(bytes[k + i])]
BytesFrom(bytes, k) == FlattenSeq(ByteParts(bytes, k))

\* Each part is a sequence of commands, one part for each byte left.
LEMMA BytePartsType ==
  ASSUME NEW B, NEW bytes \in Seq(B), NEW k \in 0 .. Len(bytes)
  PROVE  ByteParts(bytes, k) \in Seq(Seq(Command)) /\ Len(ByteParts(bytes, k)) = Len(bytes) - k
<1>1. \A byte : ToggleLed("info") \o SendByte(byte) \in Seq(Command)
  BY CommandTypes, ByteType
<1> DEFINE n == Len(bytes) - k
<1>2. n \in Nat
  BY LenProperties
<1>3. ByteParts(bytes, k) \in [1 .. n -> Seq(Command)]
  BY <1>1 DEF ByteParts
<1> HIDE DEF n
<1>4. ByteParts(bytes, k) \in Seq(Seq(Command)) /\ Len(ByteParts(bytes, k)) = n
  BY <1>2, <1>3
<1> QED  BY <1>4 DEF n

LEMMA BytesType ==
  ASSUME NEW B, NEW bytes \in Seq(B), NEW k \in 0 .. Len(bytes)
  PROVE  BytesFrom(bytes, k) \in Seq(Command)
  BY BytePartsType, Flattened DEF BytesFrom

\* The next byte comes first, and then the bytes after it.
LEMMA BytesFirst ==
  ASSUME NEW B, NEW bytes \in Seq(B), NEW k \in 0 .. Len(bytes) - 1
  PROVE  BytesFrom(bytes, k) =
           (ToggleLed("info") \o SendByte(bytes[k + 1])) \o BytesFrom(bytes, k + 1)
<1> DEFINE parts == ByteParts(bytes, k)
           rest == ByteParts(bytes, k + 1)
           n == Len(bytes)
<1>1. n \in Nat /\ k \in 0 .. n /\ k + 1 \in 0 .. n
  BY LenProperties
<1>2. /\ parts \in Seq(Seq(Command)) /\ Len(parts) = n - k
      /\ rest \in Seq(Seq(Command)) /\ Len(rest) = n - (k + 1)
  BY <1>1, BytePartsType
<1>3. parts[1] = ToggleLed("info") \o SendByte(bytes[k + 1])
  <2>1. 1 \in 1 .. n - k
    BY <1>1
  <2> QED  BY <2>1 DEF ByteParts
<1>4. \A i \in 1 .. Len(rest) : rest[i] = parts[i + 1]
  <2> SUFFICES ASSUME NEW i \in 1 .. Len(rest) PROVE rest[i] = parts[i + 1]
    OBVIOUS
  <2> DEFINE l == i + 1
  <2>1. i \in 1 .. n - (k + 1) /\ l \in 1 .. n - k /\ (k + 1) + i = k + l
    BY <1>1, <1>2
  <2> HIDE DEF l
  <2>2. /\ rest[i] = ToggleLed("info") \o SendByte(bytes[(k + 1) + i])
        /\ parts[l] = ToggleLed("info") \o SendByte(bytes[k + l])
    BY <2>1 DEF ByteParts
  <2> QED  BY <2>1, <2>2 DEF l
<1> HIDE DEF parts, rest
<1>5. parts # <<>>
  <2>1. n - k # 0
    BY <1>1
  <2> QED  BY <1>2, <2>1, EmptySeq
<1>6. Tail(parts) = rest
  <2>1. /\ Tail(parts) \in Seq(Seq(Command)) /\ Len(Tail(parts)) = Len(parts) - 1
        /\ \A i \in 1 .. Len(Tail(parts)) : Tail(parts)[i] = parts[i + 1]
    BY <1>2, <1>5, HeadTailProperties
  <2>2. Len(Tail(parts)) = Len(rest)
    BY <1>1, <1>2, <2>1
  <2> QED  BY <1>2, <1>4, <2>1, <2>2, SeqEqual
<1>7. FlattenSeq(parts) = parts[1] \o FlattenSeq(Tail(parts))
  BY <1>2, <1>5, FlattenFirst
<1> QED  BY <1>3, <1>6, <1>7 DEF BytesFrom, parts, rest

\* After the last byte there is nothing left of the payload,
LEMMA BytesEnd ==
  ASSUME NEW B, NEW bytes \in Seq(B)
  PROVE  BytesFrom(bytes, Len(bytes)) = <<>>
<1>1. Len(bytes) \in 0 .. Len(bytes) /\ Len(bytes) - Len(bytes) = 0
  BY LenProperties
<1>2. ByteParts(bytes, Len(bytes)) = <<>>
  BY <1>1, BytePartsType, EmptySeq
<1> QED  BY <1>2 DEF BytesFrom, FlattenSeq

\* ... and from the first on it is all of it.
LEMMA AllBytes ==
  ASSUME NEW B, NEW bytes \in Seq(B)
  PROVE  BytesFrom(bytes, 0) =
           FlattenSeq([k \in 1 .. Len(bytes) |-> ToggleLed("info") \o SendByte(bytes[k])])
<1>1. Len(bytes) - 0 = Len(bytes) /\ \A i \in 1 .. Len(bytes) : 0 + i = i
  BY LenProperties
<1>2. ByteParts(bytes, 0) = [k \in 1 .. Len(bytes) |-> ToggleLed("info") \o SendByte(bytes[k])]
  BY <1>1 DEF ByteParts
<1> QED  BY <1>2 DEF BytesFrom

\* Byte k of the frame: the length, and then the payload.
Sends(bytes, k) == IF k = 0 THEN ByteOf[Len(bytes)] ELSE bytes[k]

\* What the script still has to do from bit j of byte k on, when it wakes up, and when
\* it falls asleep.
Rest(bytes, k, j) == BitsFrom(Sends(bytes, k), j) \o (BytesFrom(bytes, k) \o SendStopFrame)
Pulse(bytes) == SetLed("clock", FALSE) \o (SetLed("clock", TRUE) \o Rest(bytes, 0, 0))
Asleep(bytes) == SyncSleep \o Pulse(bytes)

\* What is left is a sequence of commands.
LEMMA RestType ==
  ASSUME NEW B, NEW bytes \in Seq(B), NEW k \in 0 .. Len(bytes), NEW j \in 0 .. BITS_PER_BYTE
  PROVE  /\ Rest(bytes, k, j) \in Seq(Command)
         /\ BytesFrom(bytes, k) \o SendStopFrame \in Seq(Command)
<1>1. SendStopFrame \in Seq(Command)
  BY CommandTypes DEF SendStopFrame
<1> QED  BY <1>1, CommandTypes, BitsType, BytesType DEF Rest

\* A bit is sent with two commands.
LEMMA RestBit ==
  ASSUME NEW B, NEW bytes \in Seq(B), NEW k \in 0 .. Len(bytes),
         NEW j \in 0 .. BITS_PER_BYTE - 1
  PROVE  Rest(bytes, k, j) =
           SetLed("data", Sends(bytes, k)[j]) \o (ToggleLed("clock") \o Rest(bytes, k, j + 1))
<1> DEFINE byte == Sends(bytes, k)
           data == SetLed("data", byte[j])
           clock == ToggleLed("clock")
           bits == BitsFrom(byte, j + 1)
           end == BytesFrom(bytes, k) \o SendStopFrame
<1>1. j + 1 \in 0 .. BITS_PER_BYTE
  BY ScriptAssumption
<1>2. /\ data \in Seq(Command) /\ clock \in Seq(Command)
      /\ bits \in Seq(Command) /\ end \in Seq(Command)
  BY <1>1, CommandTypes, BitsType, RestType
<1>3. BitsFrom(byte, j) = (data \o clock) \o bits
  BY BitsFirst DEF SendBit
<1>4. /\ Rest(bytes, k, j) = BitsFrom(byte, j) \o end
      /\ Rest(bytes, k, j + 1) = bits \o end
  BY DEF Rest
<1> HIDE DEF byte, data, clock, bits, end
<1>5. Join(Join(Join(data, clock), bits), end) = Join(data, Join(clock, Join(bits, end)))
  BY <1>2, Regroup
<1> QED  BY <1>3, <1>4, <1>5 DEF Join, data, clock, byte

\* After the last bit of a byte comes the next byte, and after the last byte the end.
LEMMA RestByte ==
  ASSUME NEW B, NEW bytes \in Seq(B), NEW k \in 0 .. Len(bytes) - 1
  PROVE  Rest(bytes, k, BITS_PER_BYTE) = ToggleLed("info") \o Rest(bytes, k + 1, 0)
<1> DEFINE info == ToggleLed("info")
           byte == SendByte(bytes[k + 1])
           rest == BytesFrom(bytes, k + 1)
           stop == SendStopFrame
<1>1. k \in 0 .. Len(bytes) /\ k + 1 \in 0 .. Len(bytes) /\ k + 1 # 0
  BY LenProperties
<1>2. /\ info \in Seq(Command) /\ byte \in Seq(Command)
      /\ rest \in Seq(Command) /\ stop \in Seq(Command)
  BY <1>1, CommandTypes, ByteType, BytesType DEF SendStopFrame
<1>3. BytesFrom(bytes, k) = (info \o byte) \o rest
  BY BytesFirst
<1>4. Rest(bytes, k + 1, 0) = byte \o (rest \o stop)
  BY <1>1, AllBits DEF Rest, Sends
<1>5. Rest(bytes, k, BITS_PER_BYTE) = <<>> \o (BytesFrom(bytes, k) \o stop)
  BY BitsEnd DEF Rest
<1> HIDE DEF info, byte, rest, stop
<1>6. Join(Join(Join(info, byte), rest), stop) = Join(info, Join(byte, Join(rest, stop)))
  BY <1>2, Regroup
<1>7. ((info \o byte) \o rest) \o stop \in Seq(Command)
  BY <1>2, CommandTypes
<1>8. <<>> \o (((info \o byte) \o rest) \o stop) = ((info \o byte) \o rest) \o stop
  BY <1>7, ConcatEmptySeq
<1> QED  BY <1>3, <1>4, <1>5, <1>6, <1>8 DEF Join, info

\* After the last bit of the last byte the frame is ended,
LEMMA RestEnd ==
  ASSUME NEW B, NEW bytes \in Seq(B)
  PROVE  Rest(bytes, Len(bytes), BITS_PER_BYTE) = SendStopFrame
<1>1. SendStopFrame \in Seq(Command)
  BY CommandTypes DEF SendStopFrame
<1>2. <<>> \o SendStopFrame = SendStopFrame
  BY <1>1, ConcatEmptySeq
<1> QED  BY <1>2, BitsEnd, BytesEnd DEF Rest

\* ... with three commands.
LEMMA StopCommands ==
  SendStopFrame =
    SetLed("data", FALSE) \o (SetLed("clock", FALSE) \o SetLed("info", FALSE))
<1> DEFINE data == SetLed("data", FALSE)
           clock == SetLed("clock", FALSE)
           info == SetLed("info", FALSE)
<1>1. data \in Seq(Command) /\ clock \in Seq(Command) /\ info \in Seq(Command)
  BY CommandTypes
<1>2. SendStopFrame = (data \o clock) \o info
  BY DEF SendStopFrame
<1> HIDE DEF data, clock, info
<1>3. Join(Join(data, clock), info) = Join(data, Join(clock, info))
  BY <1>1, Regroup
<1> QED  BY <1>2, <1>3 DEF Join, data, clock, info

\* The run of a payload that is not too long for its length byte.
LEMMA RunCommands ==
  ASSUME NEW B, NEW bytes \in Seq(B), Len(bytes) <= MaxByte
  PROVE  SendStringPayload(bytes) =
           SetLed("clock", FALSE) \o (SetLed("data", FALSE) \o Asleep(bytes))
<1> DEFINE off == SetLed("clock", FALSE)
           data == SetLed("data", FALSE)
           sleep == SyncSleep
           on == SetLed("clock", TRUE)
           length == SendByte(ByteOf[Len(bytes)])
           rest == BytesFrom(bytes, 0)
           stop == SendStopFrame
<1>0. 0 \in 0 .. Len(bytes)
  BY LenProperties
<1>1. /\ off \in Seq(Command) /\ data \in Seq(Command) /\ sleep \in Seq(Command)
      /\ on \in Seq(Command) /\ length \in Seq(Command)
      /\ rest \in Seq(Command) /\ stop \in Seq(Command)
  BY <1>0, CommandTypes, ByteType, BytesType DEF SendStopFrame
<1>2. SendStringPayload(bytes)
        = (((((off \o data) \o sleep) \o (off \o on)) \o length) \o rest) \o stop
  BY AllBytes DEF SendStringPayload, SendStartFrame, SendLength, PulseClock
<1>3. Asleep(bytes) = sleep \o (off \o (on \o (length \o (rest \o stop))))
  BY AllBits DEF Asleep, Pulse, Rest, Sends
<1> HIDE DEF off, data, sleep, on, length, rest, stop
<1>4. Join(Join(Join(Join(Join(Join(off, data), sleep), Join(off, on)), length), rest), stop)
        = Join(off, Join(data, Join(sleep, Join(off, Join(on, Join(length, Join(rest, stop)))))))
  <2> DEFINE head == Join(Join(off, data), sleep)
             tail == Join(on, Join(length, Join(rest, stop)))
  <2>1. head \in Seq(Command) /\ Join(off, on) \in Seq(Command)
    BY <1>1, Regroup
  <2>2. tail \in Seq(Command) /\ Join(off, tail) \in Seq(Command)
    BY <1>1, Regroup
  <2>3. Join(Join(off, on), Join(length, Join(rest, stop))) = Join(off, tail)
    BY <1>1, Regroup
  <2>4. Join(head, Join(off, tail)) = Join(off, Join(data, Join(sleep, Join(off, tail))))
    <3> HIDE DEF tail
    <3> QED  BY <1>1, <2>2, Regroup
  <2>5. Join(Join(Join(Join(head, Join(off, on)), length), rest), stop)
          = Join(head, Join(Join(off, on), Join(length, Join(rest, stop))))
    <3> DEFINE pulse == Join(off, on)
    <3>1. pulse \in Seq(Command)
      BY <2>1
    <3> HIDE DEF head, pulse
    <3>2. Join(Join(Join(Join(head, pulse), length), rest), stop)
            = Join(Join(head, pulse), Join(length, Join(rest, stop)))
      <4> DEFINE start == Join(head, pulse)
      <4>1. start \in Seq(Command)
        BY <2>1, <3>1, Regroup
      <4> HIDE DEF start
      <4>2. Join(Join(Join(start, length), rest), stop)
              = Join(start, Join(length, Join(rest, stop)))
        BY <1>1, <4>1, Regroup
      <4> QED  BY <4>2 DEF start
    <3>3. Join(Join(head, pulse), Join(length, Join(rest, stop)))
            = Join(head, Join(pulse, Join(length, Join(rest, stop))))
      BY <1>1, <2>1, <3>1, Regroup
    <3> QED  BY <3>2, <3>3 DEF pulse
  <2> QED  BY <2>3, <2>4, <2>5
<1>5. SendStringPayload(bytes) = off \o (data \o Asleep(bytes))
  BY <1>2, <1>3, <1>4 DEF Join
<1> QED  BY <1>5 DEF off, data

\* A run of the script is a sequence of commands.
LEMMA ScriptOfPayload ==
  ASSUME NEW B, NEW bytes \in Seq(B)
  PROVE  SendStringPayload(bytes) \in Seq(Command)
<1>1. 0 \in 0 .. Len(bytes)
  BY LenProperties
<1>2. SendLength(Len(bytes)) \in Seq(Command)
  BY CommandTypes, ByteType DEF SendLength
<1>3. SendStartFrame \in Seq(Command) /\ SendStopFrame \in Seq(Command)
  BY CommandTypes DEF SendStartFrame, SendStopFrame, PulseClock
<1>4. FlattenSeq([k \in 1 .. Len(bytes) |-> ToggleLed("info") \o SendByte(bytes[k])])
        \in Seq(Command)
  BY <1>1, AllBytes, BytesType
<1> QED  BY <1>2, <1>3, <1>4, CommandTypes DEF SendStringPayload

(***************************************************************************)
(* Lock keys.                                                              *)
(***************************************************************************)
\* The first of some commands, and the rest.
LEMMA FirstCommand ==
  ASSUME NEW command \in Command, NEW rest \in Seq(Command)
  PROVE  /\ Head(<<command>> \o rest) = command /\ Tail(<<command>> \o rest) = rest
         /\ <<command>> \o rest # <<>>
<1> DEFINE one == <<command>>
           all == one \o rest
<1>1. one \in Seq(Command) /\ Len(one) = 1 /\ one[1] = command
  OBVIOUS
<1> HIDE DEF one
<1>2. /\ all \in Seq(Command) /\ Len(all) = 1 + Len(rest) /\ Len(rest) \in Nat
      /\ \A i \in 1 .. 1 + Len(rest) : all[i] = IF i <= 1 THEN one[i] ELSE rest[i - 1]
  <2>1. /\ all \in Seq(Command) /\ Len(all) = Len(one) + Len(rest) /\ Len(rest) \in Nat
        /\ \A i \in 1 .. Len(one) + Len(rest) :
             all[i] = IF i <= Len(one) THEN one[i] ELSE rest[i - Len(one)]
    BY <1>1, ConcatProperties, LenProperties
  <2> QED  BY <1>1, <2>1
<1> HIDE DEF all
<1>3. all # <<>>
  BY <1>2, EmptySeq
<1>4. Head(all) = command
  BY <1>1, <1>2, <1>3
<1>5. Tail(all) = rest
  <2>1. /\ Tail(all) \in Seq(Command) /\ Len(Tail(all)) = Len(all) - 1
        /\ \A i \in 1 .. Len(Tail(all)) : Tail(all)[i] = all[i + 1]
    BY <1>2, <1>3, HeadTailProperties
  <2>2. Len(Tail(all)) = Len(rest)
    BY <1>2, <2>1
  <2>3. \A i \in 1 .. Len(rest) : Tail(all)[i] = rest[i]
    <3> SUFFICES ASSUME NEW i \in 1 .. Len(rest) PROVE Tail(all)[i] = rest[i]
      OBVIOUS
    <3> DEFINE j == i + 1
    <3>1. j \in 1 .. 1 + Len(rest) /\ ~(j <= 1) /\ j - 1 = i
      BY <1>2
    <3>2. Tail(all)[i] = all[j]
      BY <2>1, <2>2
    <3> HIDE DEF j
    <3> QED  BY <1>2, <3>1, <3>2
  <2> QED  BY <2>1, <2>2, <2>3, SeqEqual
<1> QED  BY <1>3, <1>4, <1>5 DEF all, one

\* The LEDs after a lock key are LEDs.
LEMMA PressedType ==
  ASSUME NEW leds \in SUBSET LEDs, NEW command \in Command, command.op # "sleep"
  PROVE  Pressed(leds, command) \in SUBSET LEDs
<1>1. command.led \in LEDs /\ command.op \in {"on", "off", "toggle"}
  BY DEF Command
<1>2. leds \cup {command.led} \in SUBSET LEDs /\ leds \ {command.led} \in SUBSET LEDs
  BY <1>1
<1> QED  BY <1>1, <1>2 DEF Pressed

\* What a lock key command does to the LEDs.
LEMMA SetKey ==
  ASSUME NEW led \in LEDs, NEW on \in BOOLEAN, NEW rest \in Seq(Command), NEW leds
  PROVE  LET commands == SetLed(led, on) \o rest
         IN  /\ commands # <<>> /\ Head(commands).op # "sleep" /\ Tail(commands) = rest
             /\ \A other : other \in Pressed(leds, Head(commands))
                             <=> IF other = led THEN on ELSE other \in leds
<1> DEFINE command == [op |-> IF on THEN "on" ELSE "off", led |-> led]
<1>1. command \in Command
  BY DEF Command
<1>2. command.led = led /\ command.op = IF on THEN "on" ELSE "off"
  OBVIOUS
<1> HIDE DEF command
<1>3. \A other : other \in Pressed(leds, command) <=> IF other = led THEN on ELSE other \in leds
  BY <1>2 DEF Pressed
<1>4. SetLed(led, on) = <<command>>
  BY DEF SetLed, command
<1>5. command.op # "sleep"
  BY <1>2
<1> QED  BY <1>1, <1>3, <1>4, <1>5, FirstCommand

\* A toggled lock key changes its LED.
LEMMA ToggleKey ==
  ASSUME NEW led \in LEDs, NEW rest \in Seq(Command), NEW leds
  PROVE  LET commands == ToggleLed(led) \o rest
         IN  /\ commands # <<>> /\ Head(commands).op # "sleep" /\ Tail(commands) = rest
             /\ \A other : other \in Pressed(leds, Head(commands))
                             <=> IF other = led THEN other \notin leds ELSE other \in leds
<1> DEFINE command == [op |-> "toggle", led |-> led]
<1>1. command \in Command
  BY DEF Command
<1>2. command.led = led /\ command.op = "toggle"
  OBVIOUS
<1> HIDE DEF command
<1>3. \A other : other \in Pressed(leds, command)
                   <=> IF other = led THEN other \notin leds ELSE other \in leds
  BY <1>2 DEF Pressed
<1>4. ToggleLed(led) = <<command>>
  BY DEF ToggleLed, command
<1> QED  BY <1>1, <1>2, <1>3, <1>4, FirstCommand

\* The sync delay is one command, and presses no key.
LEMMA SleepKey ==
  ASSUME NEW rest \in Seq(Command)
  PROVE  LET commands == SyncSleep \o rest
         IN  commands # <<>> /\ Head(commands).op = "sleep" /\ Tail(commands) = rest
<1> DEFINE command == [op |-> "sleep", led |-> "clock"]
<1>1. command \in Command /\ command.op = "sleep"
  BY DEF Command, LEDs
<1> HIDE DEF command
<1>2. SyncSleep = <<command>>
  BY DEF SyncSleep, command
<1> QED  BY <1>1, <1>2, FirstCommand

(***************************************************************************)
(* The frame, seen from the host.                                          *)
(***************************************************************************)
\* A mark says how much of the frame is sent: it is the next bit, bit j of byte k.  The
\* start edge is like the last bit of a byte before the first.
Awake == <<-1, BITS_PER_BYTE - 1>>
Done(bytes) == <<Len(bytes) + 1, 0>>
InBits(bytes, p) == p \in (0 .. Len(bytes)) \X (0 .. BITS_PER_BYTE - 1)
NextMark(p) == IF p[2] + 1 < BITS_PER_BYTE THEN <<p[1], p[2] + 1>> ELSE <<p[1] + 1, 0>>

Marks(bytes) == ((0 .. Len(bytes)) \X (0 .. BITS_PER_BYTE - 1)) \cup {Awake, Done(bytes)}

Clock(leds) == "clock" \in leds
Data(leds) == "data" \in leds

\* The marks of two reports that follow one another: an edge of the clock brings a bit,
\* and only the one that ends the frame brings none.
Follows(bytes, p, q, before, after) ==
  \/ q = p /\ (Clock(after) = Clock(before) \/ (p = Done(bytes) /\ ~Clock(after)))
  \/ /\ q = NextMark(p) /\ p # Done(bytes) /\ Clock(after) # Clock(before)
     /\ p = Awake \/ Data(after) = Sends(bytes, p[1])[p[2]]

\* Where the host is, which has reported all up to mark p.
HostAt(bytes, p, leds, commands) ==
  \/ /\ p = Awake /\ ~Clock(leds)
     /\ commands \in {Pulse(bytes), SetLed("clock", TRUE) \o Rest(bytes, 0, 0)}
  \/ /\ InBits(bytes, p)
     /\ \/ commands = Rest(bytes, p[1], p[2])
        \/ p[2] = 0 /\ commands = ToggleLed("info") \o Rest(bytes, p[1], 0)
        \/ /\ commands = ToggleLed("clock") \o Rest(bytes, p[1], p[2] + 1)
           /\ Data(leds) = Sends(bytes, p[1])[p[2]]
  \/ /\ p = Done(bytes)
     /\ commands \in {SendStopFrame, SetLed("clock", FALSE) \o SetLed("info", FALSE),
                      SetLed("info", FALSE), <<>>}

\* A payload that is not too long for its length byte.
Payload(bytes) == bytes \in Seq(Byte) /\ Len(bytes) <= MaxByte

\* What is sent are bytes.
LEMMA SendsBytes ==
  ASSUME NEW bytes, Payload(bytes), NEW k \in 0 .. Len(bytes)
  PROVE  Sends(bytes, k) \in Byte
<1>1. Len(bytes) \in 0 .. MaxByte
  BY LenProperties DEF Payload
<1>2. CASE k = 0
  BY <1>1, <1>2, ScriptAssumption DEF Sends
<1>3. CASE k # 0
  <2>1. k \in 1 .. Len(bytes)
    BY <1>1, <1>3
  <2> QED  BY <1>3, <2>1, ElementOfSeq DEF Sends, Payload
<1> QED  BY <1>2, <1>3

\* The marks of the frame: the start edge and the end are no bits.
LEMMA MarkNumbers ==
  ASSUME NEW bytes \in Seq(Byte)
  PROVE  /\ \A p : InBits(bytes, p) => p # Awake /\ p # Done(bytes)
         /\ Awake # Done(bytes) /\ Awake[1] = -1 /\ Done(bytes)[1] = Len(bytes) + 1
         /\ NextMark(Awake) = <<0, 0>> /\ InBits(bytes, <<0, 0>>)
<1>1. Len(bytes) \in Nat /\ BITS_PER_BYTE \in Nat \ {0}
  BY LenProperties, ScriptAssumption
<1>2. Awake[1] = -1 /\ Awake[2] = BITS_PER_BYTE - 1 /\ Done(bytes)[1] = Len(bytes) + 1
  BY DEF Awake, Done
<1>3. \A p : InBits(bytes, p) => p[1] \in 0 .. Len(bytes)
  BY DEF InBits
<1>4. \A p : InBits(bytes, p) => p # Awake /\ p # Done(bytes)
  BY <1>1, <1>2, <1>3
<1>5. Awake # Done(bytes)
  BY <1>1, <1>2
<1>6. NextMark(Awake) = <<0, 0>>
  BY <1>1 DEF NextMark, Awake
<1>7. InBits(bytes, <<0, 0>>)
  BY <1>1 DEF InBits
<1> QED  BY <1>2, <1>4, <1>5, <1>6, <1>7

\* Within a frame the host presses keys: each takes it to the next mark, or leaves it at
\* the one it is.
LEMMA HostSteps ==
  ASSUME NEW bytes, Payload(bytes), NEW p, NEW leds, NEW commands,
         HostAt(bytes, p, leds, commands), commands # <<>>,
         NEW before, Clock(before) = Clock(leds)
  PROVE  /\ Head(commands).op # "sleep"
         /\ \E q : /\ HostAt(bytes, q, Pressed(leds, Head(commands)), Tail(commands))
                   /\ Follows(bytes, p, q, before, Pressed(leds, Head(commands)))
<1> DEFINE after == Pressed(leds, Head(commands))
           rest == Tail(commands)
           Goal == /\ Head(commands).op # "sleep"
                   /\ \E q : HostAt(bytes, q, after, rest) /\ Follows(bytes, p, q, before, after)
<1>1. /\ bytes \in Seq(Byte) /\ Len(bytes) \in Nat /\ 0 \in 0 .. Len(bytes)
      /\ BITS_PER_BYTE \in Nat /\ 0 \in 0 .. BITS_PER_BYTE
      /\ 0 \in 0 .. BITS_PER_BYTE - 1
  BY LenProperties, ScriptAssumption DEF Payload
<1>2. "clock" \in LEDs /\ "data" \in LEDs /\ "info" \in LEDs
  BY DEF LEDs
<1>3. \A k \in 0 .. Len(bytes) : \A j \in 0 .. BITS_PER_BYTE : Rest(bytes, k, j) \in Seq(Command)
  BY <1>1, RestType
<1>8. Clock(after) \in BOOLEAN /\ Clock(leds) \in BOOLEAN /\ Data(after) \in BOOLEAN
  BY DEF Clock, Data
<1>4. CASE p = Awake /\ commands = Pulse(bytes)
  <2> DEFINE end == SetLed("clock", TRUE) \o Rest(bytes, 0, 0)
  <2>1. end \in Seq(Command)
    BY <1>1, <1>2, <1>3, CommandTypes
  <2>2. commands = SetLed("clock", FALSE) \o end
    BY <1>4 DEF Pulse
  <2>3. ~Clock(leds)
    BY <1>1, <1>4, MarkNumbers DEF HostAt
  <2> HIDE DEF end
  <2>4. Head(commands).op # "sleep" /\ rest = end /\ ~Clock(after)
    BY <1>2, <2>1, <2>2, SetKey DEF Clock
  <2>5. HostAt(bytes, p, after, rest)
    BY <1>4, <2>4 DEF HostAt, end
  <2>6. Follows(bytes, p, p, before, after)
    BY <1>8, <2>3, <2>4 DEF Follows
  <2> QED  BY <2>4, <2>5, <2>6
<1>5. CASE p = Awake /\ commands = SetLed("clock", TRUE) \o Rest(bytes, 0, 0)
  <2> DEFINE end == Rest(bytes, 0, 0)
             q == <<0, 0>>
  <2>1. end \in Seq(Command)
    BY <1>1, <1>3
  <2>2. ~Clock(leds)
    BY <1>1, <1>5, MarkNumbers DEF HostAt
  <2>3. commands = SetLed("clock", TRUE) \o end
    BY <1>5
  <2> HIDE DEF end
  <2>4. Head(commands).op # "sleep" /\ rest = end /\ Clock(after)
    BY <1>2, <2>1, <2>3, SetKey DEF Clock
  <2>5. HostAt(bytes, q, after, rest)
    BY <1>1, <2>4, MarkNumbers DEF HostAt, end
  <2>6. Follows(bytes, p, q, before, after)
    BY <1>1, <1>5, <2>2, <2>4, MarkNumbers DEF Follows
  <2> QED  BY <2>4, <2>5, <2>6
<1>6. ASSUME InBits(bytes, p) PROVE Goal
  <2> DEFINE k == p[1]
             j == p[2]
             bit == Sends(bytes, k)[j]
  <2>1. /\ k \in 0 .. Len(bytes) /\ j \in 0 .. BITS_PER_BYTE - 1
        /\ j \in 0 .. BITS_PER_BYTE /\ j + 1 \in 0 .. BITS_PER_BYTE /\ p = <<k, j>>
    BY <1>1, <1>6 DEF InBits
  <2>2. bit \in BOOLEAN
    <3>1. Sends(bytes, k) \in [0 .. BITS_PER_BYTE - 1 -> BOOLEAN]
      BY <2>1, SendsBytes DEF Byte
    <3> QED  BY <2>1, <3>1
  <2>3. p # Awake /\ p # Done(bytes)
    BY <1>1, <1>6, MarkNumbers
  <2> HIDE DEF bit
  <2>4. CASE commands = Rest(bytes, k, j)
    <3> DEFINE end == ToggleLed("clock") \o Rest(bytes, k, j + 1)
    <3>1. end \in Seq(Command)
      BY <1>2, <1>3, <2>1, CommandTypes
    <3>2. commands = SetLed("data", bit) \o end
      BY <1>1, <2>1, <2>4, RestBit DEF bit
    <3> HIDE DEF end
    <3>3. /\ Head(commands).op # "sleep" /\ rest = end
          /\ (Clock(after) <=> Clock(leds)) /\ (Data(after) <=> bit)
      BY <1>2, <2>2, <3>1, <3>2, SetKey DEF Clock, Data
    <3>4. HostAt(bytes, p, after, rest)
      <4>1. Data(after) = bit
        BY <1>8, <2>2, <3>3
      <4> QED  BY <1>6, <3>3, <4>1 DEF HostAt, end, bit
    <3>5. Follows(bytes, p, p, before, after)
      BY <1>8, <3>3 DEF Follows
    <3> QED  BY <3>3, <3>4, <3>5
  <2>5. CASE j = 0 /\ commands = ToggleLed("info") \o Rest(bytes, k, 0)
    <3> DEFINE end == Rest(bytes, k, 0)
    <3>1. end \in Seq(Command) /\ commands = ToggleLed("info") \o end
      BY <1>1, <1>3, <2>1, <2>5
    <3> HIDE DEF end
    <3>2. Head(commands).op # "sleep" /\ rest = end /\ (Clock(after) <=> Clock(leds))
      BY <1>2, <3>1, ToggleKey DEF Clock
    <3>3. HostAt(bytes, p, after, rest)
      BY <1>6, <2>5, <3>2 DEF HostAt, end
    <3>4. Follows(bytes, p, p, before, after)
      BY <1>8, <3>2 DEF Follows
    <3> QED  BY <3>2, <3>3, <3>4
  <2>6. CASE commands = ToggleLed("clock") \o Rest(bytes, k, j + 1) /\ Data(leds) = bit
    <3> DEFINE end == Rest(bytes, k, j + 1)
               q == NextMark(p)
    <3>1. end \in Seq(Command) /\ commands = ToggleLed("clock") \o end
      BY <1>3, <2>1, <2>6
    <3> HIDE DEF end
    <3>2. /\ Head(commands).op # "sleep" /\ rest = end
          /\ (Clock(after) <=> ~Clock(leds)) /\ (Data(after) <=> bit)
      BY <1>2, <2>6, <3>1, ToggleKey DEF Clock, Data
    <3>3. Follows(bytes, p, q, before, after)
      <4>1. Data(after) = bit /\ Clock(after) # Clock(leds)
        BY <1>8, <2>2, <3>2
      <4> HIDE DEF q
      <4>2. Follows(bytes, p, NextMark(p), before, after)
        BY <2>3, <4>1 DEF Follows, bit
      <4> QED  BY <4>2 DEF q
    <3>4. HostAt(bytes, q, after, end)
      <4>1. CASE j + 1 < BITS_PER_BYTE
        <5>1. q = <<k, j + 1>> /\ j + 1 \in 0 .. BITS_PER_BYTE - 1
          BY <1>1, <2>1, <4>1 DEF NextMark
        <5>2. InBits(bytes, q) /\ q[1] = k /\ q[2] = j + 1
          BY <2>1, <5>1 DEF InBits
        <5> HIDE DEF q
        <5> QED  BY <5>2 DEF HostAt, end
      <4>2. CASE ~(j + 1 < BITS_PER_BYTE)
        <5>1. q = <<k + 1, 0>> /\ j + 1 = BITS_PER_BYTE
          BY <1>1, <2>1, <4>2 DEF NextMark
        <5>2. CASE k = Len(bytes)
          <6>1. end = SendStopFrame
            BY <1>1, <5>1, <5>2, RestEnd DEF end
          <6>2. q = Done(bytes)
            BY <5>1, <5>2 DEF Done
          <6> HIDE DEF q
          <6> QED  BY <6>1, <6>2 DEF HostAt
        <5>3. CASE k # Len(bytes)
          <6>1. k \in 0 .. Len(bytes) - 1 /\ k + 1 \in 0 .. Len(bytes)
            BY <1>1, <2>1, <5>3
          <6>2. end = ToggleLed("info") \o Rest(bytes, k + 1, 0)
            BY <1>1, <5>1, <6>1, RestByte DEF end
          <6>3. InBits(bytes, q) /\ q[1] = k + 1 /\ q[2] = 0
            BY <1>1, <5>1, <6>1 DEF InBits
          <6> HIDE DEF q
          <6> QED  BY <6>2, <6>3 DEF HostAt
        <5> QED  BY <5>2, <5>3
      <4> QED  BY <4>1, <4>2
    <3> QED  BY <3>2, <3>3, <3>4
  <2> QED  BY <1>1, <1>6, <2>3, <2>4, <2>5, <2>6 DEF HostAt, bit
<1>7. ASSUME p = Done(bytes) PROVE Goal
  <2> DEFINE info == SetLed("info", FALSE)
             clock == SetLed("clock", FALSE) \o info
  <2>1. info \in Seq(Command) /\ clock \in Seq(Command) /\ <<>> \in Seq(Command)
    BY <1>2, CommandTypes
  <2>2. info = info \o <<>>
    BY <2>1, ConcatEmptySeq
  <2>3. CASE commands = SendStopFrame
    <3>1. commands = SetLed("data", FALSE) \o clock
      BY <2>3, StopCommands
    <3> HIDE DEF clock
    <3>2. Head(commands).op # "sleep" /\ rest = clock /\ (Clock(after) <=> Clock(leds))
      BY <1>2, <2>1, <3>1, SetKey DEF Clock
    <3>3. HostAt(bytes, p, after, rest) /\ Follows(bytes, p, p, before, after)
      BY <1>7, <3>2 DEF HostAt, Follows, clock
    <3> QED  BY <3>2, <3>3
  <2>4. CASE commands = clock
    <3>1. commands = SetLed("clock", FALSE) \o info
      BY <2>4
    <3> HIDE DEF info, clock
    <3>2. Head(commands).op # "sleep" /\ rest = info /\ ~Clock(after)
      BY <1>2, <2>1, <3>1, SetKey DEF Clock
    <3>3. HostAt(bytes, p, after, rest) /\ Follows(bytes, p, p, before, after)
      BY <1>7, <3>2 DEF HostAt, Follows, info
    <3> QED  BY <3>2, <3>3
  <2>5. CASE commands = info
    <3>1. commands = SetLed("info", FALSE) \o <<>>
      BY <2>2, <2>5
    <3>2. Head(commands).op # "sleep" /\ rest = <<>> /\ (Clock(after) <=> Clock(leds))
      BY <1>2, <2>1, <3>1, SetKey DEF Clock
    <3>3. HostAt(bytes, p, after, rest) /\ Follows(bytes, p, p, before, after)
      BY <1>7, <3>2 DEF HostAt, Follows
    <3> QED  BY <3>2, <3>3
  <2> QED  BY <1>1, <1>7, <2>3, <2>4, <2>5, MarkNumbers DEF HostAt
<1> QED  BY <1>4, <1>5, <1>6, <1>7 DEF HostAt

\* The host is at a mark, and has nothing left to do only at the end.
LEMMA HostMark ==
  ASSUME NEW bytes, Payload(bytes), NEW p, NEW leds, NEW commands, HostAt(bytes, p, leds, commands)
  PROVE  p \in Marks(bytes) /\ (commands = <<>> => p = Done(bytes))
<1>1. p \in Marks(bytes)
  BY DEF HostAt, Marks, InBits
<1>2. ASSUME commands = <<>> PROVE p = Done(bytes)
  <2>1. /\ bytes \in Seq(Byte) /\ 0 \in 0 .. Len(bytes) /\ 0 \in 0 .. BITS_PER_BYTE
    BY LenProperties, ScriptAssumption DEF Payload
  <2>2. \A k \in 0 .. Len(bytes) : \A j \in 0 .. BITS_PER_BYTE : Rest(bytes, k, j) \in Seq(Command)
    BY <2>1, RestType
  <2>3. /\ "clock" \in LEDs /\ "data" \in LEDs /\ "info" \in LEDs
        /\ TRUE \in BOOLEAN /\ FALSE \in BOOLEAN
    BY DEF LEDs
  <2>4. /\ \A led \in LEDs : \A on \in BOOLEAN : \A rest \in Seq(Command) :
             SetLed(led, on) \o rest # <<>>
        /\ \A led \in LEDs : \A rest \in Seq(Command) : ToggleLed(led) \o rest # <<>>
    BY SetKey, ToggleKey
  <2>5. /\ SetLed("clock", TRUE) \o Rest(bytes, 0, 0) # <<>>
        /\ SetLed("clock", TRUE) \o Rest(bytes, 0, 0) \in Seq(Command)
    BY <2>1, <2>2, <2>3, <2>4, CommandTypes
  <2>6. Pulse(bytes) # <<>>
    BY <2>3, <2>4, <2>5 DEF Pulse
  <2>7. ASSUME InBits(bytes, p) PROVE FALSE
    <3>1. /\ p[1] \in 0 .. Len(bytes) /\ p[2] \in 0 .. BITS_PER_BYTE - 1
          /\ p[2] \in 0 .. BITS_PER_BYTE /\ p[2] + 1 \in 0 .. BITS_PER_BYTE
      BY <2>7, ScriptAssumption DEF InBits
    <3>2. Rest(bytes, p[1], p[2]) # <<>>
      <4>1. ToggleLed("clock") \o Rest(bytes, p[1], p[2] + 1) \in Seq(Command)
        BY <2>2, <2>3, <3>1, CommandTypes
      <4>2. Sends(bytes, p[1])[p[2]] \in BOOLEAN
        <5>1. Sends(bytes, p[1]) \in [0 .. BITS_PER_BYTE - 1 -> BOOLEAN]
          BY <3>1, SendsBytes DEF Byte
        <5> QED  BY <3>1, <5>1
      <4> QED  BY <2>1, <2>3, <2>4, <3>1, <4>1, <4>2, RestBit
    <3>3. /\ ToggleLed("info") \o Rest(bytes, p[1], 0) # <<>>
          /\ ToggleLed("clock") \o Rest(bytes, p[1], p[2] + 1) # <<>>
      BY <2>1, <2>2, <2>3, <2>4, <3>1
    <3>4. p # Awake /\ p # Done(bytes)
      BY <2>1, <2>7, MarkNumbers
    <3> QED  BY <1>2, <3>2, <3>3, <3>4 DEF HostAt
  <2> QED  BY <1>2, <2>5, <2>6, <2>7 DEF HostAt
<1> QED  BY <1>1, <1>2

\* The commands of the start: the clock is switched off, and the script falls asleep.
LEMMA StartCommands ==
  ASSUME NEW bytes, Payload(bytes)
  PROVE  /\ Pulse(bytes) \in Seq(Command) /\ Asleep(bytes) \in Seq(Command)
         /\ SetLed("data", FALSE) \o Asleep(bytes) \in Seq(Command)
         /\ Asleep(bytes) = SyncSleep \o Pulse(bytes)
         /\ SendStringPayload(bytes)
              = SetLed("clock", FALSE) \o (SetLed("data", FALSE) \o Asleep(bytes))
         /\ SendStringPayload(bytes) # <<>> /\ Head(SendStringPayload(bytes)).op # "sleep"
         /\ SetLed("data", FALSE) \o Asleep(bytes) # <<>>
         /\ Head(SetLed("data", FALSE) \o Asleep(bytes)).op # "sleep"
         /\ Asleep(bytes) # <<>>
<1>1. bytes \in Seq(Byte) /\ Len(bytes) <= MaxByte /\ 0 \in 0 .. Len(bytes)
      /\ 0 \in 0 .. BITS_PER_BYTE
  BY LenProperties, ScriptAssumption DEF Payload
<1>2. Rest(bytes, 0, 0) \in Seq(Command)
  BY <1>1, RestType
<1>3. Pulse(bytes) \in Seq(Command)
  BY <1>2, CommandTypes DEF Pulse
<1>4. Asleep(bytes) \in Seq(Command)
  BY <1>3, CommandTypes DEF Asleep
<1> DEFINE data == SetLed("data", FALSE) \o Asleep(bytes)
<1>5. "clock" \in LEDs /\ "data" \in LEDs
  BY DEF LEDs
<1>6. data \in Seq(Command) /\ data # <<>> /\ Head(data).op # "sleep"
  BY <1>4, <1>5, CommandTypes, SetKey
<1>7. SendStringPayload(bytes) = SetLed("clock", FALSE) \o data
  BY <1>1, RunCommands
<1> HIDE DEF data
<1>8. SendStringPayload(bytes) # <<>> /\ Head(SendStringPayload(bytes)).op # "sleep"
  BY <1>5, <1>6, <1>7, SetKey
<1>9. Asleep(bytes) # <<>>
  BY <1>3, SleepKey DEF Asleep
<1> QED  BY <1>3, <1>4, <1>6, <1>7, <1>8, <1>9 DEF Asleep, data
=============================================================================
