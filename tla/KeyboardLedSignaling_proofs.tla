--------------------- MODULE KeyboardLedSignaling_proofs ---------------------
(***************************************************************************)
(* For every width of a byte, every value of a length byte and every       *)
(* timeout: the decoder is type correct, keeps its counters in step with   *)
(* the payload, joins no bits across a timeout, holds what the bits of the *)
(* frame stand for, and completes at its announced length.  The loop       *)
(* around it leaves it what it is, and shows of every frame its own        *)
(* progress.                                                               *)
(***************************************************************************)
EXTENDS Screen, SequenceTheorems, TLAPS

\* In a frame under way, the counter is one ahead of the payload, which is
\* shorter than announced; in a complete frame, it is as long as announced.
Counting ==
  /\ state = "Receiving" =>
       \/ byteCount = 0 /\ payloadSize = 0 /\ receivedString = <<>>
       \/ byteCount = Len(receivedString) + 1 /\ Len(receivedString) < payloadSize
  /\ state = "Complete" => Len(receivedString) = payloadSize

IInv == TypeOK /\ Counting /\ NoStitchedFrame

LEMMA InitIInv == Init => IInv
<1> SUFFICES ASSUME Init PROVE IInv
  OBVIOUS
<1>1. NoBits \in Byte
  BY DEF NoBits, Byte
<1>2. <<>> \in Seq(Byte) /\ <<>> \in Seq(BOOLEAN)
  BY EmptySeq
<1>3. TypeOK
  <2>1. 0 \in 0 .. ClockTimeout /\ 0 \in 0 .. BITS_PER_BYTE - 1 /\ 0 \in 0 .. MaxByte
    BY DecoderAssumption
  <2>2. /\ state \in {"Idle", "Receiving", "Complete"} /\ lastClockLed \in BOOLEAN
        /\ silence \in 0 .. ClockTimeout /\ gap \in 0 .. ClockTimeout
        /\ bitIndex \in 0 .. BITS_PER_BYTE - 1
        /\ byteCount \in 0 .. MaxByte /\ payloadSize \in 0 .. MaxByte
    BY <2>1 DEF Init
  <2>3. currentByte \in Byte /\ receivedString \in Seq(Byte) /\ bits \in Seq(BOOLEAN)
    BY <1>1, <1>2 DEF Init
  <2> QED BY <2>2, <2>3 DEF TypeOK
<1>4. Counting /\ NoStitchedFrame
  BY DEF Init, Counting, NoStitchedFrame
<1> QED BY <1>3, <1>4 DEF IInv

\* The clock variables stay in their types.
LEMMA SampleType ==
  ASSUME TypeOK, NEW clockLed \in BOOLEAN, NEW elapsed \in 0 .. ClockTimeout,
         SampleClock(clockLed, elapsed)
  PROVE  /\ lastClockLed' \in BOOLEAN /\ silence' \in 0 .. ClockTimeout
         /\ Rested(elapsed) \in 0 .. ClockTimeout
  BY DecoderAssumption DEF TypeOK, SampleClock, Rested

\* A bit shifted into a byte gives a byte.
LEMMA ShiftedType ==
  ASSUME TypeOK, NEW dataLed \in BOOLEAN
  PROVE  Shifted(dataLed) \in Byte
<1>1. (currentByte[bitIndex] \/ dataLed) \in BOOLEAN
  OBVIOUS
<1> DEFINE bit == currentByte[bitIndex] \/ dataLed
<1>2. currentByte \in [0 .. BITS_PER_BYTE - 1 -> BOOLEAN] /\ bit \in BOOLEAN
  BY <1>1 DEF TypeOK, Byte
<1> HIDE DEF bit
<1>3. [currentByte EXCEPT ![bitIndex] = bit] \in [0 .. BITS_PER_BYTE - 1 -> BOOLEAN]
  BY <1>2
<1> QED BY <1>3 DEF Shifted, Byte, bit

\* What processCompletedByte does to the counters.
LEMMA CompletedByte ==
  ASSUME IInv, state = "Receiving", NEW byte \in Byte, ProcessCompletedByte(byte)
  PROVE  /\ state' \in {"Receiving", "Complete"}
         /\ bitIndex' \in 0 .. BITS_PER_BYTE - 1 /\ currentByte' \in Byte
         /\ byteCount' \in 0 .. MaxByte /\ payloadSize' \in 0 .. MaxByte
         /\ receivedString' \in Seq(Byte)
         /\ Counting'
<1> USE DEF IInv, TypeOK
<1>1. SizeOf[byte] \in 0 .. MaxByte
  BY DecoderAssumption
<1>2. /\ Append(receivedString, byte) \in Seq(Byte)
      /\ Len(Append(receivedString, byte)) = Len(receivedString) + 1
      /\ Len(receivedString) \in Nat
  BY AppendProperties, LenProperties
<1>3. SizeWith(byte) \in 0 .. MaxByte /\ StringWith(byte) \in Seq(Byte)
  BY <1>1, <1>2 DEF SizeWith, StringWith
<1>4. payloadSize' = SizeWith(byte) /\ receivedString' = StringWith(byte)
  BY DEF ProcessCompletedByte
<1>5. byteCount' \in 0 .. MaxByte
  BY DecoderAssumption DEF ProcessCompletedByte
<1>6. state' = IF Len(StringWith(byte)) = SizeWith(byte) THEN "Complete" ELSE "Receiving"
  BY DEF ProcessCompletedByte
<1>7. bitIndex' \in 0 .. BITS_PER_BYTE - 1 /\ currentByte' \in Byte
  BY DecoderAssumption DEF ProcessCompletedByte, NoBits, Byte
<1>8. Counting'
  <2>1. CASE Len(StringWith(byte)) = SizeWith(byte)
    BY <2>1, <1>4, <1>6 DEF Counting
  <2>2. CASE Len(StringWith(byte)) # SizeWith(byte)
    <3>1. Len(StringWith(byte)) = byteCount /\ byteCount < SizeWith(byte)
      <4>1. CASE byteCount = 0
        <5>1. receivedString = <<>> /\ Len(receivedString) = 0
          BY <4>1, <1>2, EmptySeq DEF Counting
        <5> QED BY <4>1, <5>1, <2>2, <1>1 DEF SizeWith, StringWith
      <4>2. CASE byteCount # 0
        <5>1. byteCount = Len(receivedString) + 1 /\ Len(receivedString) < payloadSize
          BY <4>2 DEF Counting
        <5> QED BY <4>2, <5>1, <2>2, <1>2 DEF SizeWith, StringWith
      <4> QED BY <4>1, <4>2
    <3>2. byteCount + 1 \in 0 .. MaxByte
      BY <3>1, <1>3, DecoderAssumption
    <3>3. byteCount' = (byteCount + 1) % (MaxByte + 1)
      BY DEF ProcessCompletedByte
    <3>4. byteCount' = byteCount + 1
      <4> DEFINE m == MaxByte + 1
                 c == byteCount + 1
      <4>1. m \in Nat \ {0} /\ c \in 0 .. m - 1
        BY <3>2, DecoderAssumption
      <4> HIDE DEF m, c
      <4>2. c % m = c
        BY <4>1
      <4> QED BY <3>3, <4>2 DEF m, c
    <3> QED BY <2>2, <3>1, <3>4, <1>4, <1>6 DEF Counting
  <2> QED BY <2>1, <2>2
<1> QED BY <1>3, <1>4, <1>5, <1>6, <1>7, <1>8

\* A timeout ends the frame.
LEMMA TimeoutEndsFrame ==
  ASSUME NEW clockLed, NEW dataLed, NEW elapsed, TimedOut(elapsed),
         Update(clockLed, dataLed, elapsed)
  PROVE  state' = "Idle"
  BY DEF Update, ClockChanged, HandleIdleState, TimedOut

\* The history of a frame has no rest of ClockTimeout in it.
LEMMA RecordType ==
  ASSUME IInv, NEW clockLed \in BOOLEAN, NEW dataLed \in BOOLEAN,
         NEW elapsed \in 0 .. ClockTimeout, Sample(clockLed, dataLed, elapsed)
  PROVE  bits' \in Seq(BOOLEAN) /\ gap' \in 0 .. ClockTimeout /\ NoStitchedFrame'
<1> USE DEF Sample
<1>1. Rested(elapsed) \in 0 .. ClockTimeout
  BY DecoderAssumption DEF IInv, TypeOK, Rested
<1>2. CASE NoHistory
  <2>1. bits' \in Seq(BOOLEAN)
    BY <1>2, EmptySeq DEF NoHistory
  <2> QED BY <1>2, <2>1, DecoderAssumption DEF NoHistory, NoStitchedFrame
<1>3. ASSUME state = "Receiving", state' # "Idle", bits' = Append(bits, dataLed),
             gap' = IF Rested(elapsed) > gap THEN Rested(elapsed) ELSE gap
      PROVE  bits' \in Seq(BOOLEAN) /\ gap' \in 0 .. ClockTimeout /\ NoStitchedFrame'
  <2>1. bits' \in Seq(BOOLEAN)
    BY <1>3, AppendProperties DEF IInv, TypeOK
  <2>2. ~TimedOut(elapsed)
    BY <1>3, TimeoutEndsFrame
  <2>3. Rested(elapsed) < ClockTimeout
    BY <1>1, <1>3, <2>2, DecoderAssumption DEF TimedOut
  <2> QED BY <1>1, <1>3, <2>1, <2>3 DEF IInv, TypeOK, NoStitchedFrame
<1>4. CASE state \in {"Receiving", "Complete"} /\ UNCHANGED <<bits, gap>>
  BY <1>4 DEF IInv, TypeOK, NoStitchedFrame
<1> QED BY <1>2, <1>3, <1>4 DEF Record, IInv, TypeOK

LEMMA NextIInv == IInv /\ [Next]_vars => IInv'
<1> SUFFICES ASSUME IInv, [Next]_vars PROVE IInv'
  OBVIOUS
<1>1. ASSUME NEW clockLed \in BOOLEAN, NEW dataLed \in BOOLEAN,
             NEW elapsed \in 0 .. ClockTimeout,
             Sample(clockLed, dataLed, elapsed)
      PROVE  IInv'
  <2>1. /\ lastClockLed' \in BOOLEAN /\ silence' \in 0 .. ClockTimeout
        /\ bits' \in Seq(BOOLEAN) /\ gap' \in 0 .. ClockTimeout /\ NoStitchedFrame'
    BY <1>1, SampleType, RecordType DEF IInv, Sample, Update
  <2>2. ASSUME NEW start, HandleIdleState(start) PROVE IInv'
    BY <2>1, <2>2, DecoderAssumption
       DEF HandleIdleState, IInv, TypeOK, Counting, Byte, NoBits
  <2>3. CASE state \in {"Receiving", "Complete"} /\ UNCHANGED <<state, frameVars>>
    BY <2>1, <2>3 DEF frameVars, IInv, TypeOK, Counting
  <2>4. Shifted(dataLed) \in Byte
    BY ShiftedType DEF IInv
  <2>5. CASE state = "Receiving" /\ AddBit(dataLed)
    BY <2>1, <2>4, <2>5, DecoderAssumption DEF AddBit, IInv, TypeOK, Counting
  <2>6. CASE state = "Receiving" /\ LastBit(dataLed)
    <3>1. /\ state' \in {"Receiving", "Complete"}
          /\ bitIndex' \in 0 .. BITS_PER_BYTE - 1 /\ currentByte' \in Byte
          /\ byteCount' \in 0 .. MaxByte /\ payloadSize' \in 0 .. MaxByte
          /\ receivedString' \in Seq(Byte)
          /\ Counting'
      BY <2>4, <2>6, CompletedByte DEF LastBit
    <3> QED BY <2>1, <3>1 DEF IInv, TypeOK
  <2> QED BY <1>1, <2>2, <2>3, <2>5, <2>6 DEF Sample, Update, HandleReceivingState
<1>2. CASE Acknowledge
  <2>1. bits' \in Seq(BOOLEAN) /\ gap' \in 0 .. ClockTimeout
    BY <1>2, EmptySeq, DecoderAssumption DEF Acknowledge, NoHistory
  <2> QED
    BY <1>2, <2>1 DEF Acknowledge, Reset, clockVars, frameVars, IInv, TypeOK,
       Counting, NoStitchedFrame
<1>3. CASE UNCHANGED vars
  BY <1>3 DEF vars, clockVars, frameVars, IInv, TypeOK, Counting, NoStitchedFrame
<1> QED BY <1>1, <1>2, <1>3 DEF Next

LEMMA InvariantIInv == Spec => []IInv
  BY InitIInv, NextIInv, PTL DEF Spec

\* The decoder's counters stay within uint8_t, its bit index within a byte.
THEOREM TypeCorrect == Spec => []TypeOK
<1>1. IInv => TypeOK
  BY DEF IInv
<1> QED BY <1>1, InvariantIInv, PTL

\* While a frame is received, the progress bar of main.cpp is at most full.
THEOREM ProgressBounded == Spec => []ProgressInBar
<1>1. IInv => ProgressInBar
  <2> SUFFICES ASSUME IInv, state = "Receiving", payloadSize > 0
               PROVE  byteCount <= payloadSize
    BY DEF ProgressInBar
  <2>1. Len(receivedString) \in Nat /\ payloadSize \in Nat
    BY LenProperties, DecoderAssumption DEF IInv, TypeOK
  <2> QED BY <2>1 DEF IInv, Counting
<1> QED BY <1>1, InvariantIInv, PTL

\* A frame the decoder is receiving or has completed has no rest of the clock
\* of ClockTimeout or more between its bits.
THEOREM FramesAreContiguous == Spec => []NoStitchedFrame
<1>1. IInv => NoStitchedFrame
  BY DEF IInv
<1> QED BY <1>1, InvariantIInv, PTL

\* LED traffic leaves a complete payload as it is until reset() and a new frame.
THEOREM CompletePayloadKept == Spec => CompleteIsStable
<1>1. [Next]_vars => (state = "Complete" => UNCHANGED <<receivedString, payloadSize>>)
  <2> SUFFICES ASSUME [Next]_vars, state = "Complete"
               PROVE  UNCHANGED <<receivedString, payloadSize>>
    OBVIOUS
  <2>1. ASSUME NEW clockLed \in BOOLEAN, NEW dataLed \in BOOLEAN,
               NEW elapsed \in 0 .. ClockTimeout,
               Sample(clockLed, dataLed, elapsed)
        PROVE  UNCHANGED <<receivedString, payloadSize>>
    BY <2>1 DEF Sample, Update, TimedOut, frameVars
  <2> QED BY <2>1 DEF Next, Acknowledge, Reset, vars, frameVars
<1> QED BY <1>1, PTL DEF Spec, CompleteIsStable

(***************************************************************************)
(* What the bits of a frame stand for                                      *)
(***************************************************************************)

\* Division with rest, by a divisor that is not fixed.
LEMMA DivisionWithRest ==
  ASSUME NEW b \in Nat \ {0}, NEW q \in Nat, NEW r \in 0 .. b - 1
  PROVE  (q * b + r) \div b = q /\ (q * b + r) % b = r
  OBVIOUS

\* A byte that has no bits yet.
LEMMA EmptyFrameByte ==
  ASSUME NEW k \in Nat, bits' \in Seq(BOOLEAN), Len(bits') <= k * BITS_PER_BYTE
  PROVE  FrameByte(k)' = NoBits
<1> DEFINE base == k * BITS_PER_BYTE
<1>1. base \in Nat /\ Len(bits') \in Nat
  BY DecoderAssumption, LenProperties
<1> HIDE DEF base
<1>2. \A i \in 0 .. BITS_PER_BYTE - 1 : ~(base + i + 1 <= Len(bits'))
  BY <1>1, DecoderAssumption DEF base
<1> QED  BY <1>2 DEF FrameByte, NoBits, base

\* A later bit leaves the bytes before it as they are.
LEMMA KeptFrameByte ==
  ASSUME NEW k \in Nat, NEW bit \in BOOLEAN, bits \in Seq(BOOLEAN), bits' = Append(bits, bit),
         (k + 1) * BITS_PER_BYTE <= Len(bits)
  PROVE  FrameByte(k)' = FrameByte(k)
<1> DEFINE base == k * BITS_PER_BYTE
<1>1. base \in Nat /\ Len(bits) \in Nat /\ base + BITS_PER_BYTE <= Len(bits)
  BY DecoderAssumption, LenProperties
<1> HIDE DEF base
<1>2. \A i \in 0 .. BITS_PER_BYTE - 1 : base + i + 1 \in 1 .. Len(bits)
  BY <1>1, DecoderAssumption
<1>3. Len(bits') = Len(bits) + 1 /\ \A j \in 1 .. Len(bits) : bits'[j] = bits[j]
  BY AppendProperties
<1>4. \A i \in 0 .. BITS_PER_BYTE - 1 :
        /\ base + i + 1 <= Len(bits) /\ base + i + 1 <= Len(bits')
        /\ bits'[base + i + 1] = bits[base + i + 1]
  BY <1>1, <1>2, <1>3
<1> QED  BY <1>4 DEF FrameByte, base

\* Shifting a bit in gives the byte as its sender meant it.
LEMMA ShiftedFrameByte ==
  ASSUME TypeOK, NEW k \in Nat, NEW bit \in BOOLEAN, bits' = Append(bits, bit),
         Len(bits) = k * BITS_PER_BYTE + bitIndex, currentByte = FrameByte(k)
  PROVE  Shifted(bit) = FrameByte(k)'
<1> DEFINE base == k * BITS_PER_BYTE
<1>1. base \in Nat /\ Len(bits) = base + bitIndex /\ bitIndex \in 0 .. BITS_PER_BYTE - 1
  BY DecoderAssumption DEF TypeOK
<1>2. \A i \in 0 .. BITS_PER_BYTE - 1 :
        currentByte[i] = (base + i + 1 <= Len(bits) /\ bits[base + i + 1])
  BY DEF FrameByte
<1>3. FrameByte(k)' = [i \in 0 .. BITS_PER_BYTE - 1 |->
                         base + i + 1 <= Len(bits') /\ bits'[base + i + 1]]
  BY DEF FrameByte
<1> HIDE DEF base
<1>4. /\ Len(bits') = Len(bits) + 1 /\ bits'[Len(bits) + 1] = bit
      /\ \A j \in 1 .. Len(bits) : bits'[j] = bits[j]
  BY AppendProperties DEF TypeOK
<1>5. Shifted(bit) = [i \in 0 .. BITS_PER_BYTE - 1 |->
                        IF i = bitIndex THEN currentByte[bitIndex] \/ bit ELSE currentByte[i]]
  BY DEF Shifted, TypeOK, Byte
<1>6. ASSUME NEW i \in 0 .. BITS_PER_BYTE - 1
      PROVE  (IF i = bitIndex THEN currentByte[bitIndex] \/ bit ELSE currentByte[i])
               = (base + i + 1 <= Len(bits') /\ bits'[base + i + 1])
  <2>1. CASE i = bitIndex
    <3>1. ~(base + i + 1 <= Len(bits)) /\ base + i + 1 <= Len(bits') /\ base + i + 1 = Len(bits) + 1
      BY <1>1, <1>4, <2>1, DecoderAssumption
    <3>2. currentByte[bitIndex] = FALSE /\ bits'[base + i + 1] = bit
      BY <1>2, <1>4, <2>1, <3>1
    <3> QED  BY <2>1, <3>1, <3>2
  <2>2. CASE i < bitIndex
    <3>1. base + i + 1 <= Len(bits) /\ base + i + 1 <= Len(bits') /\ base + i + 1 \in 1 .. Len(bits)
      BY <1>1, <1>4, <2>2, DecoderAssumption
    <3>2. currentByte[i] = (base + i + 1 <= Len(bits) /\ bits[base + i + 1]) /\ i # bitIndex
      BY <1>1, <1>2, <2>2, DecoderAssumption
    <3>3. bits'[base + i + 1] = bits[base + i + 1]
      BY <1>4, <3>1
    <3> QED  BY <3>1, <3>2, <3>3
  <2>3. CASE i > bitIndex
    <3>1. ~(base + i + 1 <= Len(bits)) /\ ~(base + i + 1 <= Len(bits')) /\ i # bitIndex
      BY <1>1, <1>4, <2>3, DecoderAssumption
    <3> QED  BY <1>2, <3>1
  <2> QED  BY <1>1, <2>1, <2>2, <2>3, DecoderAssumption
<1> QED  BY <1>3, <1>5, <1>6

\* The decoder holds n whole bytes of the frame, the first of them the size, and
\* the bits of the next one.
Holds(n) ==
  /\ Len(bits) = n * BITS_PER_BYTE + bitIndex
  /\ currentByte = FrameByte(n)
  /\ byteCount = n % (MaxByte + 1)
  /\ payloadSize = IF n = 0 THEN 0 ELSE SizeOf[FrameByte(0)]
  /\ Len(receivedString) = IF n = 0 THEN 0 ELSE n - 1
  /\ \A k \in 1 .. Len(receivedString) : receivedString[k] = FrameByte(k)
  /\ state = "Receiving" => byteCount = n
  /\ state = "Complete" => bitIndex = 0 /\ n # 0

FrameInv == state \in {"Receiving", "Complete"} => \E n \in Nat : Holds(n)

\* A new frame has no bits.
LEMMA NewFrame ==
  ASSUME NEW start, HandleIdleState(start), bits' = <<>>
  PROVE  FrameInv'
<1>1. bits' \in Seq(BOOLEAN) /\ Len(bits') = 0 /\ 0 * BITS_PER_BYTE = 0
  BY EmptySeq, DecoderAssumption
<1>2. FrameByte(0)' = NoBits
  BY <1>1, EmptyFrameByte
<1>3. 0 % (MaxByte + 1) = 0
  <2> DEFINE m == MaxByte + 1
  <2>1. m \in Nat \ {0}
    BY DecoderAssumption
  <2> HIDE DEF m
  <2>2. 0 % m = 0
    BY <2>1
  <2> QED  BY <2>2 DEF m
<1>4. Len(receivedString') = 0 /\ state' # "Complete"
  BY DEF HandleIdleState
<1>5. Holds(0)'
  BY <1>1, <1>2, <1>3, <1>4 DEF HandleIdleState, Holds
<1> QED  BY <1>5 DEF FrameInv

\* A bit within a byte.
LEMMA BitAdded ==
  ASSUME TypeOK, state = "Receiving", NEW n \in Nat, Holds(n), NEW bit \in BOOLEAN,
         bits' = Append(bits, bit), AddBit(bit)
  PROVE  Holds(n)'
<1> DEFINE base == n * BITS_PER_BYTE
<1>1. Shifted(bit) = FrameByte(n)'
  BY ShiftedFrameByte DEF Holds
<1>2. base \in Nat /\ Len(bits) = base + bitIndex /\ bitIndex \in Nat
  BY DecoderAssumption DEF Holds, TypeOK
<1>3. ASSUME NEW k \in Nat, k < n PROVE FrameByte(k)' = FrameByte(k)
  <2>1. (k + 1) * BITS_PER_BYTE <= base
    BY <1>3, DecoderAssumption
  <2>2. (k + 1) * BITS_PER_BYTE \in Nat
    BY DecoderAssumption
  <2>3. (k + 1) * BITS_PER_BYTE <= Len(bits)
    BY <1>2, <2>1, <2>2
  <2> QED  BY <2>3, KeptFrameByte DEF TypeOK
<1> HIDE DEF base
<1>4. Len(bits') = base + bitIndex'
  <2>1. Len(bits') = Len(bits) + 1
    BY AppendProperties DEF TypeOK
  <2>2. bitIndex' = bitIndex + 1
    BY DEF AddBit
  <2> QED  BY <1>2, <2>1, <2>2
<1>5. n # 0 => SizeOf[FrameByte(0)'] = SizeOf[FrameByte(0)]
  BY <1>3
<1>6. \A k \in 1 .. Len(receivedString) : FrameByte(k)' = FrameByte(k)
  BY <1>3 DEF Holds
<1> QED  BY <1>1, <1>4, <1>5, <1>6 DEF Holds, AddBit, base

\* The last bit of a byte.
LEMMA ByteCompleted ==
  ASSUME IInv, state = "Receiving", NEW n \in Nat, Holds(n), NEW bit \in BOOLEAN,
         bits' = Append(bits, bit), LastBit(bit), Counting', TypeOK'
  PROVE  Holds(n + 1)'
<1> USE DEF IInv
<1> DEFINE base == n * BITS_PER_BYTE
           byte == Shifted(bit)
<1>1. byte = FrameByte(n)' /\ byte \in Byte
  BY ShiftedFrameByte, ShiftedType DEF Holds
<1>2. base \in Nat /\ Len(bits) = base + bitIndex /\ bitIndex \in Nat
      /\ (n + 1) * BITS_PER_BYTE = base + BITS_PER_BYTE
  BY DecoderAssumption DEF Holds, TypeOK
<1>3. ASSUME NEW k \in Nat, k < n PROVE FrameByte(k)' = FrameByte(k)
  <2>1. (k + 1) * BITS_PER_BYTE <= base
    BY <1>3, DecoderAssumption
  <2>2. (k + 1) * BITS_PER_BYTE \in Nat
    BY DecoderAssumption
  <2>3. (k + 1) * BITS_PER_BYTE <= Len(bits)
    BY <1>2, <2>1, <2>2
  <2> QED  BY <2>3, KeptFrameByte DEF TypeOK
<1> HIDE DEF base
<1>4. Len(bits') = (n + 1) * BITS_PER_BYTE /\ bitIndex' = 0
  <2>1. Len(bits') = Len(bits) + 1
    BY AppendProperties DEF TypeOK
  <2>2. bitIndex + 1 = BITS_PER_BYTE /\ bitIndex' = 0
    BY DEF LastBit, ProcessCompletedByte
  <2> QED  BY <1>2, <2>1, <2>2
<1>5. currentByte' = FrameByte(n + 1)'
  <2>1. PICK k \in Nat : k = n + 1
    OBVIOUS
  <2>2. Len(bits') <= k * BITS_PER_BYTE /\ bits' \in Seq(BOOLEAN)
    BY <1>2, <1>4, <2>1 DEF TypeOK
  <2> QED  BY <2>1, <2>2, EmptyFrameByte DEF LastBit, ProcessCompletedByte
<1> HIDE DEF byte
<1>6. /\ payloadSize' = SizeWith(byte) /\ receivedString' = StringWith(byte)
      /\ byteCount' = (byteCount + 1) % (MaxByte + 1)
      /\ state' = IF Len(StringWith(byte)) = SizeWith(byte) THEN "Complete" ELSE state
  BY DEF LastBit, ProcessCompletedByte, byte
<1>7. byteCount = n
  BY DEF Holds
<1>8. payloadSize' = SizeOf[FrameByte(0)']
  <2>1. CASE n = 0
    BY <1>1, <1>6, <1>7, <2>1 DEF SizeWith
  <2>2. CASE n # 0
    BY <1>3, <1>6, <1>7, <2>2 DEF SizeWith, Holds
  <2> QED  BY <2>1, <2>2
<1>9. /\ Len(receivedString') = n
      /\ \A k \in 1 .. n : receivedString'[k] = FrameByte(k)'
  <2>1. CASE n = 0
    BY <1>6, <1>7, <2>1 DEF StringWith, Holds
  <2>2. CASE n # 0
    <3>1. receivedString' = Append(receivedString, byte) /\ Len(receivedString) = n - 1
      BY <1>6, <1>7, <2>2 DEF StringWith, Holds
    <3>2. /\ Len(receivedString') = n /\ receivedString'[n] = byte
          /\ \A k \in 1 .. n - 1 : receivedString'[k] = receivedString[k]
      <4>1. receivedString \in Seq(Byte) /\ Len(receivedString) + 1 = n
        BY <3>1 DEF TypeOK
      <4>2. /\ Len(receivedString') = Len(receivedString) + 1
            /\ receivedString'[Len(receivedString) + 1] = byte
            /\ \A k \in 1 .. Len(receivedString) : receivedString'[k] = receivedString[k]
        BY <1>1, <3>1, <4>1, AppendProperties
      <4> QED  BY <3>1, <4>1, <4>2
    <3>3. \A k \in 1 .. n - 1 : receivedString[k] = FrameByte(k)'
      BY <1>3, <3>1 DEF Holds
    <3> QED  BY <1>1, <3>2, <3>3
  <2> QED  BY <2>1, <2>2
<1>10. state' = "Receiving" => byteCount' = n + 1
  <2> SUFFICES ASSUME state' = "Receiving" PROVE byteCount' = n + 1
    OBVIOUS
  <2>1. Len(receivedString') # payloadSize'
    BY <1>6
  <2>2. ~(payloadSize' = 0 /\ receivedString' = <<>>)
    BY <2>1
  <2> QED  BY <1>9, <2>2 DEF Counting
<1> QED
  BY <1>4, <1>5, <1>6, <1>7, <1>8, <1>9, <1>10 DEF Holds

LEMMA NextFrameInv == IInv /\ FrameInv /\ [Next]_vars => FrameInv'
<1> SUFFICES ASSUME IInv, FrameInv, [Next]_vars PROVE FrameInv'
  OBVIOUS
<1>1. ASSUME UNCHANGED <<state, frameVars, bits>> PROVE FrameInv'
  <2>1. \A k : FrameByte(k)' = FrameByte(k)
    BY <1>1 DEF FrameByte
  <2>2. ASSUME NEW n \in Nat, Holds(n) PROVE Holds(n)'
    BY <1>1, <2>1, <2>2 DEF Holds, frameVars
  <2> QED  BY <1>1, <2>2 DEF FrameInv
<1>2. ASSUME NEW clockLed \in BOOLEAN, NEW dataLed \in BOOLEAN,
             NEW elapsed \in 0 .. ClockTimeout,
             Sample(clockLed, dataLed, elapsed)
      PROVE  FrameInv'
  <2>1. CASE state = "Idle"
    <3>1. PICK start : HandleIdleState(start) /\ bits' = <<>>
      BY <1>2, <2>1 DEF Sample, Update, TimedOut, Record, NoHistory
    <3> QED  BY <3>1, NewFrame
  <2>2. CASE TimedOut(elapsed)
    BY <1>2, <2>2, TimeoutEndsFrame DEF Sample, FrameInv
  <2>3. CASE state = "Receiving" /\ ~TimedOut(elapsed) /\ ClockChanged(clockLed, elapsed)
    <3>1. AddBit(dataLed) \/ LastBit(dataLed)
      BY <1>2, <2>3 DEF Sample, Update, HandleReceivingState
    <3>2. bits' = Append(bits, dataLed)
      BY <1>2, <2>3, <3>1
         DEF Sample, Record, ClockChanged, AddBit, LastBit, ProcessCompletedByte
    <3>3. PICK n \in Nat : Holds(n)
      BY <2>3 DEF FrameInv
    <3>4. CASE AddBit(dataLed)
      <4>1. Holds(n)'
        BY <2>3, <3>2, <3>3, <3>4, BitAdded DEF IInv
      <4> QED  BY <4>1 DEF FrameInv
    <3>5. CASE LastBit(dataLed)
      <4>1. IInv'
        BY NextIInv
      <4>2. Holds(n + 1)'
        BY <2>3, <3>2, <3>3, <3>5, <4>1, ByteCompleted DEF IInv
      <4>3. n + 1 \in Nat
        OBVIOUS
      <4> QED  BY <4>2, <4>3 DEF FrameInv
    <3> QED  BY <3>1, <3>4, <3>5
  <2>4. CASE state \in {"Receiving", "Complete"} /\ ~TimedOut(elapsed)
             /\ (state = "Receiving" => ~ClockChanged(clockLed, elapsed))
    <3>1. UNCHANGED <<state, frameVars>>
      BY <1>2, <2>4 DEF Sample, Update, HandleReceivingState, AddBit, LastBit
    <3>2. UNCHANGED bits
      BY <1>2, <2>4, <3>1 DEF Sample, Record, ClockChanged
    <3> QED  BY <1>1, <3>1, <3>2
  <2> QED  BY <2>1, <2>2, <2>3, <2>4 DEF IInv, TypeOK
<1>3. CASE Acknowledge
  BY <1>3 DEF Acknowledge, Reset, FrameInv
<1>4. CASE UNCHANGED vars
  BY <1>1, <1>4 DEF vars
<1> QED  BY <1>2, <1>3, <1>4 DEF Next

LEMMA InvariantFrameInv == Spec => [](IInv /\ FrameInv)
<1>1. Init => FrameInv
  BY DEF Init, FrameInv
<1> QED  BY <1>1, InitIInv, NextIInv, NextFrameInv, PTL DEF Spec

\* Holding n bytes means that n is the number of whole bytes among the bits.
LEMMA BytesHeld ==
  ASSUME TypeOK, NEW n \in Nat, Holds(n)
  PROVE  FrameBytes = n /\ bitIndex = Len(bits) % BITS_PER_BYTE
<1>1. BITS_PER_BYTE \in Nat \ {0} /\ bitIndex \in 0 .. BITS_PER_BYTE - 1
  BY DecoderAssumption DEF TypeOK
<1>2. /\ (n * BITS_PER_BYTE + bitIndex) \div BITS_PER_BYTE = n
      /\ (n * BITS_PER_BYTE + bitIndex) % BITS_PER_BYTE = bitIndex
  BY <1>1, DivisionWithRest
<1>3. Len(bits) = n * BITS_PER_BYTE + bitIndex
  BY DEF Holds
<1> QED  BY <1>2, <1>3 DEF FrameBytes

\* At every point of a frame, and for every width of a byte, the decoder holds what
\* the bits since the start edge stand for: update and accumulator against the frame.
THEOREM FrameDecoded == Spec => []DecodesFrame
<1>1. IInv /\ FrameInv => DecodesFrame
  <2> SUFFICES ASSUME IInv, FrameInv, state \in {"Receiving", "Complete"}
               PROVE  /\ bitIndex = Len(bits) % BITS_PER_BYTE
                      /\ currentByte = FrameByte(FrameBytes)
                      /\ byteCount = FrameBytes % (MaxByte + 1)
                      /\ payloadSize = IF FrameBytes = 0 THEN 0 ELSE SizeOf[FrameByte(0)]
                      /\ receivedString = [k \in 1 .. FrameBytes - 1 |-> FrameByte(k)]
    BY DEF DecodesFrame
  <2>1. PICK n \in Nat : Holds(n)
    BY DEF FrameInv
  <2>2. FrameBytes = n /\ bitIndex = Len(bits) % BITS_PER_BYTE
    BY <2>1, BytesHeld DEF IInv
  <2>3. receivedString = [k \in 1 .. n - 1 |-> FrameByte(k)]
    <3>1. receivedString = [k \in 1 .. Len(receivedString) |-> receivedString[k]]
      BY LenProperties DEF IInv, TypeOK
    <3>2. 1 .. Len(receivedString) = 1 .. n - 1
      BY <2>1 DEF Holds
    <3>3. \A k \in 1 .. Len(receivedString) : receivedString[k] = FrameByte(k)
      BY <2>1 DEF Holds
    <3> QED  BY <3>1, <3>2, <3>3
  <2> QED  BY <2>1, <2>2, <2>3 DEF Holds
<1> QED  BY <1>1, InvariantFrameInv, PTL

\* A frame is complete at the last bit of the last byte it announced, and not before.
THEOREM CompletedInTime == Spec => []CompletesExactly
<1>1. IInv /\ FrameInv => CompletesExactly
  <2> DEFINE size == SizeOf[FrameByte(0)]
             whole == FrameBytes > 0 /\ Len(bits) = BITS_PER_BYTE * (1 + size)
  <2> SUFFICES ASSUME IInv, FrameInv, state \in {"Receiving", "Complete"}
               PROVE  (state = "Complete" => whole) /\ (state = "Receiving" => ~whole)
    BY DEF CompletesExactly
  <2>1. PICK n \in Nat : Holds(n)
    BY DEF FrameInv
  <2>2. FrameBytes = n /\ bitIndex \in 0 .. BITS_PER_BYTE - 1
    BY <2>1, BytesHeld DEF IInv, TypeOK
  <2>3. CASE state = "Complete"
    <3>1. n = 1 + size /\ n # 0 /\ bitIndex = 0
      <4>1. Len(receivedString) = n - 1 /\ payloadSize = size /\ n # 0 /\ bitIndex = 0
        BY <2>1, <2>3 DEF Holds
      <4> QED  BY <2>3, <4>1 DEF IInv, Counting
    <3>2. Len(bits) = n * BITS_PER_BYTE
      BY <2>1, <3>1, DecoderAssumption DEF Holds
    <3> HIDE DEF size
    <3> QED  BY <2>2, <2>3, <3>1, <3>2, DecoderAssumption
  <2>4. CASE state = "Receiving" /\ n # 0
    <3>1. Len(receivedString) = n - 1 /\ payloadSize = size /\ byteCount = n
      BY <2>1, <2>4 DEF Holds
    <3>2. n - 1 < size /\ size \in Nat
      <4>1. size \in Nat
        BY <3>1, DecoderAssumption DEF IInv, TypeOK
      <4> QED  BY <2>4, <3>1, <4>1 DEF IInv, Counting
    <3>3. Len(bits) = n * BITS_PER_BYTE + bitIndex
      BY <2>1 DEF Holds
    <3> HIDE DEF size
    <3>4. PICK more \in Nat : 1 + size = n + 1 + more
      <4>1. size - n \in Nat /\ 1 + size = n + 1 + (size - n)
        BY <3>2
      <4> QED  BY <4>1
    <3>5. BITS_PER_BYTE * (n + 1 + more)
            = n * BITS_PER_BYTE + BITS_PER_BYTE + BITS_PER_BYTE * more
      BY DecoderAssumption
    <3>6. n * BITS_PER_BYTE \in Nat /\ BITS_PER_BYTE * more \in Nat
      BY DecoderAssumption
    <3>7. Len(bits) # BITS_PER_BYTE * (1 + size)
      BY <2>2, <3>3, <3>4, <3>5, <3>6, DecoderAssumption
    <3> QED  BY <2>4, <3>7
  <2>5. CASE state = "Receiving" /\ n = 0
    BY <2>2, <2>5
  <2> QED  BY <2>3, <2>4, <2>5
<1> QED  BY <1>1, InvariantFrameInv, PTL

(***************************************************************************)
(* The screens of the loop.                                                *)
(***************************************************************************)

\* The count that was drawn is that of the frame, or none.
CountInv ==
  /\ state = "Receiving" => klsCountSave = byteCount
  /\ state # "Receiving" => klsCountSave = NoCount

ScreenInv == CountInv /\ ScreenShowsFrame

\* Every step of the loop is one of the decoder or leaves it alone.
LEMMA ScreenNextIsNext == [ScreenNext]_loopVars => [Next]_vars
  BY DEF ScreenNext, Iterate, Stored, Next, loopVars

\* What the screen shows is drawn beside the decoder: the decoder's theorems hold of
\* the loop.
THEOREM ImplementsDecoder == ScreenSpec => Spec
<1>1. ScreenInit => Init
  BY DEF ScreenInit
<1> QED  BY <1>1, ScreenNextIsNext, PTL DEF ScreenSpec, Spec

\* A byte more is another count, also where the counter wraps.
LEMMA CountChanges ==
  ASSUME NEW count \in 0 .. MaxByte
  PROVE  (count + 1) % (MaxByte + 1) # count
<1> DEFINE m == MaxByte + 1
<1>1. m \in Nat /\ m > 1 /\ count \in 0 .. m - 1
  BY DecoderAssumption
<1> HIDE DEF m
<1>2. count + 1 < m => (count + 1) % m = count + 1
  BY <1>1
<1>3. count + 1 = m => (count + 1) % m = 0 /\ count # 0
  BY <1>1
<1>4. (count + 1) % m # count
  BY <1>1, <1>2, <1>3
<1> QED  BY <1>4 DEF m

\* Within a frame the size is that of the count; a new frame has no count.
LEMMA DecoderCount ==
  ASSUME TypeOK, NEW clockLed, NEW dataLed, NEW elapsed, Update(clockLed, dataLed, elapsed),
         state' = "Receiving"
  PROVE  \/ state = "Receiving" /\ byteCount' = byteCount /\ payloadSize' = payloadSize
         \/ state = "Receiving" /\ byteCount' # byteCount
         \/ state # "Receiving" /\ byteCount' = 0 /\ byteCount' # NoCount
<1>1. CASE state = "Idle"
  BY <1>1, DecoderAssumption DEF Update, TimedOut, HandleIdleState, NoCount
<1>2. CASE TimedOut(elapsed)
  BY <1>2, TimeoutEndsFrame
<1>3. CASE state = "Receiving" /\ ~TimedOut(elapsed)
  <2>1. HandleReceivingState(dataLed, ClockChanged(clockLed, elapsed))
    BY <1>3 DEF Update
  <2>2. CASE UNCHANGED <<byteCount, payloadSize>>
    BY <1>3, <2>2
  <2>3. CASE byteCount' = (byteCount + 1) % (MaxByte + 1)
    BY <1>3, <2>3, CountChanges DEF TypeOK
  <2> QED
    BY <2>1, <2>2, <2>3
       DEF HandleReceivingState, AddBit, LastBit, ProcessCompletedByte, frameVars
<1>4. CASE state = "Complete"
  BY <1>4 DEF Update, TimedOut
<1> QED  BY <1>1, <1>2, <1>3, <1>4 DEF TypeOK

LEMMA NextScreenInv == TypeOK /\ ScreenInv /\ [ScreenNext]_loopVars => ScreenInv'
<1> SUFFICES ASSUME TypeOK, ScreenInv, [ScreenNext]_loopVars PROVE ScreenInv'
  OBVIOUS
<1> USE DEF ScreenInv, CountInv, ScreenShowsFrame
<1>1. ASSUME NEW elapsed, DrawStatus(elapsed) PROVE ScreenInv'
  BY <1>1 DEF DrawStatus, NoCount
<1>2. ASSUME NEW clockLed, NEW dataLed, NEW elapsed, Update(clockLed, dataLed, elapsed), DrawProgress
      PROVE  ScreenInv'
  BY <1>2, DecoderCount DEF DrawProgress, Progress
<1>3. ASSUME Reset, DrawProgress PROVE ScreenInv'
  BY <1>3 DEF Reset, DrawProgress
<1>4. CASE UNCHANGED loopVars
  BY <1>4 DEF loopVars, vars, frameVars, screenVars, NoCount, Progress
<1> QED
  BY <1>1, <1>2, <1>3, <1>4 DEF ScreenNext, Iterate, Stored, Draw, Sample, Acknowledge

\* During a frame the screen shows the progress of this frame: a count left from an
\* abandoned one is never taken for it.
THEOREM FrameIsShown == ScreenSpec => []ScreenShowsFrame
<1>1. ScreenInit => ScreenInv
  BY DEF ScreenInit, Init, ScreenInv, CountInv, ScreenShowsFrame
<1>2. ScreenSpec => []TypeOK
  BY ImplementsDecoder, TypeCorrect
<1>3. ScreenInv => ScreenShowsFrame
  BY DEF ScreenInv
<1> QED  BY <1>1, <1>2, <1>3, NextScreenInv, PTL DEF ScreenSpec
=============================================================================
