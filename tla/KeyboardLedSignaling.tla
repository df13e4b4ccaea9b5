------------------------ MODULE KeyboardLedSignaling ------------------------
(***************************************************************************)
(* The decoder KeyboardLedSignaling (KeyboardLedSignaling.cpp): a frame    *)
(* starts at a rising edge of the clock LED, every later edge carries one  *)
(* bit of the data LED, least significant bit first; the first byte is the *)
(* number of payload bytes that follow.  A frame whose clock rests for     *)
(* ClockTimeout is abandoned.                                              *)
(*                                                                         *)
(* A byte is the function of its bits; SizeOf gives the number it stands   *)
(* for.  Time is in ticks: Update is told how much time elapsed since the  *)
(* last one, and silence stands for millis() - _lastClockChange, which the *)
(* code only compares with ClockTimeout.                                   *)
(***************************************************************************)
EXTENDS Integers, Sequences

CONSTANTS BITS_PER_BYTE,  \* 8 in the code
          MaxByte,        \* the largest uint8_t, 2^BITS_PER_BYTE - 1
          SizeOf,         \* the number a byte stands for
          ClockTimeout    \* 1000 ms in the code

Byte == [0 .. BITS_PER_BYTE - 1 -> BOOLEAN]
NoBits == [i \in 0 .. BITS_PER_BYTE - 1 |-> FALSE]

ASSUME DecoderAssumption ==
  /\ BITS_PER_BYTE \in Nat \ {0} /\ MaxByte \in Nat \ {0} /\ ClockTimeout \in Nat \ {0}
  /\ SizeOf \in [Byte -> 0 .. MaxByte]

VARIABLES state, lastClockLed, silence,
          bitIndex, currentByte, byteCount, payloadSize, receivedString,
          bits,  \* history: the data bits of the frame, one per clock edge
          gap    \* history: the longest rest of the clock within the frame

frameVars == <<bitIndex, currentByte, byteCount, payloadSize, receivedString>>
clockVars == <<lastClockLed, silence>>
vars == <<state, clockVars, frameVars, bits, gap>>

Init ==
  /\ state = "Idle" /\ lastClockLed = FALSE /\ silence = 0
  /\ bitIndex = 0 /\ currentByte = NoBits
  /\ byteCount = 0 /\ payloadSize = 0 /\ receivedString = <<>>
  /\ bits = <<>> /\ gap = 0

(***************************************************************************)
(* Update(clockLed, dataLed), run elapsed ticks after the previous one.    *)
(***************************************************************************)
Rested(elapsed) == IF silence + elapsed < ClockTimeout THEN silence + elapsed
                                                       ELSE ClockTimeout

\* Mutant of TimedOut: the comparison is strict, and never true.
MutTimedOut(elapsed) == state = "Receiving" /\ Rested(elapsed) > ClockTimeout
\* Mutant of TimedOut: the early return of handleTimeout is dropped.
MutTimedOutAny(elapsed) == Rested(elapsed) >= ClockTimeout
\* handleTimeout, in the state Receiving.
TimedOut(elapsed) == state = "Receiving" /\ Rested(elapsed) >= ClockTimeout

\* _clockChanged, as the state handlers see it: a timeout swallows the edge.
ClockChanged(clockLed, elapsed) == clockLed # lastClockLed /\ ~TimedOut(elapsed)

SampleClock(clockLed, elapsed) ==
  /\ silence' = IF ClockChanged(clockLed, elapsed) THEN 0 ELSE Rested(elapsed)
  /\ lastClockLed' = clockLed

\* Mutant of HandleIdleState: the frame variables are left as they are.
MutHandleIdleState(start) ==
  /\ state' = IF start THEN "Receiving" ELSE "Idle"
  /\ UNCHANGED frameVars
HandleIdleState(start) ==
  /\ bitIndex' = 0 /\ currentByte' = NoBits
  /\ byteCount' = 0 /\ payloadSize' = 0 /\ receivedString' = <<>>
  /\ state' = IF start THEN "Receiving" ELSE "Idle"

\* The byte with the bit of this edge shifted in.
Shifted(dataLed) ==
  [currentByte EXCEPT ![bitIndex] = currentByte[bitIndex] \/ dataLed]

AddBit(dataLed) ==
  /\ bitIndex + 1 < BITS_PER_BYTE
  /\ bitIndex' = bitIndex + 1
  /\ currentByte' = Shifted(dataLed)
  /\ UNCHANGED <<state, byteCount, payloadSize, receivedString>>

\* The length the frame is to have, and the payload, once this byte is in.
SizeWith(byte) == IF byteCount = 0 THEN SizeOf[byte] ELSE payloadSize
StringWith(byte) == IF byteCount = 0 THEN receivedString ELSE Append(receivedString, byte)

\* Mutant of ProcessCompletedByte: the length byte is counted as payload.
MutProcessCompletedByte(byte) ==
  /\ payloadSize' = SizeWith(byte)
  /\ receivedString' = StringWith(byte)
  /\ byteCount' = (byteCount + 1) % (MaxByte + 1)
  /\ bitIndex' = 0 /\ currentByte' = NoBits
  /\ state' = IF byteCount >= SizeWith(byte) + 1 THEN "Complete" ELSE state
\* Mutant of ProcessCompletedByte: the bit accumulator is not reset.
MutNoReset(byte) ==
  /\ payloadSize' = SizeWith(byte)
  /\ receivedString' = StringWith(byte)
  /\ byteCount' = (byteCount + 1) % (MaxByte + 1)
  /\ bitIndex' = bitIndex + 1 /\ currentByte' = byte
  /\ state' = IF Len(StringWith(byte)) = SizeWith(byte) THEN "Complete" ELSE state
ProcessCompletedByte(byte) ==
  /\ payloadSize' = SizeWith(byte)
  /\ receivedString' = StringWith(byte)
  /\ byteCount' = (byteCount + 1) % (MaxByte + 1)
  /\ bitIndex' = 0 /\ currentByte' = NoBits
  /\ state' = IF Len(StringWith(byte)) = SizeWith(byte) THEN "Complete" ELSE state

LastBit(dataLed) ==
  /\ bitIndex + 1 = BITS_PER_BYTE
  /\ ProcessCompletedByte(Shifted(dataLed))

HandleReceivingState(dataLed, changed) ==
  \/ ~changed /\ UNCHANGED <<state, frameVars>>
  \/ changed /\ (AddBit(dataLed) \/ LastBit(dataLed))

Update(clockLed, dataLed, elapsed) ==
  /\ SampleClock(clockLed, elapsed)
  /\ \/ /\ state = "Idle" \/ TimedOut(elapsed)
        /\ HandleIdleState(ClockChanged(clockLed, elapsed) /\ clockLed)
     \/ /\ state = "Receiving" /\ ~TimedOut(elapsed)
        /\ HandleReceivingState(dataLed, ClockChanged(clockLed, elapsed))
     \/ /\ state = "Complete"
        /\ UNCHANGED <<state, frameVars>>

\* reset(): only a complete frame can be reset.
Reset ==
  /\ state = "Complete"
  /\ state' = "Idle"
  /\ UNCHANGED <<clockVars, frameVars>>

\* The history of a frame: every edge of the clock within it adds a bit.
NoHistory == bits' = <<>> /\ gap' = 0
Record(clockLed, dataLed, elapsed) ==
  IF state = "Idle" \/ state' = "Idle" THEN NoHistory
  ELSE IF state = "Receiving" /\ clockLed # lastClockLed
  THEN /\ bits' = Append(bits, dataLed)
       /\ gap' = IF Rested(elapsed) > gap THEN Rested(elapsed) ELSE gap
  ELSE UNCHANGED <<bits, gap>>

Sample(clockLed, dataLed, elapsed) ==
  Update(clockLed, dataLed, elapsed) /\ Record(clockLed, dataLed, elapsed)
Acknowledge == Reset /\ NoHistory

Next ==
  \/ \E clockLed, dataLed \in BOOLEAN, elapsed \in 0 .. ClockTimeout :
       Sample(clockLed, dataLed, elapsed)
  \/ Acknowledge

Spec == Init /\ [][Next]_vars

(***************************************************************************)
(* Properties                                                              *)
(***************************************************************************)
TypeOK ==
  /\ state \in {"Idle", "Receiving", "Complete"}
  /\ lastClockLed \in BOOLEAN /\ silence \in 0 .. ClockTimeout
  /\ bitIndex \in 0 .. BITS_PER_BYTE - 1 /\ currentByte \in Byte
  /\ byteCount \in 0 .. MaxByte /\ payloadSize \in 0 .. MaxByte
  /\ receivedString \in Seq(Byte)
  /\ bits \in Seq(BOOLEAN) /\ gap \in 0 .. ClockTimeout

\* Byte k of the frame as its sender meant it: bits k * BITS_PER_BYTE + 1 to
\* (k + 1) * BITS_PER_BYTE, the least significant first.
FrameByte(k) ==
  [i \in 0 .. BITS_PER_BYTE - 1 |->
     k * BITS_PER_BYTE + i + 1 <= Len(bits) /\ bits[k * BITS_PER_BYTE + i + 1]]
FrameBytes == Len(bits) \div BITS_PER_BYTE

\* At every point of a frame, what the decoder holds is what the bits sampled
\* since the start edge stand for: the size, the payload, the byte under way.
DecodesFrame ==
  state \in {"Receiving", "Complete"} =>
    /\ bitIndex = Len(bits) % BITS_PER_BYTE
    /\ currentByte = FrameByte(FrameBytes)
    /\ byteCount = FrameBytes % (MaxByte + 1)
    /\ payloadSize = IF FrameBytes = 0 THEN 0 ELSE SizeOf[FrameByte(0)]
    /\ receivedString = [k \in 1 .. FrameBytes - 1 |-> FrameByte(k)]

\* The decoder is in Complete exactly from the edge that brings the last bit
\* of the last announced byte; before it, the frame is still receiving.
CompletesExactly ==
  LET whole == FrameBytes > 0 /\ Len(bits) = BITS_PER_BYTE * (1 + SizeOf[FrameByte(0)])
  IN  /\ state = "Complete" => whole
      /\ state = "Receiving" => ~whole

\* The progress bar of main.cpp (count * 154 / size) never leaves its frame,
\* although the count includes the length byte.
ProgressInBar == state = "Receiving" /\ payloadSize > 0 => byteCount <= payloadSize

\* Bits separated by a rest of ClockTimeout are never joined into one frame.
NoStitchedFrame == state \in {"Receiving", "Complete"} => gap < ClockTimeout

\* A payload the loop has not fetched is not touched by further LED traffic.
CompleteIsStable ==
  [][state = "Complete" => UNCHANGED <<receivedString, payloadSize>>]_vars

\* Receiving ends: the loop does nothing but follow the frame meanwhile, so
\* the buttons and the power management depend on it.
ReceivingEnds == state = "Receiving" ~> state # "Receiving"
=============================================================================
