----------------------------- MODULE LedLink_proofs -----------------------------
(***************************************************************************)
(* For every width of a byte, every buffer, every timeout, every payload   *)
(* and every number of faults: the link is type correct, the password in   *)
(* RAM and the one in the flash go together, and what an undisturbed run   *)
(* of the script sends is the password the device then has.                *)
(***************************************************************************)
EXTENDS LedLink, PasswordTyperConfigurator_proofs

\* The bytes of the script are those of the decoder.
LEMMA SameByte == Byte = KLS!Byte
  BY DEF Byte, KLS!Byte

(***************************************************************************)
(* C strings.                                                              *)
(***************************************************************************)

\* A C string has the bytes of what it was made of, and makes itself again.
LEMMA CStringTwice ==
  ASSUME NEW S, NEW bytes \in Seq(S)
  PROVE  CString(bytes) \in Seq(S) /\ CString(CString(bytes)) = CString(bytes)
<1> DEFINE ends == {i \in 1 .. Len(bytes) : bytes[i] = Nul}
<1>1. CASE ends = {}
  <2>1. CString(bytes) = bytes
    BY <1>1 DEF CString
  <2> QED BY <2>1
<1>2. CASE ends # {}
  <2> DEFINE first == CHOOSE i \in ends : \A j \in ends : i <= j
             string == SubSeq(bytes, 1, first - 1)
  <2>1. Len(bytes) \in Nat /\ ends \in SUBSET Nat
    BY LenProperties
  <2>2. first \in ends /\ \A j \in ends : first <= j
    <3> HIDE DEF ends
    <3> QED BY <1>2, <2>1, LeastNumber
  <2>3. CString(bytes) = string
    BY <1>2 DEF CString
  <2> HIDE DEF first
  <2>4. first \in 1 .. Len(bytes) /\ \A j \in 1 .. first - 1 : bytes[j] # Nul
    BY <2>1, <2>2
  <2>5. /\ string \in Seq(S) /\ Len(string) = first - 1
        /\ \A i \in 1 .. first - 1 : string[i] = bytes[i]
    BY <2>1, <2>4, SubSeqProperties
  <2> HIDE DEF string
  <2>6. {i \in 1 .. Len(string) : string[i] = Nul} = {}
    BY <2>4, <2>5
  <2>7. CString(string) = string
    BY <2>6 DEF CString
  <2> QED BY <2>3, <2>5, <2>7
<1> QED BY <1>1, <1>2

(***************************************************************************)
(* The invariant: the types, the password of the flash being a C string,   *)
(* and RamMatchesFlash.                                                    *)
(***************************************************************************)
ScriptInv == script \in Seq(Command)

PasswordInv ==
  /\ passwordSequence \in Seq(KLS!Byte)
  /\ passSeq \in Seq(KLS!Byte) /\ CString(passSeq) = passSeq
  /\ unsaved \in BOOLEAN

IInv == TypeOK /\ ScriptInv /\ PasswordInv /\ RamMatchesFlash

\* What the host has lit, and what it still has to do.
HostOK == hostLeds \in SUBSET LEDs /\ slept \in 0 .. SyncDelay /\ ScriptInv
QueueOK == queue \in Seq(SUBSET LEDs) /\ Len(queue) <= Capacity /\ ledState \in SUBSET LEDs
LoopOK == KLS!TypeOK /\ elapsed \in 0 .. ClockTimeout /\ connected \in BOOLEAN
StoreOK == PasswordInv /\ RamMatchesFlash

\* The invariant is one part for each group of variables.
LEMMA Parts == IInv <=> HostOK /\ QueueOK /\ LoopOK /\ StoreOK
  BY DEF IInv, TypeOK, HostOK, QueueOK, LoopOK, StoreOK

\* The default password has no Nul in it.
LEMMA DefaultIsCString == CString(DefaultPassword) = DefaultPassword
  BY LinkAssumption DEF CString

\* What a reset or a timeout leaves in the decoder has its types.
LEMMA FreshDecoder ==
  /\ KLS!NoBits \in KLS!Byte
  /\ 0 \in 0 .. ClockTimeout /\ 0 \in 0 .. BITS_PER_BYTE - 1 /\ 0 \in 0 .. MaxByte
  /\ <<>> \in Seq(KLS!Byte) /\ <<>> \in Seq(BOOLEAN)
<1>1. KLS!NoBits \in KLS!Byte
  BY DEF KLS!NoBits, KLS!Byte
<1> QED  BY <1>1, LinkAssumption, EmptySeq

LEMMA InitIInv == Init => IInv
<1> SUFFICES ASSUME Init PROVE HostOK /\ QueueOK /\ LoopOK /\ StoreOK
  BY Parts
<1>1. HostOK
  BY ScriptAssumption, EmptySeq DEF Init, HostInit, HostOK, ScriptInv, LEDs
<1>2. QueueOK
  BY LinkAssumption, EmptySeq DEF Init, Queue!Init, QueueOK
<1>3. LoopOK
  BY FreshDecoder DEF Init, KLS!Init, LoopOK, KLS!TypeOK
<1>4. StoreOK
  BY DefaultIsCString, LinkAssumption DEF Init, StoreOK, PasswordInv, RamMatchesFlash
<1> QED  BY <1>1, <1>2, <1>3, <1>4

\* The host's part is kept by the script, by the user and by time.
LEMMA NextHostOK == HostOK /\ [Next]_vars => HostOK'
<1> SUFFICES ASSUME HostOK, [Next]_vars PROVE HostOK'
  OBVIOUS
<1>1. ASSUME NEW bytes \in UNION Range(Payloads), StartScript(bytes) PROVE HostOK'
  <2>1. bytes \in Seq(KLS!Byte)
    BY LinkAssumption, LenProperties DEF Range
  <2>2. script' \in Seq(Command)
    BY <1>1, <2>1, ScriptOfPayload DEF StartScript, RunScript
  <2> QED
    BY <1>1, <2>2, ScriptAssumption DEF StartScript, RunScript, HostOK, ScriptInv
<1>2. CASE ScriptCommand
  <2>1. script # <<>> /\ Head(script).op # "sleep" /\ script \in Seq(Command)
    BY <1>2 DEF ScriptCommand, RunCommand, Sleeping, HostOK, ScriptInv
  <2>2. Head(script) \in Command /\ Tail(script) \in Seq(Command)
    BY <2>1, HeadTailProperties
  <2>3. hostLeds' \in SUBSET LEDs
    BY <1>2, <2>1, <2>2, PressedType DEF ScriptCommand, RunCommand, HostOK
  <2> QED
    BY <1>2, <2>2, <2>3 DEF ScriptCommand, RunCommand, HostOK, ScriptInv
<1>3. CASE ScriptWakes
  <2>1. script # <<>> /\ script \in Seq(Command)
    BY <1>3 DEF ScriptWakes, WakeUp, Sleeping, HostOK, ScriptInv
  <2>2. Tail(script) \in Seq(Command)
    BY <2>1, HeadTailProperties
  <2> QED
    BY <1>3, <2>2, ScriptAssumption DEF ScriptWakes, WakeUp, HostOK, ScriptInv
<1>4. ASSUME NEW led \in LEDs, UserPresses(led) PROVE HostOK'
  <2>1. [op |-> "toggle", led |-> led] \in Command
    BY DEF Command
  <2>2. hostLeds' \in SUBSET LEDs
    BY <1>4, <2>1, PressedType DEF UserPresses, PressLock, HostOK
  <2> QED BY <1>4, <2>2 DEF UserPresses, PressLock, HostOK, ScriptInv
<1>5. CASE Tick
  BY <1>5, ScriptAssumption DEF Tick, SleepTick, HostOK, ScriptInv
<1>6. CASE LinkBreaks \/ LinkReturns \/ UpdateDecoder \/ StorePayload \/ Reboot \/ UNCHANGED vars
  <2>1. UNCHANGED hostVars
    BY <1>6 DEF LinkBreaks, LinkReturns, UpdateDecoder, StorePayload, Reboot, vars
  <2> QED BY <2>1 DEF hostVars, HostOK, ScriptInv
<1> QED  BY <1>1, <1>2, <1>3, <1>4, <1>5, <1>6 DEF Next

\* A report that is queued has its place, and one that has none is dropped.
LEMMA OnWriteType ==
  ASSUME QueueOK, NEW leds \in SUBSET LEDs, OnWrite(leds)
  PROVE  QueueOK'
<1>1. CASE Queue!Push(leds)
  <2>1. Append(queue, leds) \in Seq(SUBSET LEDs) /\ Len(Append(queue, leds)) = Len(queue) + 1
    BY AppendProperties DEF QueueOK
  <2>2. Len(queue) \in Nat
    BY LenProperties DEF QueueOK
  <2> QED BY <1>1, <2>1, <2>2, LinkAssumption DEF Queue!Push, QueueOK
<1>2. CASE Queue!Refuse
  BY <1>2 DEF Queue!Refuse, QueueOK
<1> QED  BY <1>1, <1>2 DEF OnWrite

\* The buffer's part is kept by every report and by the loop.
LEMMA NextQueueOK == HostOK /\ HostOK' /\ QueueOK /\ [Next]_vars => QueueOK'
<1> SUFFICES ASSUME HostOK, HostOK', QueueOK, [Next]_vars PROVE QueueOK'
  OBVIOUS
<1>1. hostLeds \in SUBSET LEDs /\ hostLeds' \in SUBSET LEDs
  BY DEF HostOK
<1>2. UNCHANGED queueVars => QueueOK'
  BY DEF queueVars, QueueOK
<1>3. CASE ScriptCommand \/ \E led \in LEDs : UserPresses(led)
  <2>1. ReportChange
    BY <1>3 DEF ScriptCommand, UserPresses
  <2>2. OnWrite(hostLeds') \/ UNCHANGED queueVars
    BY <2>1 DEF ReportChange, Report
  <2>3. CASE OnWrite(hostLeds')
    <3> DEFINE leds == hostLeds'
    <3>1. leds \in SUBSET LEDs /\ OnWrite(leds)
      BY <1>1, <2>3
    <3> HIDE DEF leds
    <3> QED BY <3>1, OnWriteType
  <2> QED BY <1>2, <2>2, <2>3
<1>4. CASE LinkReturns
  BY <1>1, <1>2, <1>4, OnWriteType DEF LinkReturns
<1>5. CASE UpdateDecoder
  <2>1. CASE Queue!Pop
    <3>1. /\ queue # <<>>
          /\ Head(queue) \in SUBSET LEDs /\ Tail(queue) \in Seq(SUBSET LEDs)
          /\ Len(Tail(queue)) = Len(queue) - 1 /\ Len(queue) \in Nat
      BY <2>1, HeadTailProperties, LenProperties DEF Queue!Pop, QueueOK
    <3> QED BY <2>1, <3>1, LinkAssumption DEF Queue!Pop, QueueOK
  <2> QED BY <1>2, <1>5, <2>1 DEF UpdateDecoder, TakeReport
<1>6. CASE Reboot
  BY <1>6, LinkAssumption, EmptySeq DEF Reboot, ClearQueue, QueueOK
<1>7. CASE (\E bytes \in UNION Range(Payloads) : StartScript(bytes))
           \/ ScriptWakes \/ LinkBreaks \/ StorePayload \/ Tick \/ UNCHANGED vars
  BY <1>2, <1>7 DEF StartScript, ScriptWakes, LinkBreaks, StorePayload, Tick, vars
<1> QED  BY <1>3, <1>4, <1>5, <1>6, <1>7 DEF Next

\* An iteration of the loop keeps the types of the decoder.
LEMMA UpdateType ==
  ASSUME KLS!TypeOK, NEW clockLed \in BOOLEAN, NEW dataLed \in BOOLEAN,
         NEW time \in 0 .. ClockTimeout, KLS!Update(clockLed, dataLed, time)
  PROVE  KLS!TypeOK'
<1> USE DEF KLS!TypeOK
<1>1. lastClockLed' \in BOOLEAN /\ silence' \in 0 .. ClockTimeout
  BY LinkAssumption DEF KLS!Update, KLS!SampleClock, KLS!Rested
<1>2. KLS!Shifted(dataLed) \in KLS!Byte
  <2> DEFINE bit == currentByte[bitIndex] \/ dataLed
  <2>1. currentByte \in [0 .. BITS_PER_BYTE - 1 -> BOOLEAN] /\ bit \in BOOLEAN
    BY DEF KLS!Byte
  <2> HIDE DEF bit
  <2>2. [currentByte EXCEPT ![bitIndex] = bit] \in [0 .. BITS_PER_BYTE - 1 -> BOOLEAN]
    BY <2>1
  <2> QED BY <2>2 DEF KLS!Shifted, KLS!Byte, bit
<1> DEFINE byte == KLS!Shifted(dataLed)
<1>3. /\ SizeOf[byte] \in 0 .. MaxByte
      /\ (byteCount + 1) % (MaxByte + 1) \in 0 .. MaxByte
      /\ Append(receivedString, byte) \in Seq(KLS!Byte)
  <2>1. Append(receivedString, byte) \in Seq(KLS!Byte)
    BY <1>2, AppendProperties
  <2>2. (byteCount + 1) % (MaxByte + 1) \in 0 .. MaxByte
    <3> DEFINE m == MaxByte + 1
               c == byteCount + 1
    <3>1. m \in Nat \ {0} /\ c \in Nat /\ MaxByte = m - 1
      BY LinkAssumption
    <3> HIDE DEF m, c
    <3>2. c % m \in 0 .. m - 1
      BY <3>1
    <3> QED BY <3>1, <3>2 DEF m, c
  <2> QED BY <1>2, <2>1, <2>2, LinkAssumption
<1> HIDE DEF byte
<1> DEFINE FrameOK ==
      /\ state \in {"Idle", "Receiving", "Complete"}
      /\ bitIndex \in 0 .. BITS_PER_BYTE - 1 /\ currentByte \in KLS!Byte
      /\ byteCount \in 0 .. MaxByte /\ payloadSize \in 0 .. MaxByte
      /\ receivedString \in Seq(KLS!Byte)
<1>4. FrameOK'
  <2>1. CASE \E start : KLS!HandleIdleState(start)
    BY <2>1, FreshDecoder DEF KLS!HandleIdleState
  <2>2. CASE UNCHANGED <<state, bitIndex, currentByte, byteCount, payloadSize, receivedString>>
    BY <2>2
  <2>3. CASE KLS!AddBit(dataLed)
    BY <1>2, <2>3, LinkAssumption DEF KLS!AddBit
  <2>4. CASE KLS!LastBit(dataLed)
    <3>1. KLS!ProcessCompletedByte(byte)
      BY <2>4 DEF KLS!LastBit, byte
    <3>2. KLS!SizeWith(byte) \in 0 .. MaxByte /\ KLS!StringWith(byte) \in Seq(KLS!Byte)
      BY <1>3 DEF KLS!SizeWith, KLS!StringWith
    <3> QED BY <1>3, <3>1, <3>2, FreshDecoder DEF KLS!ProcessCompletedByte
  <2> QED
    BY <2>1, <2>2, <2>3, <2>4
       DEF KLS!Update, KLS!HandleReceivingState, KLS!frameVars
<1> QED  BY <1>1, <1>4, FreshDecoder

\* The decoder's part is kept by the loop, by a restart and by time.
LEMMA NextLoopOK == LoopOK /\ [Next]_vars => LoopOK'
<1> SUFFICES ASSUME LoopOK, [Next]_vars PROVE LoopOK'
  OBVIOUS
<1>1. UNCHANGED decoderVars => KLS!TypeOK'
  BY DEF decoderVars, LoopOK, KLS!TypeOK
<1>2. CASE UpdateDecoder
  <2> DEFINE clockLed == "clock" \in ledState'
             dataLed == "data" \in ledState'
  <2>1. clockLed \in BOOLEAN /\ dataLed \in BOOLEAN /\ KLS!Update(clockLed, dataLed, elapsed)
    BY <1>2 DEF UpdateDecoder
  <2> HIDE DEF clockLed, dataLed
  <2>2. KLS!TypeOK'
    BY <2>1, UpdateType DEF LoopOK
  <2> QED BY <1>2, <2>2, FreshDecoder DEF UpdateDecoder, LoopOK
<1>3. CASE StorePayload
  <2>1. KLS!TypeOK'
    BY <1>3 DEF StorePayload, KLS!Reset, KLS!clockVars, KLS!frameVars, KLS!TypeOK, LoopOK
  <2> QED BY <1>3, <2>1 DEF StorePayload, LoopOK
<1>4. CASE Reboot
  BY <1>4, FreshDecoder DEF Reboot, ClearDecoder, KLS!TypeOK, LoopOK
<1>5. CASE Tick
  BY <1>1, <1>5, LinkAssumption DEF Tick, LoopOK
<1>6. CASE UNCHANGED decoderVars /\ UNCHANGED elapsed /\ connected' \in BOOLEAN
  BY <1>1, <1>6 DEF LoopOK
<1>7. CASE \/ \E bytes \in UNION Range(Payloads) : StartScript(bytes)
           \/ \E led \in LEDs : UserPresses(led)
           \/ ScriptCommand \/ ScriptWakes \/ LinkBreaks \/ LinkReturns \/ UNCHANGED vars
  BY <1>6, <1>7
     DEF StartScript, ScriptCommand, ScriptWakes, UserPresses, LinkBreaks, LinkReturns, vars,
         LoopOK
<1> QED  BY <1>2, <1>3, <1>4, <1>5, <1>7 DEF Next

\* The password's part is kept when it is stored and when it is read at a restart.
LEMMA NextStoreOK == LoopOK /\ StoreOK /\ [Next]_vars => StoreOK'
<1> SUFFICES ASSUME LoopOK, StoreOK, [Next]_vars PROVE StoreOK'
  OBVIOUS
<1>1. CASE UNCHANGED password /\ UNCHANGED unsaved
  BY <1>1 DEF password, StoreOK, PasswordInv, RamMatchesFlash
<1>2. CASE StorePayload
  <2>1. receivedString \in Seq(KLS!Byte) /\ passwordSequence' = receivedString
    BY <1>2 DEF StorePayload, LoopOK, KLS!TypeOK
  <2>2. CASE passSeq' = CString(receivedString) /\ unsaved' = FALSE
    BY <2>1, <2>2, CStringTwice DEF StoreOK, PasswordInv, RamMatchesFlash
  <2>3. CASE unsaved' = TRUE /\ UNCHANGED passSeq
    BY <2>1, <2>3 DEF StoreOK, PasswordInv, RamMatchesFlash
  <2> QED BY <1>2, <2>2, <2>3 DEF StorePayload, Save
<1>3. CASE Reboot
  BY <1>3 DEF Reboot, StoreOK, PasswordInv, RamMatchesFlash
<1>4. CASE \/ \E bytes \in UNION Range(Payloads) : StartScript(bytes)
           \/ \E led \in LEDs : UserPresses(led)
           \/ ScriptCommand \/ ScriptWakes \/ LinkBreaks \/ LinkReturns
           \/ UpdateDecoder \/ Tick \/ UNCHANGED vars
  BY <1>1, <1>4
     DEF StartScript, ScriptCommand, ScriptWakes, UserPresses, LinkBreaks, LinkReturns,
         UpdateDecoder, Tick, vars, history
<1> QED  BY <1>2, <1>3, <1>4 DEF Next

LEMMA NextIInv == IInv /\ [Next]_vars => IInv'
  BY Parts, NextHostOK, NextQueueOK, NextLoopOK, NextStoreOK
     DEF IInv, TypeOK, HostOK, QueueOK, LoopOK, StoreOK

\* The types of the host, of the buffer, of the decoder and of time are kept by every
\* interleaving of the script, the link, the loop and the faults.
THEOREM TypeCorrect == Spec => []TypeOK
<1>1. IInv => TypeOK
  BY DEF IInv
<1> QED  BY <1>1, InitIInv, NextIInv, PTL DEF Spec

\* What is in the flash is what the device types of the password in RAM, unless it
\* could not be saved: the password of the user survives a restart.
THEOREM SavedIsTyped == Spec => []RamMatchesFlash
<1>1. IInv => RamMatchesFlash
  BY DEF IInv
<1> QED  BY <1>1, InitIInv, NextIInv, PTL DEF Spec

(***************************************************************************)
(* A run of the script that nothing disturbs, of a payload that is not too *)
(* long for its length byte.                                               *)
(***************************************************************************)
ShortPayloads == \A i \in 1 .. Len(Payloads) : \A bytes \in Payloads[i] : Len(bytes) <= MaxByte

\* A byte of which j bits have come.
FirstBits(byte, j) == [i \in 0 .. BITS_PER_BYTE - 1 |-> IF i < j THEN byte[i] ELSE FALSE]

\* The next bit makes it one more, and all bits make the byte.
LEMMA FirstBitsGrow ==
  ASSUME NEW byte \in Byte
  PROVE  /\ FirstBits(byte, 0) = KLS!NoBits /\ FirstBits(byte, BITS_PER_BYTE) = byte
         /\ \A j \in 0 .. BITS_PER_BYTE - 1 :
              [FirstBits(byte, j) EXCEPT ![j] = FirstBits(byte, j)[j] \/ byte[j]]
                = FirstBits(byte, j + 1)
<1>1. byte \in [0 .. BITS_PER_BYTE - 1 -> BOOLEAN] /\ BITS_PER_BYTE \in Nat
  BY LinkAssumption DEF Byte
<1>2. FirstBits(byte, 0) = KLS!NoBits
  <2>1. \A i \in 0 .. BITS_PER_BYTE - 1 : ~(i < 0)
    BY <1>1
  <2>2. \A i \in 0 .. BITS_PER_BYTE - 1 : (IF i < 0 THEN byte[i] ELSE FALSE) = FALSE
    BY <2>1, Zenon
  <2> QED  BY <2>2, Zenon DEF FirstBits, KLS!NoBits
<1>3. FirstBits(byte, BITS_PER_BYTE) = byte
  <2>1. \A i \in 0 .. BITS_PER_BYTE - 1 : i < BITS_PER_BYTE
    BY <1>1
  <2>2. \A i \in 0 .. BITS_PER_BYTE - 1 :
          (IF i < BITS_PER_BYTE THEN byte[i] ELSE FALSE) = byte[i]
    BY <2>1, Zenon
  <2> QED  BY <1>1, <2>2, Zenon DEF FirstBits
<1>4. ASSUME NEW j \in 0 .. BITS_PER_BYTE - 1
      PROVE  [FirstBits(byte, j) EXCEPT ![j] = FirstBits(byte, j)[j] \/ byte[j]]
               = FirstBits(byte, j + 1)
  <2> DEFINE f == FirstBits(byte, j)
             bit == f[j] \/ byte[j]
  <2>1. ~(j < j) /\ \A i \in 0 .. BITS_PER_BYTE - 1 : i < j + 1 <=> i < j \/ i = j
    BY <1>1
  <2>2. f = [i \in 0 .. BITS_PER_BYTE - 1 |-> f[i]]
        /\ \A i \in 0 .. BITS_PER_BYTE - 1 : f[i] = IF i < j THEN byte[i] ELSE FALSE
    BY Zenon DEF FirstBits
  <2> HIDE DEF f
  <2>3. byte[j] \in BOOLEAN
    BY <1>1
  <2>4. ~f[j]
    BY <2>1, <2>2, Zenon
  <2>5. bit = byte[j]
    BY <2>3, <2>4
  <2> HIDE DEF bit
  <2>6. [f EXCEPT ![j] = bit]
          = [i \in 0 .. BITS_PER_BYTE - 1 |-> IF i = j THEN byte[j] ELSE f[i]]
    BY <2>2, <2>5, Zenon
  <2>7. \A i \in 0 .. BITS_PER_BYTE - 1 :
          (IF i = j THEN byte[j] ELSE f[i]) = IF i < j + 1 THEN byte[i] ELSE FALSE
    BY <2>1, <2>2, Zenon
  <2>8. [f EXCEPT ![j] = bit] = FirstBits(byte, j + 1)
    BY <2>6, <2>7, Zenon DEF FirstBits
  <2> QED  BY <2>8 DEF f, bit
<1> QED  BY <1>2, <1>3, <1>4

\* Where the decoder is, which has taken all reports up to mark p.
DecoderAt(p) ==
  /\ lastClockLed = Clock(ledState)
  /\ p = Awake => state # "Receiving" /\ ~Clock(ledState)
  /\ InBits(sent, p) =>
       /\ state = "Receiving" /\ silence + elapsed < ClockTimeout
       /\ bitIndex = p[2] /\ byteCount = p[1]
       /\ currentByte = FirstBits(Sends(sent, p[1]), p[2])
       /\ payloadSize = IF p[1] = 0 THEN 0 ELSE Len(sent)
       /\ receivedString = [i \in 1 .. p[1] - 1 |-> sent[i]]
  /\ p = Done(sent) =>
       \/ state = "Complete" /\ receivedString = sent
       \/ state = "Idle" /\ passwordSequence = sent

\* What the loop knows of the clock, and since when.
SeenInv ==
  /\ lastClockLed => Clock(ledState)
  /\ state = "Receiving" => silence < ClockTimeout

\* An iteration of the loop in a frame of the sent payload that takes a report with mark q,
\* or none.
LEMMA DecoderSteps ==
  ASSUME LoopOK, Payload(sent), sent' = sent, NEW p \in Marks(sent), NEW q,
         DecoderAt(p), Follows(sent, p, q, ledState, ledState'), UpdateDecoder
  PROVE  DecoderAt(q)'
<1> DEFINE clock == Clock(ledState')
           data == Data(ledState')
<1>1. /\ sent \in Seq(KLS!Byte) /\ sent \in Seq(Byte) /\ Len(sent) \in 0 .. MaxByte
      /\ BITS_PER_BYTE \in Nat \ {0} /\ MaxByte \in Nat \ {0} /\ ClockTimeout \in Nat \ {0}
  BY LenProperties, LinkAssumption, SameByte DEF Payload
<1>2. /\ state \in {"Idle", "Receiving"} /\ KLS!Update(clock, data, elapsed)
      /\ elapsed' = 0 /\ UNCHANGED passwordSequence
      /\ silence \in 0 .. ClockTimeout /\ elapsed \in 0 .. ClockTimeout
      /\ clock \in BOOLEAN /\ data \in BOOLEAN /\ Clock(ledState) \in BOOLEAN
  BY DEF UpdateDecoder, Clock, Data, LoopOK, KLS!TypeOK, password
<1>3. lastClockLed' = clock /\ lastClockLed = Clock(ledState)
  BY <1>2 DEF KLS!Update, KLS!SampleClock, DecoderAt
<1>4. ASSUME p = Awake PROVE DecoderAt(q)'
  <2>1. state = "Idle" /\ ~Clock(ledState) /\ p # Done(sent)
    BY <1>1, <1>2, <1>4, MarkNumbers DEF DecoderAt
  <2>2. ~KLS!TimedOut(elapsed) /\ (KLS!ClockChanged(clock, elapsed) <=> clock)
    BY <1>2, <1>3, <2>1 DEF KLS!TimedOut, KLS!ClockChanged
  <2>3. /\ bitIndex' = 0 /\ currentByte' = KLS!NoBits /\ byteCount' = 0 /\ payloadSize' = 0
        /\ receivedString' = <<>> /\ state' = IF clock THEN "Receiving" ELSE "Idle"
        /\ clock => silence' = 0
    <3> DEFINE start == KLS!ClockChanged(clock, elapsed) /\ clock
    <3>1. KLS!HandleIdleState(start)
      BY <1>2, <2>1, <2>2 DEF KLS!Update
    <3>2. silence' = IF KLS!ClockChanged(clock, elapsed) THEN 0 ELSE KLS!Rested(elapsed)
      BY <1>2 DEF KLS!Update, KLS!SampleClock
    <3>3. start <=> clock
      BY <2>2
    <3> QED  BY <2>2, <3>1, <3>2, <3>3 DEF KLS!HandleIdleState
  <2>4. CASE ~clock
    <3>1. q = Awake
      BY <1>2, <1>4, <2>1, <2>4 DEF Follows
    <3>2. ~InBits(sent, q) /\ q # Done(sent)
      BY <1>1, <3>1, MarkNumbers
    <3> QED  BY <1>3, <2>3, <2>4, <3>1, <3>2 DEF DecoderAt
  <2>5. CASE clock
    <3>1. q = <<0, 0>> /\ InBits(sent, q)
      BY <1>1, <1>2, <1>4, <2>1, <2>5, MarkNumbers DEF Follows
    <3>2. q[1] = 0 /\ q[2] = 0 /\ q # Awake /\ q # Done(sent)
      BY <1>1, <3>1, MarkNumbers
    <3> HIDE DEF clock
    <3>3. FirstBits(Sends(sent, 0), 0) = KLS!NoBits
      BY <1>1, SendsBytes, FirstBitsGrow
    <3>4. <<>> = [i \in 1 .. 0 - 1 |-> sent[i]]
      OBVIOUS
    <3>5. state' = "Receiving" /\ silence' + elapsed' < ClockTimeout
      BY <1>1, <1>2, <2>3, <2>5
    <3> QED  BY <1>3, <2>3, <3>1, <3>2, <3>3, <3>4, <3>5 DEF DecoderAt, clock
  <2> QED  BY <2>4, <2>5
<1>5. ASSUME p = Done(sent) PROVE DecoderAt(q)'
  <2>1. p # Awake /\ ~InBits(sent, p) /\ q = p
    BY <1>1, <1>5, MarkNumbers DEF Follows
  <2>2. state = "Idle" /\ passwordSequence = sent
    BY <1>2, <1>5 DEF DecoderAt
  <2>3. ~(KLS!ClockChanged(clock, elapsed) /\ clock)
    BY <1>2, <1>3, <1>5, MarkNumbers, <1>1 DEF KLS!ClockChanged, Follows
  <2>4. state' = "Idle"
    BY <1>2, <2>2, <2>3 DEF KLS!Update, KLS!HandleIdleState, KLS!TimedOut
  <2> QED  BY <1>2, <1>3, <2>1, <2>2, <2>4 DEF DecoderAt
<1>6. ASSUME InBits(sent, p) PROVE DecoderAt(q)'
  <2> DEFINE k == p[1]
             j == p[2]
  <2>1. /\ k \in 0 .. Len(sent) /\ j \in 0 .. BITS_PER_BYTE - 1 /\ p = <<k, j>>
        /\ p # Awake /\ p # Done(sent)
    BY <1>1, <1>6, MarkNumbers DEF InBits
  <2>2. /\ state = "Receiving" /\ silence + elapsed < ClockTimeout
        /\ bitIndex = j /\ byteCount = k
        /\ currentByte = FirstBits(Sends(sent, k), j)
        /\ payloadSize = IF k = 0 THEN 0 ELSE Len(sent)
        /\ receivedString = [i \in 1 .. k - 1 |-> sent[i]]
    BY <1>6 DEF DecoderAt
  <2>3. KLS!Rested(elapsed) = silence + elapsed
    BY <2>2 DEF KLS!Rested
  <2>4. ~KLS!TimedOut(elapsed)
    BY <1>1, <1>2, <2>2, <2>3 DEF KLS!TimedOut
  <2>5. KLS!ClockChanged(clock, elapsed) <=> ~(clock <=> Clock(ledState))
    BY <1>2, <1>3, <2>4 DEF KLS!ClockChanged
  <2>6. \/ ~KLS!ClockChanged(clock, elapsed) /\ UNCHANGED <<state, KLS!frameVars>>
        \/ KLS!ClockChanged(clock, elapsed) /\ (KLS!AddBit(data) \/ KLS!LastBit(data))
    BY <1>2, <2>2, <2>4 DEF KLS!Update, KLS!HandleReceivingState
  <2>7. silence' = IF KLS!ClockChanged(clock, elapsed) THEN 0 ELSE silence + elapsed
    BY <1>2, <2>3 DEF KLS!Update, KLS!SampleClock
  <2> HIDE DEF k, j
  <2>8. CASE clock <=> Clock(ledState)
    <3>1. q = p
      BY <1>2, <2>1, <2>8 DEF Follows
    <3>2. UNCHANGED <<state, bitIndex, currentByte, byteCount, payloadSize, receivedString>>
      BY <2>5, <2>6, <2>8 DEF KLS!frameVars
    <3>3. silence' = silence + elapsed /\ silence' + elapsed' < ClockTimeout
      BY <1>2, <2>2, <2>5, <2>7, <2>8
    <3> QED  BY <1>3, <1>6, <2>1, <3>1, <3>2, <3>3 DEF DecoderAt
  <2>9. CASE ~(clock <=> Clock(ledState))
    <3> DEFINE sends == Sends(sent, k)
    <3>1. q = NextMark(p) /\ data = sends[j]
      BY <1>2, <2>1, <2>9 DEF Follows, k, j
    <3>2. silence' = 0 /\ silence' + elapsed' < ClockTimeout
      BY <1>1, <1>2, <2>5, <2>7, <2>9
    <3>3. KLS!AddBit(data) \/ KLS!LastBit(data)
      BY <2>5, <2>6, <2>9
    <3>4. sends \in [0 .. BITS_PER_BYTE - 1 -> BOOLEAN] /\ sends \in KLS!Byte /\ sends \in Byte
      BY <2>1, SendsBytes, SameByte DEF Byte
    <3> HIDE DEF sends
    <3>5. KLS!Shifted(data) = FirstBits(sends, j + 1)
      <4>1. KLS!Shifted(data)
              = [FirstBits(sends, j) EXCEPT ![j] = FirstBits(sends, j)[j] \/ sends[j]]
        BY <2>2, <3>1 DEF KLS!Shifted, sends
      <4> QED  BY <2>1, <3>4, <4>1, FirstBitsGrow
    <3>6. CASE j + 1 < BITS_PER_BYTE
      <4>1. KLS!AddBit(data)
        BY <1>1, <2>1, <2>2, <3>3, <3>6 DEF KLS!LastBit
      <4>2. q = <<k, j + 1>> /\ j + 1 \in 0 .. BITS_PER_BYTE - 1
        BY <1>1, <2>1, <3>1, <3>6 DEF NextMark
      <4>3. InBits(sent, q) /\ q[1] = k /\ q[2] = j + 1
        BY <2>1, <4>2 DEF InBits
      <4>4. q # Awake /\ q # Done(sent)
        BY <1>1, <4>3, MarkNumbers
      <4>5. /\ bitIndex' = j + 1 /\ currentByte' = KLS!Shifted(data)
            /\ UNCHANGED <<state, byteCount, payloadSize, receivedString>>
        BY <2>2, <4>1 DEF KLS!AddBit
      <4> HIDE DEF clock
      <4> QED  BY <1>3, <2>2, <3>2, <3>5, <4>3, <4>4, <4>5 DEF DecoderAt, sends, clock
    <3>7. CASE ~(j + 1 < BITS_PER_BYTE)
      <4>1. KLS!LastBit(data) /\ j + 1 = BITS_PER_BYTE
        BY <1>1, <2>1, <2>2, <3>3, <3>7 DEF KLS!AddBit
      <4>2. KLS!Shifted(data) = sends
        BY <3>4, <3>5, <4>1, FirstBitsGrow
      <4>3. KLS!ProcessCompletedByte(sends)
        BY <4>1, <4>2 DEF KLS!LastBit
      <4>4. q = <<k + 1, 0>>
        BY <1>1, <2>1, <3>1, <4>1 DEF NextMark
      <4>5. KLS!SizeWith(sends) = Len(sent)
        BY <1>1, <2>1, <2>2, LinkAssumption DEF KLS!SizeWith, sends, Sends
      <4>6. KLS!StringWith(sends) = [i \in 1 .. k |-> sent[i]]
        <5>1. CASE k = 0
          BY <2>2, <5>1 DEF KLS!StringWith
        <5>2. CASE k # 0
          <6> DEFINE got == [i \in 1 .. k - 1 |-> sent[i]]
                     all == [i \in 1 .. k |-> sent[i]]
          <6>1. k \in 1 .. Len(sent) /\ k - 1 \in Nat /\ (k - 1) + 1 = k
            BY <1>1, <2>1, <5>2
          <6>2. \A i \in 1 .. k : sent[i] \in KLS!Byte
            BY <1>1, <6>1, ElementOfSeq
          <6>3. got \in Seq(KLS!Byte) /\ Len(got) = k - 1
            BY <6>1, <6>2
          <6>4. all \in Seq(KLS!Byte) /\ Len(all) = k
            BY <6>1, <6>2
          <6>5. sends = sent[k] /\ KLS!StringWith(sends) = Append(got, sends)
            BY <2>2, <5>2 DEF KLS!StringWith, sends, Sends
          <6>6. \A i \in 1 .. k - 1 : got[i] = all[i]
            BY <6>1
          <6>7. all[k] = sends
            BY <6>1, <6>5
          <6> HIDE DEF got, all
          <6>8. /\ Append(got, sends) \in Seq(KLS!Byte) /\ Len(Append(got, sends)) = (k - 1) + 1
                /\ \A i \in 1 .. k - 1 : Append(got, sends)[i] = got[i]
                /\ Append(got, sends)[(k - 1) + 1] = sends
            BY <3>4, <6>3, AppendProperties
          <6>9. \A i \in 1 .. k : Append(got, sends)[i] = all[i]
            BY <6>1, <6>6, <6>7, <6>8
          <6>10. Append(got, sends) = all
            BY <6>1, <6>4, <6>8, <6>9, SeqEqual
          <6> QED  BY <6>5, <6>10 DEF all
        <5> QED  BY <5>1, <5>2
      <4>7. Len([i \in 1 .. k |-> sent[i]]) = k
        BY <1>1, <2>1
      <4>8. /\ bitIndex' = 0 /\ currentByte' = KLS!NoBits /\ payloadSize' = Len(sent)
            /\ receivedString' = [i \in 1 .. k |-> sent[i]]
            /\ byteCount' = (k + 1) % (MaxByte + 1)
            /\ state' = IF k = Len(sent) THEN "Complete" ELSE "Receiving"
        BY <2>2, <4>3, <4>5, <4>6, <4>7 DEF KLS!ProcessCompletedByte
      <4>9. CASE k = Len(sent)
        <5>1. q = Done(sent) /\ q # Awake /\ ~InBits(sent, q)
          BY <1>1, <4>4, <4>9, MarkNumbers DEF Done
        <5>2. [i \in 1 .. k |-> sent[i]] = sent
          BY <1>1, <4>9, LenProperties
        <5> QED  BY <1>3, <4>8, <4>9, <5>1, <5>2 DEF DecoderAt
      <4>10. CASE k # Len(sent)
        <5>1. k + 1 \in 0 .. Len(sent) /\ k + 1 # 0 /\ (k + 1) - 1 = k /\ k + 1 \in 0 .. MaxByte
          BY <1>1, <2>1, <4>10
        <5>2. (k + 1) % (MaxByte + 1) = k + 1
          BY <1>1, <5>1
        <5>3. InBits(sent, q) /\ q[1] = k + 1 /\ q[2] = 0
          BY <1>1, <4>4, <5>1 DEF InBits
        <5>4. q # Awake /\ q # Done(sent)
          BY <1>1, <5>3, MarkNumbers
        <5>5. KLS!NoBits = FirstBits(Sends(sent, k + 1), 0)
          BY <5>1, SendsBytes, FirstBitsGrow
        <5> HIDE DEF clock
        <5> QED
          BY <1>3, <3>2, <4>8, <4>10, <5>1, <5>2, <5>3, <5>4, <5>5 DEF DecoderAt, clock
      <4> QED  BY <4>9, <4>10
    <3> QED  BY <3>6, <3>7
  <2> QED  BY <2>8, <2>9
<1> QED  BY <1>4, <1>5, <1>6 DEF Marks, InBits

\* The report the loop has taken last, and the ones that wait.
View(reports, last, i) == IF i = 0 THEN last ELSE reports[i]

\* The last report the device gets tells the clock of the host.
ClockKnown == Clock(View(queue, ledState, Len(queue))) = Clock(hostLeds)

\* The frame is under way: every report has its mark.
Marked(c) ==
  /\ DecoderAt(c[0])
  /\ \A i \in 1 .. Len(queue) :
       Follows(sent, c[i - 1], c[i], View(queue, ledState, i - 1), View(queue, ledState, i))
  /\ HostAt(sent, c[Len(queue)], hostLeds, script)
InFrame == \E c \in [0 .. Len(queue) -> Marks(sent)] : Marked(c)

\* Before the frame: the clock is switched off, and the decoder gives up what it
\* receives while the script sleeps.
Early ==
  \/ script = SendStringPayload(sent) /\ slept = 0
  \/ script = SetLed("data", FALSE) \o Asleep(sent) /\ slept = 0 /\ ~Clock(hostLeds)
  \/ /\ script = Asleep(sent) /\ ~Clock(hostLeds)
     /\ slept > 0 => /\ queue = <<>> /\ elapsed <= 1
                     /\ state = "Receiving" => slept <= silence + elapsed

RunInv == clean => connected /\ ClockKnown /\ (Early \/ InFrame)

\* The reports, seen from the loop, when one more comes.
LEMMA PushView ==
  ASSUME QueueOK, NEW leds \in SUBSET LEDs, Queue!Push(leds)
  PROVE  /\ Len(queue) \in Nat /\ Len(queue)' = Len(queue) + 1
         /\ \A i \in 0 .. Len(queue) : View(queue', ledState', i) = View(queue, ledState, i)
         /\ View(queue', ledState', Len(queue) + 1) = leds
<1> DEFINE n == Len(queue)
<1>1. n \in Nat /\ n + 1 # 0 /\ queue' = Append(queue, leds) /\ ledState' = ledState
  BY LenProperties DEF Queue!Push, QueueOK
<1>2. /\ Len(Append(queue, leds)) = n + 1 /\ Append(queue, leds)[n + 1] = leds
      /\ \A i \in 1 .. n : Append(queue, leds)[i] = queue[i]
  BY AppendProperties DEF QueueOK
<1>3. \A i \in 0 .. n : i # 0 => i \in 1 .. n
  BY <1>1
<1>4. Len(queue)' = n + 1
  BY <1>1, <1>2
<1>5. \A i \in 0 .. n : View(queue', ledState', i) = View(queue, ledState, i)
  BY <1>1, <1>2, <1>3 DEF View
<1>6. View(queue', ledState', n + 1) = leds
  BY <1>1, <1>2 DEF View
<1> QED  BY <1>1, <1>4, <1>5, <1>6

\* ... and when one is taken.
LEMMA PopView ==
  ASSUME QueueOK, Queue!Pop
  PROVE  /\ Len(queue) \in Nat \ {0} /\ Len(queue)' = Len(queue) - 1
         /\ \A i \in 0 .. Len(queue) - 1 : View(queue', ledState', i) = View(queue, ledState, i + 1)
<1> DEFINE n == Len(queue)
<1>1. queue # <<>> /\ queue \in Seq(SUBSET LEDs) /\ queue' = Tail(queue) /\ ledState' = Head(queue)
  BY DEF Queue!Pop, QueueOK
<1>2. /\ n \in Nat \ {0} /\ Len(Tail(queue)) = n - 1
      /\ \A i \in 1 .. n - 1 : Tail(queue)[i] = queue[i + 1]
  BY <1>1, HeadTailProperties, EmptySeq
<1>3. Head(queue) = queue[1]
  BY <1>1
<1>4. ASSUME NEW i \in 0 .. n - 1 PROVE View(queue', ledState', i) = View(queue, ledState, i + 1)
  <2>1. i + 1 # 0 /\ (i # 0 => i \in 1 .. n - 1)
    OBVIOUS
  <2>2. CASE i = 0
    BY <1>1, <1>3, <2>1, <2>2 DEF View
  <2>3. CASE i # 0
    BY <1>1, <1>2, <2>1, <2>3 DEF View
  <2> QED  BY <2>2, <2>3
<1> QED  BY <1>1, <1>2, <1>4

\* In an undisturbed run a change of the LEDs is reported.
LEMMA Reported ==
  ASSUME connected, ReportChange, pushOk' \/ hostLeds' = hostLeds
  PROVE  \/ hostLeds' = hostLeds /\ UNCHANGED queueVars
         \/ Queue!Push(hostLeds')
<1>1. CASE hostLeds' = hostLeds
  BY <1>1 DEF ReportChange
<1>2. CASE hostLeds' # hostLeds
  <2>1. OnWrite(hostLeds') /\ pushOk'
    BY <1>2 DEF ReportChange, Report
  <2> QED  BY <2>1 DEF OnWrite, Queue!Refuse
<1> QED  BY <1>1, <1>2

\* The loop keeps up with the clock LED, and gives up a frame in time.
LEMMA NextSeenInv == LoopOK /\ SeenInv /\ [Next]_vars => SeenInv'
<1> SUFFICES ASSUME LoopOK, SeenInv, [Next]_vars PROVE SeenInv'
  OBVIOUS
<1>1. CASE UpdateDecoder
  <2> DEFINE clock == Clock(ledState')
             data == Data(ledState')
  <2>1. KLS!Update(clock, data, elapsed) /\ clock \in BOOLEAN
    BY <1>1 DEF UpdateDecoder, Clock, Data
  <2>2. lastClockLed' = clock
    BY <2>1 DEF KLS!Update, KLS!SampleClock
  <2>3. ASSUME state' = "Receiving" PROVE silence' < ClockTimeout
    <3>1. silence \in 0 .. ClockTimeout /\ elapsed \in 0 .. ClockTimeout
      BY DEF LoopOK, KLS!TypeOK
    <3>2. silence' = IF KLS!ClockChanged(clock, elapsed) THEN 0 ELSE KLS!Rested(elapsed)
      BY <2>1 DEF KLS!Update, KLS!SampleClock
    <3>3. 0 < ClockTimeout /\ KLS!Rested(elapsed) \in Nat
      BY <3>1, LinkAssumption DEF KLS!Rested
    <3>4. CASE state = "Idle" \/ KLS!TimedOut(elapsed)
      <4>1. KLS!ClockChanged(clock, elapsed)
        BY <2>1, <2>3, <3>4, <1>1
           DEF KLS!Update, KLS!HandleIdleState, KLS!TimedOut, UpdateDecoder
      <4> QED  BY <3>2, <3>3, <4>1
    <3>5. CASE state = "Receiving" /\ ~KLS!TimedOut(elapsed)
      <4>1. KLS!Rested(elapsed) < ClockTimeout
        BY <3>3, <3>5, LinkAssumption DEF KLS!TimedOut
      <4> QED  BY <3>2, <3>3, <4>1
    <3> QED  BY <1>1, <3>4, <3>5 DEF UpdateDecoder, LoopOK, KLS!TypeOK
  <2> QED  BY <2>2, <2>3 DEF SeenInv
<1>2. CASE StorePayload
  BY <1>2 DEF StorePayload, KLS!Reset, KLS!clockVars, queueVars, SeenInv
<1>3. CASE Reboot
  BY <1>3 DEF Reboot, ClearQueue, ClearDecoder, SeenInv
<1>4. ASSUME UNCHANGED decoderVars, UNCHANGED ledState PROVE SeenInv'
  BY <1>4 DEF decoderVars, SeenInv
<1>5. ASSUME ReportChange PROVE UNCHANGED ledState
  BY <1>5 DEF ReportChange, Report, OnWrite, Queue!Push, Queue!Refuse, queueVars
<1>6. CASE \/ \E bytes \in UNION Range(Payloads) : StartScript(bytes)
           \/ \E led \in LEDs : UserPresses(led)
           \/ ScriptCommand \/ ScriptWakes \/ LinkBreaks \/ Tick \/ UNCHANGED vars
  BY <1>4, <1>5, <1>6
     DEF StartScript, ScriptCommand, ScriptWakes, UserPresses, LinkBreaks, Tick, vars, queueVars
<1>7. CASE LinkReturns
  BY <1>4, <1>7 DEF LinkReturns, OnWrite, Queue!Push, Queue!Refuse, queueVars
<1> QED  BY <1>1, <1>2, <1>3, <1>6, <1>7 DEF Next

\* What is sent is one of the payloads.
LEMMA NextSent ==
  ASSUME ShortPayloads, Payload(sent), [Next]_vars
  PROVE  /\ Payload(sent')
         /\ ~(\E bytes \in UNION Range(Payloads) : StartScript(bytes)) => UNCHANGED sent
<1>1. ASSUME NEW bytes \in UNION Range(Payloads), StartScript(bytes) PROVE Payload(sent')
  <2>1. PICK i \in 1 .. Len(Payloads) : bytes \in Payloads[i]
    BY LinkAssumption, LenProperties DEF Range
  <2>2. Payloads[i] \in SUBSET Seq(KLS!Byte)
    BY LinkAssumption, ElementOfSeq
  <2> QED  BY <1>1, <2>1, <2>2, SameByte DEF StartScript, ShortPayloads, Payload
<1>2. ~(\E bytes \in UNION Range(Payloads) : StartScript(bytes)) => UNCHANGED sent
  BY DEF Next, ScriptCommand, ScriptWakes, UserPresses, LinkBreaks, LinkReturns, UpdateDecoder,
         StorePayload, Reboot, Tick, vars, history
<1> QED  BY <1>1, <1>2

\* A command of an undisturbed run.
LEMMA CommandKeepsRun ==
  ASSUME HostOK, HostOK', QueueOK, Payload(sent), RunInv, ScriptCommand, clean'
  PROVE  connected' /\ ClockKnown' /\ (Early \/ InFrame)'
<1> DEFINE n == Len(queue)
<1>1. /\ clean /\ (pushOk' \/ hostLeds' = hostLeds) /\ connected /\ ReportChange
      /\ ClockKnown /\ (Early \/ InFrame)
  BY DEF ScriptCommand, RunInv
<1>2. /\ script # <<>> /\ Head(script).op # "sleep"
      /\ hostLeds' = Pressed(hostLeds, Head(script)) /\ script' = Tail(script)
      /\ UNCHANGED <<slept, decoderVars, elapsed, connected, passwordSequence, sent>>
  BY DEF ScriptCommand, RunCommand, Sleeping, password
<1>3. \/ hostLeds' = hostLeds /\ UNCHANGED queueVars
      \/ Queue!Push(hostLeds')
  BY <1>1, Reported
<1>4. hostLeds' \in SUBSET LEDs /\ n \in Nat
  BY LenProperties DEF HostOK, QueueOK
<1>5. ClockKnown'
  <2>1. CASE hostLeds' = hostLeds /\ UNCHANGED queueVars
    BY <1>1, <2>1 DEF ClockKnown, queueVars
  <2>2. CASE Queue!Push(hostLeds')
    <3> DEFINE leds == hostLeds'
    <3>1. Len(queue') = n + 1 /\ View(queue', ledState', n + 1) = leds
      <4> HIDE DEF leds
      <4> QED  BY <1>4, <2>2, PushView DEF leds
    <3> QED  BY <3>1 DEF ClockKnown
  <2> QED  BY <1>3, <2>1, <2>2
<1>6. ASSUME Early PROVE Early'
  <2>1. "clock" \in LEDs /\ "data" \in LEDs
    BY DEF LEDs
  <2>2. CASE script = SendStringPayload(sent) /\ slept = 0
    <3> DEFINE rest == SetLed("data", FALSE) \o Asleep(sent)
    <3>1. rest \in Seq(Command) /\ script = SetLed("clock", FALSE) \o rest
      BY <2>2, StartCommands
    <3> HIDE DEF rest
    <3>2. script' = rest /\ ~Clock(hostLeds')
      BY <1>2, <2>1, <3>1, SetKey DEF Clock
    <3> QED  BY <1>2, <2>2, <3>2 DEF Early, rest
  <2>3. CASE script = SetLed("data", FALSE) \o Asleep(sent) /\ slept = 0 /\ ~Clock(hostLeds)
    <3>1. script' = Asleep(sent) /\ ~Clock(hostLeds')
      BY <1>2, <2>1, <2>3, SetKey, StartCommands DEF Clock
    <3>2. slept' = 0 /\ ~(slept' > 0) /\ sent' = sent
      BY <1>2, <2>3
    <3> QED  BY <3>1, <3>2 DEF Early
  <2>4. CASE script = Asleep(sent)
    BY <1>2, <2>4, SleepKey, StartCommands
  <2> QED  BY <1>6, <2>2, <2>3, <2>4 DEF Early
<1>7. ASSUME InFrame PROVE InFrame'
  <2>1. PICK c \in [0 .. n -> Marks(sent)] : Marked(c)
    BY <1>7 DEF InFrame
  <2> DEFINE before == View(queue, ledState, n)
  <2>2. Clock(before) = Clock(hostLeds) /\ HostAt(sent, c[n], hostLeds, script)
    BY <1>1, <2>1 DEF ClockKnown, Marked
  <2> HIDE DEF before
  <2>3. PICK q : HostAt(sent, q, hostLeds', script') /\ Follows(sent, c[n], q, before, hostLeds')
    BY <1>2, <2>2, HostSteps
  <2>4. q \in Marks(sent)
    BY <2>3, HostMark
  <2>5. DecoderAt(c[0])'
    <3>1. UNCHANGED ledState
      BY <1>3 DEF queueVars, Queue!Push
    <3> QED  BY <1>2, <2>1, <3>1 DEF Marked, DecoderAt, decoderVars
  <2>6. CASE hostLeds' = hostLeds /\ UNCHANGED queueVars
    <3>1. q = c[n]
      BY <2>2, <2>3, <2>6 DEF Follows
    <3>2. Marked(c)'
      BY <1>2, <2>1, <2>3, <2>5, <2>6, <3>1 DEF Marked, queueVars
    <3> QED  BY <1>2, <2>6, <3>2 DEF InFrame, queueVars
  <2>7. CASE Queue!Push(hostLeds')
    <3> DEFINE leds == hostLeds'
    <3>1. /\ Len(queue') = n + 1 /\ View(queue', ledState', n + 1) = leds
          /\ \A i \in 0 .. n : View(queue', ledState', i) = View(queue, ledState, i)
      <4> HIDE DEF leds
      <4> QED  BY <1>4, <2>7, PushView DEF leds
    <3>2. PICK d \in [0 .. n + 1 -> Marks(sent)] : /\ d[n + 1] = q
                                                   /\ \A i \in 0 .. n : d[i] = c[i]
      <4> DEFINE more == [i \in 0 .. n + 1 |-> IF i = n + 1 THEN q ELSE c[i]]
      <4>1. /\ more \in [0 .. n + 1 -> Marks(sent)] /\ more[n + 1] = q
            /\ \A i \in 0 .. n : more[i] = c[i]
        BY <1>4, <2>1, <2>4
      <4> HIDE DEF more
      <4> QED  BY <4>1
    <3>3. ASSUME NEW i \in 1 .. n + 1
          PROVE  Follows(sent, d[i - 1], d[i], View(queue', ledState', i - 1),
                         View(queue', ledState', i))
      <4>1. CASE i = n + 1
        <5>1. i - 1 = n /\ n \in 0 .. n
          BY <1>4, <4>1
        <5> QED  BY <2>3, <3>1, <3>2, <4>1, <5>1 DEF before
      <4>2. CASE i # n + 1
        <5>1. i \in 1 .. n /\ i \in 0 .. n /\ i - 1 \in 0 .. n
          BY <1>4, <4>2
        <5> QED  BY <2>1, <3>1, <3>2, <5>1 DEF Marked
      <4> QED  BY <4>1, <4>2
    <3>4. d[0] = c[0]
      BY <1>4, <3>2
    <3>5. Marked(d)'
      <4>1. DecoderAt(d[0])'
        BY <2>5, <3>4 DEF DecoderAt
      <4>2. HostAt(sent', d[Len(queue')], hostLeds', script')
        BY <1>2, <2>3, <3>1, <3>2
      <4> QED  BY <1>2, <3>1, <3>3, <4>1, <4>2 DEF Marked
    <3> QED  BY <1>2, <3>1, <3>2, <3>5 DEF InFrame
  <2> QED  BY <1>3, <2>6, <2>7
<1> QED  BY <1>1, <1>2, <1>5, <1>6, <1>7

\* The run begins.
LEMMA StartBeginsRun ==
  ASSUME QueueOK, NEW bytes, StartScript(bytes), clean'
  PROVE  connected' /\ ClockKnown' /\ Early'
<1>1. /\ connected' /\ script' = SendStringPayload(bytes) /\ slept' = 0 /\ sent' = bytes
      /\ UNCHANGED <<queue, ledState, hostLeds>> /\ ClockInSync
  BY DEF StartScript, RunScript, queueVars
<1>2. (IF queue = <<>> THEN ledState ELSE Last(queue)) = View(queue, ledState, Len(queue))
  <2>1. queue = <<>> <=> Len(queue) = 0
    BY EmptySeq DEF QueueOK
  <2> QED  BY <2>1 DEF View, Last
<1>3. ClockKnown'
  <2>1. Clock(View(queue, ledState, Len(queue))) = Clock(hostLeds)
    BY <1>1, <1>2 DEF ClockInSync, ClockSeen, Clock
  <2> QED  BY <1>1, <2>1 DEF ClockKnown
<1>4. Early'
  BY <1>1 DEF Early
<1> QED  BY <1>1, <1>3, <1>4

\* The script wakes up: by then the loop has given up what it was receiving.
LEMMA WakingKeepsRun ==
  ASSUME HostOK, LoopOK, SeenInv, Payload(sent), RunInv, ScriptWakes, clean'
  PROVE  connected' /\ ClockKnown' /\ (Early \/ InFrame)'
<1>1. /\ clean /\ connected /\ ClockKnown /\ (Early \/ InFrame)
      /\ UNCHANGED <<queueVars, decoderVars, elapsed, connected, passwordSequence, sent, hostLeds>>
      /\ script # <<>> /\ Head(script).op = "sleep" /\ slept >= SyncDelay /\ script' = Tail(script)
  BY DEF ScriptWakes, WakeUp, Sleeping, RunInv, password, history
<1>2. ClockKnown' /\ connected'
  BY <1>1 DEF ClockKnown, queueVars
<1>3. /\ slept \in Nat /\ slept > 0 /\ SyncDelay \in Nat /\ ClockTimeout \in Nat
      /\ ClockTimeout < SyncDelay /\ sent \in Seq(KLS!Byte) /\ sent \in Seq(Byte)
  BY <1>1, ScriptAssumption, LinkAssumption, SameByte DEF HostOK, Payload
<1>4. ASSUME InFrame PROVE FALSE
  <2>1. PICK c : HostAt(sent, c[Len(queue)], hostLeds, script)
    BY <1>4 DEF InFrame, Marked
  <2> QED  BY <1>1, <2>1, HostSteps
<1>5. ASSUME Early PROVE InFrame'
  <2>1. /\ script = Asleep(sent) /\ ~Clock(hostLeds)
        /\ queue = <<>> /\ elapsed <= 1
        /\ state = "Receiving" => slept <= silence + elapsed
    <3>1. script # SendStringPayload(sent) /\ script # SetLed("data", FALSE) \o Asleep(sent)
      BY <1>1, StartCommands
    <3> QED  BY <1>3, <1>5, <3>1 DEF Early
  <2>2. state # "Receiving"
    <3> SUFFICES ASSUME state = "Receiving" PROVE FALSE
      OBVIOUS
    <3>1. silence \in Nat /\ elapsed \in Nat /\ silence < ClockTimeout /\ slept <= silence + elapsed
      BY <2>1, LinkAssumption DEF SeenInv, LoopOK, KLS!TypeOK
    <3> QED  BY <1>1, <1>3, <2>1, <3>1
  <2>3. script' = Pulse(sent)
    BY <1>1, <2>1, SleepKey, StartCommands
  <2>4. Len(queue) = 0 /\ Len(queue') = 0
    BY <1>1, <2>1 DEF queueVars
  <2>5. ~Clock(ledState)
    BY <1>1, <2>1, <2>4 DEF ClockKnown, View
  <2>6. lastClockLed = Clock(ledState)
    BY <2>5 DEF SeenInv, LoopOK, KLS!TypeOK, Clock
  <2>7. Awake # Done(sent) /\ ~InBits(sent, Awake) /\ Awake \in Marks(sent)
    BY <1>3, MarkNumbers DEF Marks
  <2>8. DecoderAt(Awake)'
    BY <1>1, <2>2, <2>5, <2>6, <2>7 DEF DecoderAt, queueVars, decoderVars
  <2>9. HostAt(sent', Awake, hostLeds', script')
    BY <1>1, <2>1, <2>3 DEF HostAt
  <2>10. PICK c \in [0 .. 0 -> Marks(sent)] : c[0] = Awake
    <3>1. /\ [i \in 0 .. 0 |-> Awake] \in [0 .. 0 -> Marks(sent)]
          /\ [i \in 0 .. 0 |-> Awake][0] = Awake
      BY <2>7
    <3> QED  BY <3>1
  <2>11. Marked(c)'
    <3>1. DecoderAt(c[0])'
      BY <2>8, <2>10
    <3> QED  BY <2>4, <2>9, <2>10, <3>1 DEF Marked
  <2> QED  BY <1>1, <2>4, <2>11 DEF InFrame
<1> QED  BY <1>1, <1>2, <1>4, <1>5

\* Time passes, and the loop and the script keep up with it.
LEMMA TickKeepsRun ==
  ASSUME HostOK, LoopOK, SeenInv, Payload(sent), RunInv, Tick, clean'
  PROVE  connected' /\ ClockKnown' /\ (Early \/ InFrame)'
<1>1. /\ clean /\ connected /\ ClockKnown /\ (Early \/ InFrame)
      /\ UNCHANGED <<queueVars, decoderVars, connected, passwordSequence, sent, hostLeds, script>>
      /\ queue = <<>> /\ elapsed = 0 /\ state # "Complete"
      /\ script = <<>> \/ Sleeping \/ silence + 1 < ClockTimeout
      /\ slept' = IF Sleeping /\ slept < SyncDelay THEN slept + 1 ELSE slept
  BY DEF Tick, SleepTick, RunInv, LoopKeepsUp, ScriptKeepsOn, password
<1>2. ClockKnown' /\ connected'
  BY <1>1 DEF ClockKnown, queueVars
<1>3. /\ elapsed' = 1 /\ silence \in Nat /\ slept \in Nat /\ ClockTimeout \in Nat
      /\ sent \in Seq(KLS!Byte) /\ sent \in Seq(Byte)
  BY <1>1, LinkAssumption, ScriptAssumption, SameByte DEF Tick, LoopOK, KLS!TypeOK, HostOK, Payload
<1>4. Len(queue) = 0 /\ Len(queue') = 0
  BY <1>1 DEF queueVars
<1>5. ASSUME Early PROVE Early'
  <2>1. CASE script = SendStringPayload(sent) /\ slept = 0
    <3>1. ~Sleeping
      BY <2>1, StartCommands DEF Sleeping
    <3> QED  BY <1>1, <2>1, <3>1 DEF Early
  <2>2. CASE script = SetLed("data", FALSE) \o Asleep(sent) /\ slept = 0 /\ ~Clock(hostLeds)
    <3>1. ~Sleeping
      BY <2>2, StartCommands DEF Sleeping
    <3>2. slept' = 0 /\ script' = SetLed("data", FALSE) \o Asleep(sent') /\ ~Clock(hostLeds')
      BY <1>1, <2>2, <3>1
    <3> QED  BY <3>2 DEF Early
  <2>3. CASE /\ script = Asleep(sent) /\ ~Clock(hostLeds)
             /\ slept > 0 => /\ queue = <<>> /\ elapsed <= 1
                             /\ state = "Receiving" => slept <= silence + elapsed
    <3>1. script' = Asleep(sent') /\ ~Clock(hostLeds') /\ queue' = <<>> /\ elapsed' <= 1
      BY <1>1, <1>3, <2>3 DEF queueVars
    <3>2. ASSUME state' = "Receiving" PROVE slept' <= silence' + elapsed'
      <4>1. state = "Receiving" /\ silence' = silence
        BY <1>1, <3>2 DEF decoderVars
      <4>2. slept <= silence
        BY <1>1, <1>3, <2>3, <4>1
      <4>3. slept' = slept + 1 \/ slept' = slept
        BY <1>1
      <4> QED  BY <1>3, <4>1, <4>2, <4>3
    <3> QED  BY <3>1, <3>2 DEF Early
  <2> QED  BY <1>5, <2>1, <2>2, <2>3 DEF Early
<1>6. ASSUME InFrame PROVE InFrame'
  <2>1. PICK c \in [0 .. 0 -> Marks(sent)] : DecoderAt(c[0]) /\ HostAt(sent, c[0], hostLeds, script)
    BY <1>4, <1>6 DEF InFrame, Marked
  <2>2. c[0] \in Marks(sent)
    BY <2>1
  <2>3. InBits(sent, c[0]) => silence + 1 < ClockTimeout
    <3> SUFFICES ASSUME InBits(sent, c[0]) PROVE silence + 1 < ClockTimeout
      OBVIOUS
    <3>1. script # <<>>
      BY <1>3, <2>1, HostMark, MarkNumbers
    <3>2. ~Sleeping
      BY <2>1, <3>1, HostSteps DEF Sleeping
    <3> QED  BY <1>1, <3>1, <3>2
  <2>4. DecoderAt(c[0])'
    <3>1. UNCHANGED <<state, lastClockLed, silence, bitIndex, currentByte, byteCount,
                      payloadSize, receivedString, ledState, sent, passwordSequence>>
      BY <1>1 DEF decoderVars, queueVars
    <3>2. InBits(sent, c[0]) => silence' + elapsed' < ClockTimeout
      BY <1>3, <2>3, <3>1
    <3> QED  BY <2>1, <3>1, <3>2 DEF DecoderAt
  <2>5. Marked(c)'
    BY <1>1, <1>4, <2>1, <2>4 DEF Marked
  <2> QED  BY <1>1, <1>4, <2>5 DEF InFrame
<1> QED  BY <1>1, <1>2, <1>5, <1>6

\* An iteration of the loop.
LEMMA LoopKeepsRun ==
  ASSUME HostOK, QueueOK, LoopOK, SeenInv, Payload(sent), RunInv, UpdateDecoder, clean'
  PROVE  connected' /\ ClockKnown' /\ (Early \/ InFrame)'
<1> DEFINE n == Len(queue)
<1>1. /\ clean /\ connected /\ ClockKnown /\ (Early \/ InFrame)
      /\ UNCHANGED <<hostLeds, script, slept, connected, passwordSequence, sent>>
      /\ elapsed' = 0 /\ state # "Complete"
      /\ Queue!Pop \/ (queue = <<>> /\ UNCHANGED queueVars)
  BY DEF UpdateDecoder, TakeReport, RunInv, hostVars, history, password
<1>2. n \in Nat /\ sent \in Seq(KLS!Byte) /\ sent \in Seq(Byte)
  BY LenProperties, SameByte DEF QueueOK, Payload
<1>3. ClockKnown'
  <2>1. CASE Queue!Pop
    <3>1. Len(queue') = n - 1 /\ n - 1 \in 0 .. n - 1 /\ (n - 1) + 1 = n
      BY <1>2, <2>1, PopView
    <3>2. View(queue', ledState', n - 1) = View(queue, ledState, n)
      BY <2>1, <3>1, PopView
    <3> QED  BY <1>1, <3>1, <3>2 DEF ClockKnown
  <2>2. CASE UNCHANGED queueVars
    BY <1>1, <2>2 DEF ClockKnown, queueVars
  <2> QED  BY <1>1, <2>1, <2>2
<1>4. ASSUME Early PROVE Early'
  <2>1. CASE \/ script = SendStringPayload(sent) /\ slept = 0
             \/ script = SetLed("data", FALSE) \o Asleep(sent) /\ slept = 0 /\ ~Clock(hostLeds)
    BY <1>1, <2>1 DEF Early
  <2>2. CASE /\ script = Asleep(sent) /\ ~Clock(hostLeds)
             /\ slept > 0 => /\ queue = <<>> /\ elapsed <= 1
                             /\ state = "Receiving" => slept <= silence + elapsed
    <3>1. ASSUME slept > 0
          PROVE  /\ queue' = <<>> /\ elapsed' <= 1
                 /\ state' = "Receiving" => slept' <= silence' + elapsed'
      <4>1. /\ queue = <<>> /\ UNCHANGED queueVars
            /\ state = "Receiving" => slept <= silence + elapsed
        BY <1>1, <2>2, <3>1 DEF Queue!Pop
      <4>2. ~Clock(ledState) /\ ~Clock(ledState')
        BY <1>1, <2>2, <4>1 DEF ClockKnown, View, queueVars
      <4> DEFINE clock == Clock(ledState')
                 data == Data(ledState')
      <4>3. KLS!Update(clock, data, elapsed)
        BY DEF UpdateDecoder, Clock, Data
      <4>4. /\ ~lastClockLed /\ lastClockLed \in BOOLEAN /\ silence \in Nat /\ elapsed \in Nat
            /\ state \in {"Idle", "Receiving"} /\ ClockTimeout \in Nat
        BY <1>1, <4>2, LinkAssumption DEF SeenInv, LoopOK, KLS!TypeOK
      <4>5. ~KLS!ClockChanged(clock, elapsed)
        BY <4>2, <4>4 DEF KLS!ClockChanged, Clock
      <4>6. ASSUME state' = "Receiving" PROVE slept <= silence'
        <5>1. state = "Receiving" /\ ~KLS!TimedOut(elapsed)
          BY <4>3, <4>4, <4>5, <4>6 DEF KLS!Update, KLS!HandleIdleState
        <5>2. silence + elapsed < ClockTimeout
          BY <4>4, <5>1 DEF KLS!TimedOut, KLS!Rested
        <5>3. silence' = silence + elapsed
          BY <4>3, <4>5, <5>2 DEF KLS!Update, KLS!SampleClock, KLS!Rested
        <5> QED  BY <4>1, <5>1, <5>3
      <4>7. silence' \in Nat
        BY <4>3, <4>4, <4>5, LinkAssumption DEF KLS!Update, KLS!SampleClock, KLS!Rested
      <4>8. state' = "Receiving" => slept' <= silence' + elapsed'
        BY <1>1, <4>6, <4>7
      <4> QED  BY <1>1, <4>1, <4>8 DEF queueVars
    <3> QED  BY <1>1, <2>2, <3>1 DEF Early
  <2> QED  BY <1>4, <2>1, <2>2 DEF Early
<1>5. ASSUME InFrame PROVE InFrame'
  <2>1. PICK c \in [0 .. n -> Marks(sent)] : Marked(c)
    BY <1>5 DEF InFrame
  <2>2. c[0] \in Marks(sent) /\ DecoderAt(c[0]) /\ HostAt(sent, c[n], hostLeds, script)
    BY <1>2, <2>1 DEF Marked
  <2>3. CASE Queue!Pop
    <3>1. /\ n \in Nat \ {0} /\ Len(queue') = n - 1
          /\ \A i \in 0 .. n - 1 : View(queue', ledState', i) = View(queue, ledState, i + 1)
      BY <2>3, PopView
    <3>2. PICK d \in [0 .. n - 1 -> Marks(sent)] : \A i \in 0 .. n - 1 : d[i] = c[i + 1]
      <4> DEFINE less == [i \in 0 .. n - 1 |-> c[i + 1]]
      <4>1. less \in [0 .. n - 1 -> Marks(sent)] /\ \A i \in 0 .. n - 1 : less[i] = c[i + 1]
        BY <3>1, <2>1
      <4> HIDE DEF less
      <4> QED  BY <4>1
    <3>3. ASSUME NEW i \in 1 .. n - 1
          PROVE  Follows(sent, d[i - 1], d[i], View(queue', ledState', i - 1),
                         View(queue', ledState', i))
      <4>1. /\ i \in 0 .. n - 1 /\ i - 1 \in 0 .. n - 1 /\ (i - 1) + 1 = i
            /\ i + 1 \in 1 .. n /\ (i + 1) - 1 = i
        BY <3>1
      <4>2. Follows(sent, c[(i + 1) - 1], c[i + 1], View(queue, ledState, (i + 1) - 1),
                    View(queue, ledState, i + 1))
        BY <2>1, <4>1 DEF Marked
      <4> QED  BY <3>1, <3>2, <4>1, <4>2
    <3>4. DecoderAt(d[0])'
      <4>1. 0 \in 0 .. n - 1 /\ 0 + 1 = 1 /\ 1 \in 1 .. n /\ 1 - 1 = 0
        BY <3>1
      <4>2. d[0] = c[1] /\ View(queue', ledState', 0) = View(queue, ledState, 1)
        BY <3>1, <3>2, <4>1
      <4>3. Follows(sent, c[1 - 1], c[1], View(queue, ledState, 1 - 1), View(queue, ledState, 1))
        BY <2>1, <4>1 DEF Marked
      <4>4. Follows(sent, c[0], d[0], ledState, ledState')
        BY <4>1, <4>2, <4>3 DEF View
      <4> QED  BY <1>1, <2>2, <4>4, DecoderSteps
    <3>5. HostAt(sent', d[Len(queue')], hostLeds', script')
      <4>1. n - 1 \in 0 .. n - 1 /\ (n - 1) + 1 = n
        BY <3>1
      <4> QED  BY <1>1, <2>2, <3>1, <3>2, <4>1
    <3>6. Marked(d)'
      BY <1>1, <3>1, <3>3, <3>4, <3>5 DEF Marked
    <3> QED  BY <1>1, <3>1, <3>6 DEF InFrame
  <2>4. CASE queue = <<>> /\ UNCHANGED queueVars
    <3>1. n = 0 /\ Len(queue') = 0 /\ ledState' = ledState
      BY <2>4 DEF queueVars
    <3>2. Follows(sent, c[0], c[0], ledState, ledState')
      BY <3>1 DEF Follows
    <3>3. DecoderAt(c[0])'
      BY <1>1, <2>2, <3>2, DecoderSteps
    <3>4. Marked(c)'
      BY <1>1, <2>2, <3>1, <3>3 DEF Marked
    <3> QED  BY <1>1, <2>1, <3>1, <3>4 DEF InFrame
  <2> QED  BY <1>1, <2>3, <2>4
<1> QED  BY <1>1, <1>3, <1>4, <1>5

\* The loop stores what is complete.
LEMMA StoreKeepsRun ==
  ASSUME Payload(sent), QueueOK, RunInv, StorePayload, clean'
  PROVE  connected' /\ ClockKnown' /\ (Early \/ InFrame)'
<1>1. /\ clean /\ connected /\ ClockKnown /\ (Early \/ InFrame)
      /\ UNCHANGED <<hostLeds, script, slept, queue, ledState, elapsed, connected, sent,
                     lastClockLed, silence, receivedString>>
      /\ state = "Complete" /\ state' = "Idle" /\ passwordSequence' = receivedString
  BY DEF StorePayload, RunInv, KLS!Reset, KLS!clockVars, KLS!frameVars, hostVars, queueVars
<1>2. ClockKnown'
  BY <1>1 DEF ClockKnown
<1>3. ASSUME Early PROVE Early'
  BY <1>1, <1>3 DEF Early
<1>4. ASSUME InFrame PROVE InFrame'
  <2>1. PICK c \in [0 .. Len(queue) -> Marks(sent)] : Marked(c)
    BY <1>4 DEF InFrame
  <2>2. ~InBits(sent, c[0])
    BY <1>1, <2>1 DEF Marked, DecoderAt
  <2>3. DecoderAt(c[0])'
    BY <1>1, <2>1, <2>2 DEF Marked, DecoderAt
  <2>4. Marked(c)'
    BY <1>1, <2>1, <2>3 DEF Marked
  <2> QED  BY <1>1, <2>1, <2>4 DEF InFrame
<1> QED  BY <1>1, <1>2, <1>3, <1>4

\* A run that stays undisturbed is before its frame or in it.
LEMMA NextRunInv ==
  ASSUME HostOK, HostOK', QueueOK, LoopOK, SeenInv, Payload(sent), RunInv, [Next]_vars
  PROVE  RunInv'
<1> SUFFICES ASSUME clean' PROVE connected' /\ ClockKnown' /\ (Early \/ InFrame)'
  BY DEF RunInv
<1>1. ASSUME NEW bytes \in UNION Range(Payloads), StartScript(bytes)
      PROVE  connected' /\ ClockKnown' /\ (Early \/ InFrame)'
  BY <1>1, StartBeginsRun
<1>2. CASE LinkReturns
  BY <1>2 DEF LinkReturns, RunInv
<1>3. CASE LinkBreaks \/ Reboot \/ \E led \in LEDs : UserPresses(led)
  BY <1>3 DEF LinkBreaks, Reboot, UserPresses
<1>4. CASE UNCHANGED vars
  <2>1. /\ clean /\ connected /\ ClockKnown /\ (Early \/ InFrame)
        /\ UNCHANGED <<hostLeds, script, slept, queue, ledState, elapsed, connected, sent,
                       lastClockLed, silence, receivedString, state, passwordSequence,
                       bitIndex, byteCount, currentByte, payloadSize>>
    BY <1>4 DEF vars, hostVars, queueVars, decoderVars, history, password, RunInv
  <2> QED  BY <2>1 DEF ClockKnown, Early, InFrame, Marked, DecoderAt
<1> QED
  BY <1>1, <1>2, <1>3, <1>4, CommandKeepsRun, WakingKeepsRun, TickKeepsRun, LoopKeepsRun,
     StoreKeepsRun DEF Next

\* At the end of the run its payload is the password.
LEMMA RunArrives ==
  ASSUME QueueOK, Payload(sent), RunInv, Arrived
  PROVE  state = "Idle" /\ passwordSequence = sent
<1>1. clean /\ script = <<>> /\ queue = <<>> /\ state # "Complete"
  BY DEF Arrived
<1>2. sent \in Seq(KLS!Byte) /\ sent \in Seq(Byte)
  BY SameByte DEF Payload
<1>3. ~Early
  BY <1>1, StartCommands DEF Early
<1>4. PICK c : DecoderAt(c[0]) /\ HostAt(sent, c[0], hostLeds, <<>>)
  BY <1>1, <1>3 DEF RunInv, InFrame, Marked
<1>5. c[0] = Done(sent)
  BY <1>4, HostMark
<1> QED  BY <1>1, <1>4, <1>5 DEF DecoderAt

\* The invariant of the undisturbed run.
FullInv == HostOK /\ QueueOK /\ LoopOK /\ SeenInv /\ Payload(sent) /\ RunInv

LEMMA InitFullInv == Init => FullInv
<1> SUFFICES ASSUME Init PROVE FullInv
  OBVIOUS
<1>1. HostOK /\ QueueOK /\ LoopOK
  BY InitIInv, Parts
<1>2. SeenInv
  BY DEF Init, KLS!Init, SeenInv
<1>3. Payload(sent)
  BY LinkAssumption, EmptySeq, SameByte DEF Init, Payload
<1>4. RunInv
  BY DEF Init, RunInv
<1> QED  BY <1>1, <1>2, <1>3, <1>4 DEF FullInv

LEMMA NextFullInv == ShortPayloads /\ FullInv /\ [Next]_vars => FullInv'
<1> SUFFICES ASSUME ShortPayloads, FullInv, [Next]_vars PROVE FullInv'
  OBVIOUS
<1> USE DEF FullInv
<1>1. HostOK' /\ QueueOK' /\ LoopOK'
  BY NextHostOK, NextQueueOK, NextLoopOK
<1>2. SeenInv'
  BY NextSeenInv
<1>3. Payload(sent)'
  BY NextSent
<1>4. RunInv'
  BY <1>1, NextRunInv
<1> QED  BY <1>1, <1>2, <1>3, <1>4

\* It holds if no payload is too long.
LEMMA FullInvariant ==
  ASSUME ShortPayloads
  PROVE  Spec => []FullInv
<1>1. FullInv /\ [Next]_vars => FullInv'
  BY NextFullInv
<1> QED  BY <1>1, InitFullInv, PTL DEF Spec

\* If no payload is too long for its length byte, the one that an undisturbed run of the
\* script sends is the password of the device when its last report is taken, whatever
\* happened before the run: a frame cut off, a report dropped, a break, a restart.
THEOREM RunStored ==
  ASSUME ShortPayloads
  PROVE  Spec => []CleanRunStored
<1>1. FullInv => CleanRunStored
  BY RunArrives DEF FullInv, CleanRunStored, Arrived
<1> QED  BY <1>1, FullInvariant, PTL

\* ... and the decoder waits for the next frame: the edges that end a run start none.
THEOREM RunEndsIdle ==
  ASSUME ShortPayloads
  PROVE  Spec => []CleanRunEndsIdle
<1>1. FullInv => CleanRunEndsIdle
  BY RunArrives DEF FullInv, CleanRunEndsIdle, Arrived
<1> QED  BY <1>1, FullInvariant, PTL
=============================================================================
