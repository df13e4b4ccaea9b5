------------------------ MODULE LedStateBuffer_proofs ------------------------
(***************************************************************************)
(* For every size of the ring and every set of reports: the ring buffer is *)
(* type correct, its two tasks never meet in a slot, and it implements the *)
(* bounded FIFO of LedQueue.                                               *)
(***************************************************************************)
EXTENDS LedStateBuffer, SequenceTheorems, TLAPS

(***************************************************************************)
(* Arithmetic of the indices.                                              *)
(***************************************************************************)

\* The remainder of the sum of two numbers below n.
LEMMA ModSum ==
  ASSUME NEW n \in Nat \ {0}, NEW x \in 0 .. n - 1, NEW y \in 0 .. n - 1
  PROVE  (x + y) % n = IF x + y < n THEN x + y ELSE x + y - n
  OBVIOUS

\* Succ is the next slot, and slot 0 after the last.
LEMMA SuccSlot ==
  ASSUME NEW i \in Slots
  PROVE  /\ Succ(i) \in Slots
         /\ Succ(i) = IF i + 1 = SIZE THEN 0 ELSE i + 1
<1>1. SIZE \in Nat \ {0} /\ i \in 0 .. SIZE - 1 /\ 1 \in 0 .. SIZE - 1
  BY BufferAssumption DEF Slots
<1>2. (i + 1) % SIZE = IF i + 1 < SIZE THEN i + 1 ELSE i + 1 - SIZE
  BY <1>1, ModSum
<1> QED BY <1>1, <1>2 DEF Slots, Succ

\* The i-th report counted from tail is in slot tail + i - 1, wrapped.
LEMMA SlotOfReport ==
  ASSUME NEW t \in Slots, NEW i \in 1 .. SIZE
  PROVE  /\ Slot(t, i) \in Slots
         /\ Slot(t, i) = IF t + i - 1 < SIZE THEN t + i - 1 ELSE t + i - 1 - SIZE
<1> DEFINE k == i - 1
<1>1. SIZE \in Nat \ {0} /\ t \in 0 .. SIZE - 1 /\ k \in 0 .. SIZE - 1
  BY BufferAssumption DEF Slots
<1>2. (t + k) % SIZE = IF t + k < SIZE THEN t + k ELSE t + k - SIZE
  <2> HIDE DEF k
  <2> QED BY <1>1, ModSum
<1>3. t + i - 1 = t + k
  BY <1>1
<1>4. Slot(t, i) = IF t + k < SIZE THEN t + k ELSE t + k - SIZE
  BY <1>2, <1>3 DEF Slot
<1> QED BY <1>1, <1>3, <1>4 DEF Slots

\* There are 0 to SIZE - 1 reports in the ring.
LEMMA UsedRange ==
  ASSUME NEW t \in Slots, NEW h \in Slots
  PROVE  Used(t, h) \in 0 .. SIZE - 1
  BY BufferAssumption DEF Used, Slots

\* The contents of the ring are a sequence of reports, one per used slot.
LEMMA ReportsSeq ==
  ASSUME NEW t \in Slots, NEW h \in Slots, NEW b \in [Slots -> LedValues]
  PROVE  /\ Reports(b, t, h) \in Seq(LedValues)
         /\ Len(Reports(b, t, h)) = Used(t, h)
         /\ \A i \in 1 .. Used(t, h) : Reports(b, t, h)[i] = b[Slot(t, i)]
<1> DEFINE n == Used(t, h)
<1>1. n \in Nat /\ n \in 0 .. SIZE - 1
  BY UsedRange, BufferAssumption
<1>2. \A i \in 1 .. n : b[Slot(t, i)] \in LedValues
  <2> SUFFICES ASSUME NEW i \in 1 .. n PROVE Slot(t, i) \in Slots
    OBVIOUS
  <2>1. i \in 1 .. SIZE
    BY <1>1, BufferAssumption
  <2> QED BY <2>1, SlotOfReport
<1>3. Reports(b, t, h) \in [1 .. n -> LedValues]
  BY <1>2 DEF Reports
<1>4. Reports(b, t, h) \in Seq(LedValues) /\ Len(Reports(b, t, h)) = n
  <2> HIDE DEF n
  <2> QED BY <1>1, <1>3
<1> QED BY <1>4 DEF Reports

\* Moving head by one appends the report in the slot it leaves.
LEMMA PublishAppends ==
  ASSUME NEW t \in Slots, NEW h \in Slots, NEW b \in [Slots -> LedValues],
         Succ(h) # t
  PROVE  /\ Used(t, h) < SIZE - 1
         /\ Reports(b, t, Succ(h)) = Append(Reports(b, t, h), b[h])
<1> DEFINE old == Reports(b, t, h)
           new == Reports(b, t, Succ(h))
<1>0. Succ(h) \in Slots /\ Succ(h) = IF h + 1 = SIZE THEN 0 ELSE h + 1
  BY SuccSlot
<1>1. /\ Used(t, h) < SIZE - 1
      /\ Used(t, h) \in Nat
      /\ Used(t, Succ(h)) = Used(t, h) + 1
  BY <1>0, BufferAssumption DEF Used, Slots
<1>2. Slot(t, Used(t, h) + 1) = h
  <2>1. Used(t, h) + 1 \in 1 .. SIZE
    BY <1>1, BufferAssumption
  <2>2. Slot(t, Used(t, h) + 1) =
          IF t + (Used(t, h) + 1) - 1 < SIZE THEN t + (Used(t, h) + 1) - 1
                                             ELSE t + (Used(t, h) + 1) - 1 - SIZE
    BY <2>1, SlotOfReport
  <2> QED BY <2>2, BufferAssumption DEF Used, Slots
<1>3. /\ old \in Seq(LedValues) /\ Len(old) = Used(t, h)
      /\ \A i \in 1 .. Used(t, h) : old[i] = b[Slot(t, i)]
  BY ReportsSeq
<1>4. /\ new \in Seq(LedValues) /\ Len(new) = Used(t, h) + 1
      /\ \A i \in 1 .. Used(t, h) + 1 : new[i] = b[Slot(t, i)]
  BY ReportsSeq, <1>0, <1>1
<1> HIDE DEF old, new
<1>5. b[h] \in LedValues
  OBVIOUS
<1>6. /\ Append(old, b[h]) \in Seq(LedValues)
      /\ Len(Append(old, b[h])) = Used(t, h) + 1
      /\ \A i \in 1 .. Used(t, h) : Append(old, b[h])[i] = old[i]
      /\ Append(old, b[h])[Used(t, h) + 1] = b[h]
  BY <1>3, <1>5, AppendProperties
<1>7. \A i \in 1 .. Len(new) : new[i] = Append(old, b[h])[i]
  BY <1>1, <1>2, <1>3, <1>4, <1>6
<1>8. new = Append(old, b[h])
  BY <1>4, <1>6, <1>7, SeqEqual
<1> QED BY <1>1, <1>8 DEF old, new

\* Moving tail by one removes the oldest report.
LEMMA AdvanceRemoves ==
  ASSUME NEW t \in Slots, NEW h \in Slots, NEW b \in [Slots -> LedValues],
         h # t
  PROVE  /\ Reports(b, t, h) # <<>>
         /\ Head(Reports(b, t, h)) = b[t]
         /\ Reports(b, Succ(t), h) = Tail(Reports(b, t, h))
<1> DEFINE old == Reports(b, t, h)
           new == Reports(b, Succ(t), h)
           n == Used(t, h)
<1>0. Succ(t) \in Slots /\ Succ(t) = IF t + 1 = SIZE THEN 0 ELSE t + 1
  BY SuccSlot
<1>1. n \in 1 .. SIZE - 1 /\ Used(Succ(t), h) = n - 1
  BY <1>0, BufferAssumption DEF Used, Slots
<1>2. Slot(t, 1) = t
  BY SlotOfReport, BufferAssumption DEF Slots
<1>3. \A i \in 1 .. n - 1 : Slot(Succ(t), i) = Slot(t, i + 1)
  <2> SUFFICES ASSUME NEW i \in 1 .. n - 1
               PROVE  Slot(Succ(t), i) = Slot(t, i + 1)
    OBVIOUS
  <2>1. i \in 1 .. SIZE /\ i + 1 \in 1 .. SIZE
    BY <1>1, BufferAssumption
  <2>2. Slot(Succ(t), i) = IF Succ(t) + i - 1 < SIZE THEN Succ(t) + i - 1
                                                    ELSE Succ(t) + i - 1 - SIZE
    BY <2>1, <1>0, SlotOfReport
  <2>3. Slot(t, i + 1) = IF t + (i + 1) - 1 < SIZE THEN t + (i + 1) - 1
                                                  ELSE t + (i + 1) - 1 - SIZE
    BY <2>1, SlotOfReport
  <2> QED BY <2>1, <2>2, <2>3, <1>0, BufferAssumption DEF Slots
<1>4. /\ old \in Seq(LedValues) /\ Len(old) = n
      /\ \A i \in 1 .. n : old[i] = b[Slot(t, i)]
  BY ReportsSeq
<1>5. /\ new \in Seq(LedValues) /\ Len(new) = n - 1
      /\ \A i \in 1 .. n - 1 : new[i] = b[Slot(Succ(t), i)]
  BY ReportsSeq, <1>0, <1>1
<1> HIDE DEF old, new, n
<1>6. old # <<>>
  BY <1>1, <1>4, EmptySeq
<1>7. /\ Tail(old) \in Seq(LedValues) /\ Len(Tail(old)) = n - 1
      /\ \A i \in 1 .. n - 1 : Tail(old)[i] = old[i + 1]
  BY <1>4, <1>6, HeadTailProperties
<1>8. \A i \in 1 .. n - 1 : i + 1 \in 1 .. n
  BY <1>1
<1>9. \A i \in 1 .. Len(new) : new[i] = Tail(old)[i]
  BY <1>3, <1>4, <1>5, <1>7, <1>8
<1>10. new = Tail(old)
  BY <1>5, <1>7, <1>9, SeqEqual
<1>11. Head(old) = b[t]
  BY <1>1, <1>2, <1>4, <1>6
<1> QED BY <1>6, <1>10, <1>11 DEF old, new

\* A store to the free slot at head leaves the contents as they were.
LEMMA StoreOutside ==
  ASSUME NEW t \in Slots, NEW h \in Slots, NEW b \in [Slots -> LedValues],
         NEW v \in LedValues
  PROVE  Reports([b EXCEPT ![h] = v], t, h) = Reports(b, t, h)
<1>1. \A i \in 1 .. Used(t, h) : Slot(t, i) \in Slots /\ Slot(t, i) # h
  <2> SUFFICES ASSUME NEW i \in 1 .. Used(t, h)
               PROVE  Slot(t, i) \in Slots /\ Slot(t, i) # h
    OBVIOUS
  <2>1. Used(t, h) \in 0 .. SIZE - 1 /\ i \in 1 .. SIZE
    BY UsedRange, BufferAssumption
  <2>2. /\ Slot(t, i) \in Slots
        /\ Slot(t, i) = IF t + i - 1 < SIZE THEN t + i - 1 ELSE t + i - 1 - SIZE
    BY <2>1, SlotOfReport
  <2> QED BY <2>1, <2>2, BufferAssumption DEF Used, Slots
<1> QED BY <1>1 DEF Reports

(***************************************************************************)
(* The inductive invariant.                                                *)
(***************************************************************************)
LEMMA InitIInv == Init => IInv
  BY BufferAssumption DEF Init, IInv, TypeOK, WriterInv, ReaderInv, Slots

LEMMA NextIInv == IInv /\ [Next]_vars => IInv'
<1> SUFFICES ASSUME IInv, [Next]_vars PROVE IInv'
  OBVIOUS
<1> USE DEF IInv, TypeOK, WriterInv, ReaderInv
<1>1. CASE PushFull
  BY <1>1 DEF PushFull, writerVars, readerVars
<1>2. ASSUME NEW v \in LedValues, PushRoom(v) PROVE IInv'
  <2>1. Succ(head) \in Slots
    BY SuccSlot
  <2> QED BY <1>2, <2>1 DEF PushRoom, IsFull, readerVars
<1>3. CASE PushStore
  BY <1>3 DEF PushStore, readerVars
<1>4. CASE PushPublish
  <2>1. Succ(head) = IF head + 1 = SIZE THEN 0 ELSE head + 1
    BY SuccSlot
  <2> QED BY <1>4, <2>1 DEF PushPublish, readerVars
<1>5. CASE PushCountLoad
  BY <1>5 DEF PushCountLoad, readerVars
<1>6. CASE PushCountStore
  <2>1. (wcount + 1) % CountMod \in 0 .. CountMod - 1
    BY BufferAssumption
  <2> QED BY <1>6, <2>1 DEF PushCountStore, readerVars
<1>7. CASE PopFound
  BY <1>7 DEF PopFound, IsEmpty, writerVars
<1>8. CASE PopRead
  BY <1>8 DEF PopRead, writerVars
<1>9. CASE PopAdvance
  <2>1. Succ(tail) \in Slots
    BY SuccSlot
  <2>2. head # tail /\ wpc \in {"store", "publish"} => wnext # Succ(tail)
    <3> SUFFICES ASSUME head # tail, wpc \in {"store", "publish"}
                 PROVE  Succ(head) # Succ(tail)
      OBVIOUS
    <3>1. /\ Succ(head) = IF head + 1 = SIZE THEN 0 ELSE head + 1
          /\ Succ(tail) = IF tail + 1 = SIZE THEN 0 ELSE tail + 1
      BY SuccSlot
    <3> QED BY <3>1, BufferAssumption DEF Slots
  <2> QED BY <1>9, <2>1, <2>2 DEF PopAdvance, writerVars
<1>10. CASE PopCountLoad
  BY <1>10 DEF PopCountLoad, writerVars
<1>11. CASE PopCountStore
  <2>1. (rcount + CountMod - 1) % CountMod \in 0 .. CountMod - 1
    BY BufferAssumption
  <2> QED BY <1>11, <2>1 DEF PopCountStore, writerVars
<1>12. CASE UNCHANGED vars
  BY <1>12 DEF vars, writerVars, readerVars
<1> QED
  BY <1>1, <1>2, <1>3, <1>4, <1>5, <1>6, <1>7, <1>8, <1>9, <1>10, <1>11, <1>12
     DEF Next, Writer, Reader

LEMMA InvariantIInv == Spec => []IInv
  BY InitIInv, NextIInv, PTL DEF Spec

\* Indices, registers and slots keep their types, whatever the tasks interleave.
THEOREM TypeCorrect == Spec => []TypeOK
<1>1. IInv => TypeOK
  BY DEF IInv
<1> QED BY <1>1, InvariantIInv, PTL

\* push never writes the slot that pop reads.
THEOREM SlotsDisjoint == Spec => []NoSlotRace
<1>1. IInv => NoSlotRace
  BY DEF IInv, ReaderInv, NoSlotRace
<1> QED BY <1>1, InvariantIInv, PTL

(***************************************************************************)
(* Refinement: what each step does to the contents of the ring.            *)
(***************************************************************************)
LEMMA InitMaps == Init => Abstract!Init
  BY BufferAssumption DEF Init, Abstract!Init, Contents, Reports, Used

LEMMA StepMaps == IInv /\ [Next]_vars => [Abstract!Next]_(Abstract!qvars)
<1> SUFFICES ASSUME IInv, [Next]_vars
             PROVE  Abstract!Next \/ UNCHANGED <<wval, Contents, pushOk, ledState>>
  BY DEF Abstract!qvars
<1>0. /\ head \in Slots /\ tail \in Slots /\ buffer \in [Slots -> LedValues]
      /\ wval \in LedValues
  BY DEF IInv, TypeOK
<1>1. CASE PushFull
  <2>1. Len(Contents) = Used(tail, head)
    BY <1>0, ReportsSeq DEF Contents
  <2>2. Succ(head) = IF head + 1 = SIZE THEN 0 ELSE head + 1
    BY <1>0, SuccSlot
  <2>3. Used(tail, head) = SIZE - 1
    BY <1>0, <1>1, <2>2, BufferAssumption DEF PushFull, IsFull, Used, Slots
  <2>4. Abstract!Refuse
    BY <1>1, <2>1, <2>3 DEF PushFull, Abstract!Refuse, Contents
  <2> QED BY <1>1, <2>4 DEF Abstract!Next, PushFull, writerVars
<1>2. CASE PushStore
  <2>1. Contents' = Contents
    BY <1>0, <1>2, StoreOutside DEF PushStore, Contents
  <2> QED BY <1>2, <2>1 DEF PushStore
<1>3. CASE PushPublish
  <2>1. wnext = Succ(head) /\ Succ(head) # tail /\ buffer[head] = wval
    BY <1>3 DEF IInv, WriterInv, PushPublish
  <2>2. Len(Contents) = Used(tail, head)
    BY <1>0, ReportsSeq DEF Contents
  <2>3. Used(tail, head) < SIZE - 1
    BY <1>0, <2>1, PublishAppends
  <2>4. Reports(buffer, tail, Succ(head)) = Append(Contents, wval)
    BY <1>0, <2>1, PublishAppends DEF Contents
  <2>5. Contents' = Append(Contents, wval)
    BY <1>3, <2>1, <2>4 DEF PushPublish, Contents
  <2>6. Abstract!Push(wval)
    BY <1>3, <2>2, <2>3, <2>5 DEF PushPublish, Abstract!Push
  <2> QED BY <1>3, <2>6 DEF Abstract!Next, PushPublish
<1>4. CASE PopAdvance
  <2>1. head # tail /\ rval = buffer[tail]
    BY <1>4 DEF IInv, ReaderInv, PopAdvance
  <2>2. /\ Contents # <<>> /\ Head(Contents) = rval
        /\ Reports(buffer, Succ(tail), head) = Tail(Contents)
    BY <1>0, <2>1, AdvanceRemoves DEF Contents
  <2>3. Contents' = Tail(Contents)
    BY <1>4, <2>2 DEF PopAdvance, Contents
  <2>4. Abstract!Pop
    BY <1>4, <2>2, <2>3 DEF PopAdvance, Abstract!Pop
  <2> QED BY <1>4, <2>4 DEF Abstract!Next, PopAdvance, writerVars
<1>5. ASSUME NEW v \in LedValues, PushRoom(v) PROVE Abstract!Next
  BY <1>5 DEF PushRoom, Contents, Abstract!Next, Abstract!Offer
<1>6. CASE PushCountLoad \/ PushCountStore
  BY <1>6 DEF PushCountLoad, PushCountStore, Contents
<1>7. CASE PopFound \/ PopRead \/ PopCountLoad \/ PopCountStore
  BY <1>7 DEF PopFound, PopRead, PopCountLoad, PopCountStore, writerVars, Contents
<1>8. CASE UNCHANGED vars
  BY <1>8 DEF vars, writerVars, Contents
<1> QED BY <1>1, <1>2, <1>3, <1>4, <1>5, <1>6, <1>7, <1>8 DEF Next, Writer, Reader

\* The ring buffer implements the bounded FIFO: reports leave in the order
\* they were accepted, each once, and only a push into SIZE - 1 waiting
\* reports is refused.
THEOREM RingIsFifo == Spec => Fifo
<1>1. Init => Abstract!Init
  BY InitMaps
<1>2. IInv /\ [Next]_vars => [Abstract!Next]_(Abstract!qvars)
  BY StepMaps
<1> QED BY <1>1, <1>2, InvariantIInv, PTL DEF Spec, Fifo, Abstract!Spec
=============================================================================
