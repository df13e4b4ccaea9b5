--------------------------- MODULE LedStateBuffer ---------------------------
(***************************************************************************)
(* BleKeyboardLedStateBuffer (BleKeyboard.cpp, BleKeyboard.h): a ring      *)
(* buffer with one writer, the NimBLE host task that runs onWrite, and one *)
(* reader, the Arduino loop that runs getLedState.  There is no lock: the  *)
(* indices are volatile, and the tasks interleave between any two accesses *)
(* to shared memory.  An action makes at most one access to a variable the *)
(* other task writes.  The build is taken to keep the program order of     *)
(* these accesses.                                                         *)
(***************************************************************************)
EXTENDS Naturals, Sequences

CONSTANTS LedValues,  \* the values of an LED output report
          SIZE,       \* slots of the ring, 100 in the code
          CountMod,   \* size_t wraps at CountMod
          ZeroLed,    \* the contents of buffer[] before the first push
          InitLed     \* keyboardLedState before the first report

ASSUME BufferAssumption ==
  /\ SIZE \in Nat /\ SIZE >= 2
  /\ CountMod \in Nat \ {0}
  /\ ZeroLed \in LedValues /\ InitLed \in LedValues

VARIABLES head, tail, buffer, count,
          wpc, wval, wnext, wcount,  \* push: next step, value, next, count++ register
          rpc, rval, rcount,         \* pop: next step, value read, count-- register
          pushOk,                    \* what the last push returned
          ledState                   \* keyboardLedState, what the last pop stored

writerVars == <<wpc, wval, wnext, wcount>>
readerVars == <<rpc, rval, rcount>>
vars == <<head, tail, buffer, count, writerVars, readerVars, pushOk, ledState>>

Slots == 0 .. SIZE - 1

\* Mutant of Succ: the index does not wrap.
MutSucc(i) == i + 1
Succ(i) == (i + 1) % SIZE

Init ==
  /\ head = 0 /\ tail = 0 /\ count = 0
  /\ buffer = [i \in Slots |-> ZeroLed]
  /\ wpc = "idle" /\ wval = ZeroLed /\ wnext = 0 /\ wcount = 0
  /\ rpc = "idle" /\ rval = ZeroLed /\ rcount = 0
  /\ pushOk = TRUE /\ ledState = InitLed

(***************************************************************************)
(* The writer: push(value).                                                *)
(***************************************************************************)
\* Mutant of IsFull: the full buffer is not noticed.
MutIsFull(next) == FALSE
IsFull(next) == next = tail

PushFull ==
  /\ wpc = "idle" /\ IsFull(Succ(head))
  /\ pushOk' = FALSE
  /\ UNCHANGED <<head, tail, buffer, count, writerVars, readerVars, ledState>>

PushRoom(v) ==
  /\ wpc = "idle" /\ ~IsFull(Succ(head))
  /\ wval' = v /\ wnext' = Succ(head)
  /\ wpc' = "store"
  /\ UNCHANGED <<head, tail, buffer, count, wcount, readerVars, pushOk, ledState>>

\* Mutant of PushStore: the value goes to the slot after the free one.
MutPushStore ==
  /\ wpc = "store"
  /\ buffer' = [buffer EXCEPT ![wnext] = wval]
  /\ wpc' = "publish"
  /\ UNCHANGED <<head, tail, count, wval, wnext, wcount, readerVars, pushOk, ledState>>

PushStore ==
  /\ wpc = "store"
  /\ buffer' = [buffer EXCEPT ![head] = wval]
  /\ wpc' = "publish"
  /\ UNCHANGED <<head, tail, count, wval, wnext, wcount, readerVars, pushOk, ledState>>

PushPublish ==
  /\ wpc = "publish"
  /\ head' = wnext
  /\ pushOk' = TRUE
  /\ wpc' = "countLoad"
  /\ UNCHANGED <<tail, buffer, count, wval, wnext, wcount, readerVars, ledState>>

PushCountLoad ==
  /\ wpc = "countLoad"
  /\ wcount' = count
  /\ wpc' = "countStore"
  /\ UNCHANGED <<head, tail, buffer, count, wval, wnext, readerVars, pushOk, ledState>>

PushCountStore ==
  /\ wpc = "countStore"
  /\ count' = (wcount + 1) % CountMod
  /\ wpc' = "idle"
  /\ UNCHANGED <<head, tail, buffer, wval, wnext, wcount, readerVars, pushOk, ledState>>

Writer ==
  \/ PushFull \/ PushStore \/ PushPublish \/ PushCountLoad \/ PushCountStore
  \/ \E v \in LedValues : PushRoom(v)

(***************************************************************************)
(* The reader: pop(value), called once in every iteration of the loop.     *)
(* The pop of an empty buffer changes nothing.  The caller of pop is the   *)
(* task that runs it, so it sees the value once tail has moved.            *)
(***************************************************************************)
\* Mutant of IsEmpty: the last report is taken for an empty buffer.
MutIsEmpty == head = tail \/ head = Succ(tail)
IsEmpty == head = tail

PopFound ==
  /\ rpc = "idle" /\ ~IsEmpty
  /\ rpc' = "read"
  /\ UNCHANGED <<head, tail, buffer, count, writerVars, rval, rcount, pushOk, ledState>>

PopRead ==
  /\ rpc = "read"
  /\ rval' = buffer[tail]
  /\ rpc' = "advance"
  /\ UNCHANGED <<head, tail, buffer, count, writerVars, rcount, pushOk, ledState>>

PopAdvance ==
  /\ rpc = "advance"
  /\ tail' = Succ(tail)
  /\ ledState' = rval
  /\ rpc' = "countLoad"
  /\ UNCHANGED <<head, buffer, count, writerVars, rval, rcount, pushOk>>

PopCountLoad ==
  /\ rpc = "countLoad"
  /\ rcount' = count
  /\ rpc' = "countStore"
  /\ UNCHANGED <<head, tail, buffer, count, writerVars, rval, pushOk, ledState>>

PopCountStore ==
  /\ rpc = "countStore"
  /\ count' = (rcount + CountMod - 1) % CountMod
  /\ rpc' = "idle"
  /\ UNCHANGED <<head, tail, buffer, writerVars, rval, rcount, pushOk, ledState>>

Reader == PopFound \/ PopRead \/ PopAdvance \/ PopCountLoad \/ PopCountStore

Next == Writer \/ Reader

Spec == Init /\ [][Next]_vars

(***************************************************************************)
(* Both tasks are scheduled; the host task finishes a push it began, and   *)
(* the loop calls pop for ever.  Nobody promises that reports arrive.      *)
(***************************************************************************)
FairSpec ==
  /\ Spec
  /\ WF_vars(Reader)
  /\ WF_vars(PushStore \/ PushPublish \/ PushCountLoad \/ PushCountStore)

(***************************************************************************)
(* Properties                                                              *)
(***************************************************************************)
TypeOK ==
  /\ head \in Slots /\ tail \in Slots
  /\ buffer \in [Slots -> LedValues]
  /\ count \in 0 .. CountMod - 1
  /\ wpc \in {"idle", "store", "publish", "countLoad", "countStore"}
  /\ wval \in LedValues /\ wnext \in Slots /\ wcount \in 0 .. CountMod - 1
  /\ rpc \in {"idle", "read", "advance", "countLoad", "countStore"}
  /\ rval \in LedValues /\ rcount \in 0 .. CountMod - 1
  /\ pushOk \in BOOLEAN /\ ledState \in LedValues

\* The host task never writes the slot the loop is reading: while push is
\* about to store buffer[head] and pop about to read buffer[tail], the two
\* slots differ.
NoSlotRace == wpc = "store" /\ rpc = "read" => head # tail

\* The reports in a ring b from slot t up to slot h, excluded: how many, in
\* which slots, and the sequence of them.
Used(t, h) == IF h >= t THEN h - t ELSE h + SIZE - t
Slot(t, i) == (t + i - 1) % SIZE
Reports(b, t, h) == [i \in 1 .. Used(t, h) |-> b[Slot(t, i)]]

Contents == Reports(buffer, tail, head)

Abstract == INSTANCE LedQueue WITH
              offered <- wval, queue <- Contents, Capacity <- SIZE - 1

\* The ring is a FIFO of SIZE - 1 reports: every step of push and pop is one
\* step of LedQueue or none, a report is dropped only when SIZE - 1 are
\* waiting, the report that is added is the one push was called with, and pop
\* returns the oldest.
Fifo == Abstract!Spec

\* A report in the ring is eventually taken by the loop.
FifoLive == Abstract!Liveness

(***************************************************************************)
(* The inductive invariant behind TypeOK, NoSlotRace and Fifo.             *)
(***************************************************************************)
WriterInv ==
  /\ wpc \in {"store", "publish"} => wnext = Succ(head) /\ wnext # tail
  /\ wpc = "publish" => buffer[head] = wval
ReaderInv ==
  /\ rpc \in {"read", "advance"} => head # tail
  /\ rpc = "advance" => rval = buffer[tail]
IInv == TypeOK /\ WriterInv /\ ReaderInv
=============================================================================
