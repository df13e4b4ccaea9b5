------------------------------ MODULE LedQueue ------------------------------
(***************************************************************************)
(* What BleKeyboardLedStateBuffer promises: a bounded FIFO of keyboard LED *)
(* reports.  The BLE host task adds a report or is refused one when the    *)
(* buffer is full; the Arduino loop takes the reports in the order they    *)
(* were accepted, each once.                                               *)
(***************************************************************************)
EXTENDS Naturals, Sequences

CONSTANTS LedValues,  \* the values of an LED output report
          Capacity,   \* the number of reports the buffer can hold
          InitLed     \* keyboardLedState before the first report

VARIABLES offered,  \* the report that is handed to push
          queue,    \* accepted reports the loop has not taken yet
          pushOk,   \* what the last push returned
          ledState  \* keyboardLedState: the last report the loop took

qvars == <<offered, queue, pushOk, ledState>>

Init == offered \in LedValues /\ queue = <<>> /\ pushOk = TRUE /\ ledState = InitLed

\* The computer writes the output report.
Offer(v) ==
  /\ offered' = v
  /\ UNCHANGED <<queue, pushOk, ledState>>

\* BleKeyboard::onWrite, the buffer has room.
Push(v) ==
  /\ Len(queue) < Capacity
  /\ queue' = Append(queue, v)
  /\ pushOk' = TRUE
  /\ UNCHANGED ledState

\* BleKeyboard::onWrite, the buffer is full: the report is dropped.
Refuse ==
  /\ Len(queue) = Capacity
  /\ pushOk' = FALSE
  /\ UNCHANGED <<queue, ledState>>

\* BleKeyboard::getLedState with a report to take.
Pop ==
  /\ queue # <<>>
  /\ ledState' = Head(queue)
  /\ queue' = Tail(queue)
  /\ UNCHANGED pushOk

Next ==
  \/ \E v \in LedValues : Offer(v)
  \/ UNCHANGED offered /\ (Push(offered) \/ Refuse \/ Pop)

Spec == Init /\ [][Next]_qvars

\* The loop asks for a report in every iteration, so it takes what is there.
Liveness == WF_qvars(Pop /\ UNCHANGED offered)
FairSpec == Spec /\ Liveness
=============================================================================
