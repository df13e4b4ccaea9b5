-------------------------------- MODULE Screen --------------------------------
(***************************************************************************)
(* The two screens of main.cpp: the progress of a frame, drawn when its    *)
(* count has changed, and the status of the device, drawn periodically     *)
(* while there is none.  An iteration of the loop updates the decoder and  *)
(* then draws.                                                             *)
(***************************************************************************)
EXTENDS KeyboardLedSignaling

CONSTANT SCREEN_UPDATE_PERIOD  \* 100 ms in the code, in ticks

ASSUME ScreenAssumption == SCREEN_UPDATE_PERIOD \in Nat

VARIABLES screen,        \* what is shown
          klsCountSave,  \* the count the progress was drawn for
          sinceScreen    \* now - lastScreenUpdate, up to the period

screenVars == <<screen, klsCountSave, sinceScreen>>
loopVars == <<vars, screenVars>>

\* The bar of the progress has up to BarLength pixels.
BarLength == 154
Status == [shows |-> "status", bar |-> 0]
Progress(count, size) ==
  [shows |-> "progress", bar |-> IF size > 0 THEN (count * BarLength) \div size ELSE 0]
NoCount == MaxByte  \* 0xFF, which is a count too

\* setup() shows a text of its own; it counts as the status.
ScreenInit == Init /\ screen = Status /\ klsCountSave = NoCount /\ sinceScreen = 0

DrawProgress ==
  /\ state' = "Receiving"
  /\ screen' = IF klsCountSave = byteCount' THEN screen
                                            ELSE Progress(byteCount', payloadSize')
  /\ klsCountSave' = byteCount'

Since(elapsed) == IF sinceScreen + elapsed < SCREEN_UPDATE_PERIOD
                  THEN sinceScreen + elapsed ELSE SCREEN_UPDATE_PERIOD

\* Mutant of DrawStatus: the count of the frame that ended is kept.
MutDrawStatus(elapsed) ==
  /\ state' # "Receiving"
  /\ UNCHANGED klsCountSave
  /\ IF Since(elapsed) >= SCREEN_UPDATE_PERIOD
     THEN screen' = Status /\ sinceScreen' = 0
     ELSE UNCHANGED screen /\ sinceScreen' = Since(elapsed)
\* Mutant of DrawStatus: the time of the last update is taken in every iteration.
MutDrawStatusNever(elapsed) ==
  /\ state' # "Receiving"
  /\ klsCountSave' = NoCount
  /\ screen' = (IF Since(elapsed) >= SCREEN_UPDATE_PERIOD THEN Status ELSE screen)
  /\ sinceScreen' = 0
DrawStatus(elapsed) ==
  /\ state' # "Receiving"
  /\ klsCountSave' = NoCount
  /\ IF Since(elapsed) >= SCREEN_UPDATE_PERIOD
     THEN screen' = Status /\ sinceScreen' = 0
     ELSE UNCHANGED screen /\ sinceScreen' = Since(elapsed)

Draw(elapsed) ==
  \/ DrawProgress /\ sinceScreen' = Since(elapsed)
  \/ DrawStatus(elapsed)

Iterate(clockLed, dataLed, elapsed) ==
  Sample(clockLed, dataLed, elapsed) /\ Draw(elapsed)

\* reset(), once the payload is stored.
Stored == Acknowledge /\ Draw(0)

ScreenNext ==
  \/ \E clockLed, dataLed \in BOOLEAN, elapsed \in 0 .. ClockTimeout :
       Iterate(clockLed, dataLed, elapsed)
  \/ Stored

\* The loop goes on, and time with it, until the clock has rested and the status
\* is shown, if there is no frame then.  Nobody has to send another edge.
IterateLater ==
  /\ silence < ClockTimeout \/ (state # "Receiving" /\ screen # Status)
  /\ \E clockLed, dataLed \in BOOLEAN, elapsed \in 1 .. ClockTimeout :
       Iterate(clockLed, dataLed, elapsed)
ScreenSpec == ScreenInit /\ [][ScreenNext]_loopVars /\ WF_loopVars(IterateLater)

(***************************************************************************)
(* Properties                                                              *)
(***************************************************************************)

\* During a frame the screen shows the progress of this frame and of the last
\* byte taken, also when it follows an abandoned frame of as many bytes.
ScreenShowsFrame == state = "Receiving" => screen = Progress(byteCount, payloadSize)

\* However a frame ends, and however soon the next one follows, the device shows
\* its status again.
StatusReturns == screen # Status ~> screen = Status
=============================================================================
