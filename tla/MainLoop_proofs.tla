--------------------------- MODULE MainLoop_proofs ---------------------------
(***************************************************************************)
(* The button reports a press at most once, for every debounce time, every *)
(* width of the clock and every contact that does not bounce for longer    *)
(* than the debounce time.  The loop with its LED, its frames and its      *)
(* blocked times implements the button, and so reports a press at most     *)
(* once, for every value of the constants.                                 *)
(***************************************************************************)
EXTENDS MainLoop, TLAPS

(***************************************************************************)
(* The button.                                                             *)
(***************************************************************************)

\* A button that is down, for the finger or for the debounced state, was
\* pressed and not yet reported.
DownIsPressed == (held => presses >= 1) /\ (state => presses >= 1)

\* If the debounced state has taken the last movement of the finger while the
\* contact still bounces, it took it so lately that the bouncing ends before the
\* pin is looked at again.
BounceIsIgnored ==
  bounce > 0 /\ state = held /\ presses = (IF held THEN 1 ELSE 0) =>
    sinceChange + bounce <= DEBOUNCE_MS

IInv == ButtonTypeOK /\ DownIsPressed /\ BounceIsIgnored /\ OneReportPerPress

LEMMA InitIInv == ButtonInit => IInv
<1>1. SUFFICES ASSUME ButtonInit PROVE IInv
  OBVIOUS
<1>2. state \in BOOLEAN
  BY <1>1 DEF ButtonInit, Pin
<1>3. ButtonTypeOK
  <2>1. presses \in 0 .. 2
    <3>1. CASE held \/ state  BY <1>1, <3>1 DEF ButtonInit
    <3>2. CASE ~(held \/ state)  BY <1>1, <3>2 DEF ButtonInit
    <3> QED  BY <3>1, <3>2
  <2>2. 0 \in 0 .. TimeModulus - 1
    BY ButtonAssumption
  <2>3. held \in BOOLEAN /\ changed \in BOOLEAN /\ doubled \in BOOLEAN
    BY <1>1 DEF ButtonInit
  <2> QED  BY <1>1, <1>2, <2>1, <2>2, <2>3 DEF ButtonInit, ButtonTypeOK
<1>4. DownIsPressed
  BY <1>1, <1>2 DEF ButtonInit, DownIsPressed
<1>5. BounceIsIgnored
  BY <1>1, ButtonAssumption DEF ButtonInit, BounceIsIgnored
<1>6. OneReportPerPress
  BY <1>1 DEF ButtonInit, OneReportPerPress
<1> QED  BY <1>3, <1>4, <1>5, <1>6 DEF IInv

\* What a step of the wrapping clock does to a difference.
LEMMA Advance ==
  ASSUME NEW since \in 0 .. TimeModulus - 1
  PROVE  /\ (since + 1) % TimeModulus \in 0 .. TimeModulus - 1
         /\ since + 1 < TimeModulus => (since + 1) % TimeModulus = since + 1
  BY ButtonAssumption

\* A release is reported only if it has a press of its own: the debounced state
\* was down, and if the finger is down again, that is not the same press.
LEMMA ReportHasPress ==
  ASSUME IInv, NEW level \in Pin, ReadLevel(level), WasReleased'
  PROVE  presses >= (IF held THEN 2 ELSE 1)
<1>1. level = FALSE /\ state = TRUE
  BY DEF ReadLevel, WasReleased, IInv, ButtonTypeOK, Pin
<1>2. CASE held
  <2>1. bounce > 0
    BY <1>1, <1>2 DEF Pin, IInv, ButtonTypeOK
  <2>2. presses # 1
    BY <1>1, <1>2, <2>1, ButtonAssumption
       DEF ReadLevel, IInv, ButtonTypeOK, BounceIsIgnored
  <2> QED  BY <1>2, <2>2 DEF IInv, ButtonTypeOK, DownIsPressed
<1>3. CASE ~held
  BY <1>1, <1>3 DEF IInv, ButtonTypeOK, DownIsPressed
<1> QED  BY <1>2, <1>3

LEMMA NextIInv == IInv /\ [ButtonNext]_buttonVars => IInv'
<1> SUFFICES ASSUME IInv, [ButtonNext]_buttonVars PROVE IInv'
  OBVIOUS
<1> USE ButtonAssumption DEF IInv, pressHistory
<1>1. CASE Press
  <2>1. ButtonTypeOK' /\ OneReportPerPress'
    BY <1>1 DEF Press, ButtonTypeOK, OneReportPerPress
  <2>2. DownIsPressed'
    BY <1>1 DEF Press, ButtonTypeOK, DownIsPressed
  <2>3. BounceIsIgnored'
    BY <1>1 DEF Press, ButtonTypeOK, DownIsPressed, BounceIsIgnored
  <2> QED  BY <2>1, <2>2, <2>3
<1>2. CASE LetGo
  <2>1. ButtonTypeOK' /\ OneReportPerPress'
    BY <1>2 DEF LetGo, ButtonTypeOK, OneReportPerPress
  <2>2. DownIsPressed'
    BY <1>2 DEF LetGo, ButtonTypeOK, DownIsPressed
  <2>3. BounceIsIgnored'
    BY <1>2 DEF LetGo, ButtonTypeOK, DownIsPressed, BounceIsIgnored
  <2> QED  BY <2>1, <2>2, <2>3
<1>3. CASE Millisecond
  <2>1. ButtonTypeOK' /\ OneReportPerPress'
    BY <1>3, Advance DEF Millisecond, ButtonTypeOK, OneReportPerPress
  <2>2. DownIsPressed'
    BY <1>3 DEF Millisecond, DownIsPressed
  <2>3. BounceIsIgnored'
    BY <1>3, Advance DEF Millisecond, ButtonTypeOK, BounceIsIgnored
  <2> QED  BY <2>1, <2>2, <2>3
<1>4. CASE ReadDebouncing /\ CountReport
  <2>1. ~WasReleased'
    BY <1>4 DEF ReadDebouncing, WasReleased
  <2>2. UNCHANGED presses /\ doubled' = doubled
    BY <1>4, <2>1 DEF CountReport, ButtonTypeOK
  <2> QED
    BY <1>4, <2>2
       DEF ReadDebouncing, ButtonTypeOK, DownIsPressed, BounceIsIgnored, OneReportPerPress
<1>5. CASE (\E level \in Pin : ReadLevel(level)) /\ CountReport
  <2>1. PICK level \in Pin : ReadLevel(level)
    BY <1>5
  <2>2. level \in BOOLEAN /\ (level # held => bounce > 0)
    BY <2>1 DEF Pin, ButtonTypeOK
  <2>3. OneReportPerPress' /\ doubled' \in BOOLEAN
    BY <1>5, <2>1, ReportHasPress DEF CountReport, ButtonTypeOK, OneReportPerPress
  <2>4. presses' \in 0 .. 2 /\ presses' = IF WasReleased' THEN (IF held THEN 1 ELSE 0) ELSE presses
    BY <1>5 DEF CountReport, ButtonTypeOK
  <2>5. WasReleased' => ~level /\ state
    BY <2>1, <2>2, Zenon DEF ReadLevel, WasReleased, ButtonTypeOK
  <2>6. ButtonTypeOK'
    BY <2>1, <2>2, <2>3, <2>4 DEF ReadLevel, ButtonTypeOK
  <2>7. DownIsPressed'
    BY <2>1, <2>2, <2>4, <2>5
       DEF ReadLevel, ButtonTypeOK, DownIsPressed, BounceIsIgnored
  <2>8. BounceIsIgnored'
    BY <2>1, <2>2, <2>4, <2>5
       DEF ReadLevel, ButtonTypeOK, DownIsPressed, BounceIsIgnored
  <2> QED  BY <2>3, <2>6, <2>7, <2>8
<1>6. CASE UNCHANGED buttonVars
  BY <1>6 DEF buttonVars, ButtonTypeOK, DownIsPressed, BounceIsIgnored, OneReportPerPress
<1> QED  BY <1>1, <1>2, <1>3, <1>4, <1>5, <1>6 DEF ButtonNext, Read

\* The state of a button keeps its types.
THEOREM ButtonTypeCorrect == ButtonSpec => []ButtonTypeOK
<1>1. IInv => ButtonTypeOK
  BY DEF IInv
<1> QED  BY <1>1, InitIInv, NextIInv, PTL DEF ButtonSpec

\* A press of the finger is reported as a release at most once, for every
\* debounce time and every contact that settles within it.
THEOREM ReportedOnce == ButtonSpec => []OneReportPerPress
<1>1. IInv => OneReportPerPress
  BY DEF IInv
<1> QED  BY <1>1, InitIInv, NextIInv, PTL DEF ButtonSpec

(***************************************************************************)
(* The loop.                                                               *)
(***************************************************************************)

LEMMA InitIsButtonInit == Init => ButtonInit
  BY DEF Init

\* Every step of the loop is a step of the button or leaves it alone.
LEMMA NextIsButtonNext == [Next]_vars => [ButtonNext]_buttonVars
<1> SUFFICES ASSUME [Next]_vars PROVE [ButtonNext]_buttonVars
  OBVIOUS
<1>1. CASE FingerDown  BY <1>1 DEF FingerDown, ButtonNext
<1>2. CASE FingerUp  BY <1>2 DEF FingerUp, ButtonNext
<1>3. CASE Tick  BY <1>3 DEF Tick, ButtonNext
<1>4. CASE LoopReceiving  BY <1>4 DEF LoopReceiving, Begin, ButtonNext
<1>5. CASE LoopIdle  BY <1>5 DEF LoopIdle, Begin, ButtonNext
<1>6. CASE UNCHANGED vars  BY <1>6 DEF vars
<1> QED  BY <1>1, <1>2, <1>3, <1>4, <1>5, <1>6 DEF Next

\* What the loop does with its button is what a button does.
THEOREM ImplementsButton == Spec => ButtonSpec
  BY InitIsButtonInit, NextIsButtonNext, PTL DEF Spec, ButtonSpec

\* A press of button A is handled at most once: no bounce of its contact, no
\* frame and no blocked loop makes the device type the password twice.
THEOREM HandledOnce == Spec => []OneReportPerPress
  BY ImplementsButton, ReportedOnce, PTL

LEMMA InitTypeOK == Init => TypeOK
<1> SUFFICES ASSUME Init PROVE TypeOK
  OBVIOUS
<1>1. ButtonTypeOK
  BY InitIsButtonInit, InitIInv DEF IInv
<1>2. sinceLed \in 0 .. TimeModulus - 1 /\ busy \in 0 .. TypingTime + MuteTime
  BY ButtonAssumption, LoopAssumption DEF Init
<1>3. rested \in 0 .. SettleTime
  BY ButtonAssumption DEF Init, SettleTime
<1>4. ledState \in BOOLEAN /\ idle \in BOOLEAN
      /\ unanswered \in BOOLEAN /\ disturbed \in BOOLEAN
  BY DEF Init
<1>5. ledLightMode \in {"off", "on", "slowBlink", "fastBlink"}
  BY DEF Init
<1> QED  BY <1>1, <1>2, <1>3, <1>4, <1>5 DEF TypeOK

\* The LED and the timer of its blinking keep their types.
LEMMA LedTypes ==
  ASSUME LedUpdate, ledState \in BOOLEAN, sinceLed \in 0 .. TimeModulus - 1
  PROVE  ledState' \in BOOLEAN /\ sinceLed' \in 0 .. TimeModulus - 1
<1>1. 0 \in 0 .. TimeModulus - 1
  BY ButtonAssumption
<1> QED  BY <1>1 DEF LedUpdate

\* The state of the loop keeps its types.
THEOREM LoopTypeCorrect == Spec => []TypeOK
<1>1. IInv' /\ TypeOK /\ [Next]_vars => TypeOK'
  <2> SUFFICES ASSUME IInv', TypeOK, [Next]_vars PROVE TypeOK'
    OBVIOUS
  <2> USE DEF TypeOK
  <2>1. ButtonTypeOK'
    BY DEF IInv
  <2>2. rested' \in 0 .. SettleTime
    BY ButtonAssumption
       DEF Next, FingerDown, FingerUp, Tick, LoopReceiving, LoopIdle, vars, history,
           Hasty, SettleTime
  <2>3. unanswered' \in BOOLEAN /\ disturbed' \in BOOLEAN
    BY Zenon
       DEF Next, FingerDown, FingerUp, Tick, LoopReceiving, LoopIdle, vars, history
  <2>4. ledLightMode' \in {"off", "on", "slowBlink", "fastBlink"}
    BY DEF Next, FingerDown, FingerUp, Tick, LoopReceiving, LoopIdle, vars, ledVars,
           UpdatePower, LightMode
  <2>5. ledState' \in BOOLEAN /\ sinceLed' \in 0 .. TimeModulus - 1
    BY Advance, LedTypes
       DEF Next, FingerDown, FingerUp, Tick, LoopReceiving, LoopIdle, Begin, vars, ledVars
  <2>6. idle' \in BOOLEAN
    BY DEF Next, FingerDown, FingerUp, Tick, LoopReceiving, LoopIdle, Begin, vars, loopVars
  <2>7. busy' \in 0 .. TypingTime + MuteTime
    BY LoopAssumption
       DEF Next, FingerDown, FingerUp, Tick, LoopReceiving, LoopIdle, vars, loopVars
  <2> QED  BY <2>1, <2>2, <2>3, <2>4, <2>5, <2>6, <2>7
<1> QED
  BY <1>1, InitTypeOK, InitIsButtonInit, NextIsButtonNext, InitIInv, NextIInv, PTL DEF Spec

(***************************************************************************)
(* NoPressLost.                                                            *)
(***************************************************************************)

\* The press is not answered yet, and only what is meant to happen has happened.
Pending == unanswered /\ ~disturbed

\* The contact bounces only so long after the finger moved.
BounceEnds == bounce = 0 \/ bounce + rested <= MaxBounce

\* The debounced state lags behind the finger while the contact bounces, and from then
\* on while the pin is ignored: the loop has looked at it in every tick.
LagIsShort ==
  state # held =>
    IF idle THEN \/ rested <= MaxBounce + 1
                 \/ sinceChange <= DEBOUNCE_MS /\ rested <= MaxBounce + 1 + sinceChange
            ELSE \/ rested <= MaxBounce
                 \/ sinceChange < DEBOUNCE_MS /\ rested <= MaxBounce + 1 + sinceChange

\* The loop is not blocked, follows the finger, and has a press that is let go still
\* down, or it would be answered.
PendingInv == Pending => busy = 0 /\ LagIsShort /\ (~held => state)

PressInv == BounceEnds /\ PendingInv

LEMMA InitPressInv == Init => PressInv
<1> SUFFICES ASSUME Init PROVE BounceEnds /\ PendingInv
  BY DEF PressInv
<1>1. BounceEnds
  BY ButtonAssumption DEF Init, ButtonInit, BounceEnds
<1>2. PendingInv
  BY DEF Init, PendingInv, Pending
<1> QED  BY <1>1, <1>2

\* The debounced state has caught up with a finger that rests.
LEMMA CaughtUp ==
  ASSUME TypeOK, PendingInv, Pending, ~Hasty
  PROVE  state = held
<1>1. rested \in Nat /\ sinceChange \in Nat /\ rested >= MaxBounce + DEBOUNCE_MS + 2
  BY ButtonAssumption DEF TypeOK, ButtonTypeOK, Hasty, SettleTime
<1> QED  BY <1>1, ButtonAssumption DEF PendingInv, LagIsShort

\* What the loop reads: the state lags behind only if the contact bounces or the pin
\* is ignored.
LEMMA ReadLags ==
  ASSUME TypeOK, BounceEnds, LagIsShort, Read, idle' = FALSE,
         UNCHANGED <<rested, held>>
  PROVE  LagIsShort'
<1>1. /\ rested \in Nat /\ bounce \in Nat /\ sinceChange \in Nat
      /\ held \in BOOLEAN /\ state \in BOOLEAN
  BY ButtonAssumption DEF TypeOK, ButtonTypeOK, SettleTime
<1>2. SUFFICES ASSUME state' # held
               PROVE  \/ rested <= MaxBounce
                      \/ sinceChange' < DEBOUNCE_MS /\ rested <= MaxBounce + 1 + sinceChange'
  BY DEF LagIsShort
<1>3. CASE ReadDebouncing
  BY <1>1, <1>2, <1>3, ButtonAssumption DEF ReadDebouncing, LagIsShort
<1>4. ASSUME NEW level \in Pin, ReadLevel(level) PROVE bounce > 0
  BY <1>2, <1>4 DEF ReadLevel, Pin
<1>5. bounce > 0 => rested <= MaxBounce
  BY <1>1, ButtonAssumption DEF BounceEnds
<1> QED  BY <1>3, <1>4, <1>5 DEF Read

\* A finger that moves makes the contact bounce, and the state lag behind.
LEMMA FingerMoves ==
  ASSUME rested' = 0, bounce' \in 0 .. MaxBounce
  PROVE  BounceEnds' /\ LagIsShort'
<1>1. bounce' + 0 <= MaxBounce
  <2>1. PICK b \in 0 .. MaxBounce : bounce' = b
    OBVIOUS
  <2>2. b + 0 <= MaxBounce
    BY ButtonAssumption
  <2> QED  BY <2>1, <2>2
<1>2. rested' <= MaxBounce /\ rested' <= MaxBounce + 1
  BY ButtonAssumption
<1> QED  BY <1>1, <1>2 DEF BounceEnds, LagIsShort

\* The millisecond that passes is counted.
LEMMA TickLags ==
  ASSUME TypeOK, LagIsShort, Millisecond, ~idle, idle' = TRUE,
         rested' = rested \/ rested' = rested + 1
  PROVE  LagIsShort'
<1>1. rested \in Nat /\ sinceChange \in 0 .. TimeModulus - 1
  BY ButtonAssumption DEF TypeOK, ButtonTypeOK, SettleTime
<1>2. SUFFICES ASSUME state # held
               PROVE  \/ rested' <= MaxBounce + 1
                      \/ /\ sinceChange' <= DEBOUNCE_MS
                         /\ rested' <= MaxBounce + 1 + sinceChange'
  BY DEF Millisecond, LagIsShort
<1>3. CASE rested <= MaxBounce
  BY <1>1, <1>3, ButtonAssumption
<1>4. CASE sinceChange < DEBOUNCE_MS /\ rested <= MaxBounce + 1 + sinceChange
  <2>1. sinceChange + 1 < TimeModulus
    BY <1>1, <1>4, ButtonAssumption
  <2>2. sinceChange' = sinceChange + 1
    BY <1>1, <2>1, Advance DEF Millisecond
  <2> QED  BY <1>1, <1>4, <2>2, ButtonAssumption
<1> QED  BY <1>2, <1>3, <1>4 DEF LagIsShort

\* A button that is let go is answered, if its hold time is not the one that is not.
LEMMA LetGoIsAnswered ==
  ASSUME TypeOK, Read, state, ~state', ~HeldTooLong, sincePress' \in 0 .. TimeModulus - 1
  PROVE  WasReleased'
<1>1. sincePress' < TimeModulus - 1
  BY ButtonAssumption DEF HeldTooLong
<1>2. PICK level \in Pin : ReadLevel(level)
  BY DEF Read, ReadDebouncing
<1>3. changed'
  BY <1>2, Zenon DEF ReadLevel
<1> QED  BY <1>1, <1>3 DEF WasReleased

LEMMA NextPressInv == TypeOK /\ TypeOK' /\ PressInv /\ [Next]_vars => PressInv'
<1> SUFFICES ASSUME TypeOK, TypeOK', BounceEnds, PendingInv, [Next]_vars
             PROVE  BounceEnds' /\ PendingInv'
  BY DEF PressInv
<1>0. /\ rested \in Nat /\ bounce \in Nat /\ bounce <= MaxBounce /\ busy \in Nat
      /\ held \in BOOLEAN /\ state \in BOOLEAN /\ state' \in BOOLEAN
      /\ unanswered \in BOOLEAN /\ disturbed \in BOOLEAN
      /\ sincePress' \in 0 .. TimeModulus - 1
  BY ButtonAssumption, LoopAssumption DEF TypeOK, ButtonTypeOK, SettleTime
<1>1. CASE FingerDown
  <2>1. rested' = 0 /\ bounce' \in 0 .. MaxBounce /\ held'
    BY <1>1 DEF FingerDown, Press
  <2>2. BounceEnds' /\ LagIsShort'
    BY <2>1, FingerMoves
  <2>3. Pending' => ~(busy > 0)
    BY <1>1, Zenon DEF FingerDown, Pending
  <2>4. busy' = busy
    BY <1>1 DEF FingerDown, loopVars
  <2> QED  BY <1>0, <2>1, <2>2, <2>3, <2>4 DEF PendingInv
<1>2. CASE FingerUp
  <2>1. rested' = 0 /\ bounce' \in 0 .. MaxBounce /\ held /\ state' = state /\ busy' = busy
    BY <1>2 DEF FingerUp, LetGo, loopVars
  <2>2. BounceEnds' /\ LagIsShort'
    BY <2>1, FingerMoves
  <2>3. Pending' => Pending /\ ~Hasty
    BY <1>2 DEF FingerUp, Pending
  <2>4. Pending' => busy' = 0 /\ state'
    BY <2>1, <2>3, CaughtUp DEF PendingInv
  <2> QED  BY <2>2, <2>4 DEF PendingInv
<1>3. CASE Tick
  <2>1. /\ bounce' = IF bounce > 0 THEN bounce - 1 ELSE 0
        /\ rested' = rested \/ rested' = rested + 1
        /\ Millisecond /\ idle' = TRUE /\ (busy > 0 \/ ~idle)
        /\ busy = 0 => busy' = 0
        /\ UNCHANGED <<held, state, unanswered, disturbed>>
    BY <1>0, <1>3 DEF Tick, Millisecond
  <2>2. BounceEnds'
    BY <1>0, <2>1, ButtonAssumption DEF BounceEnds
  <2>3. Pending' => Pending
    BY <2>1 DEF Pending
  <2>4. Pending => LagIsShort'
    BY <2>1, TickLags DEF PendingInv
  <2> QED  BY <2>1, <2>2, <2>3, <2>4 DEF PendingInv
<1>4. CASE LoopReceiving
  <2>1. BounceEnds'
    BY <1>4 DEF LoopReceiving, Begin, Read, ReadDebouncing, ReadLevel, BounceEnds
  <2> QED  BY <1>4, <2>1 DEF LoopReceiving, PendingInv, Pending
<1>5. CASE LoopIdle
  <2>1. Read /\ idle' = FALSE /\ UNCHANGED rested
    BY <1>5 DEF LoopIdle, Begin
  <2>2. UNCHANGED <<held, bounce>>
    BY <2>1 DEF Read, ReadDebouncing, ReadLevel
  <2>3. BounceEnds'
    BY <2>1, <2>2 DEF BounceEnds
  <2>4. Pending' => Pending /\ ~(busy' > 0) /\ ~HeldTooLong /\ ~WasReleased'
    BY <1>5, Zenon DEF LoopIdle, Pending
  <2>5. busy' \in Nat
    BY LoopAssumption DEF TypeOK
  <2>6. Pending' => LagIsShort'
    BY <2>1, <2>2, <2>4, ReadLags DEF PendingInv
  <2>7. Pending' /\ ~held' => state'
    BY <1>0, <2>1, <2>2, <2>4, LetGoIsAnswered DEF PendingInv
  <2> QED  BY <2>3, <2>4, <2>5, <2>6, <2>7 DEF PendingInv
<1>6. CASE UNCHANGED vars
  BY <1>6 DEF vars, buttonVars, loopVars, history, BounceEnds, PendingInv, Pending, LagIsShort
<1> QED  BY <1>1, <1>2, <1>3, <1>4, <1>5, <1>6 DEF Next

\* A press that is not hasty is answered, for every debounce time, every time the
\* contact bounces and wherever the clock wraps, unless a frame or a blocked loop
\* comes in between.
THEOREM PressAnswered == Spec => []NoPressLost
<1>1. TypeOK /\ PressInv => NoPressLost
  BY CaughtUp DEF PressInv, PendingInv, Pending, NoPressLost
<1>2. TypeOK /\ TypeOK' /\ PressInv /\ [Next]_vars => PressInv'
  BY NextPressInv
<1> QED  BY <1>1, <1>2, LoopTypeCorrect, InitPressInv, PTL DEF Spec
=============================================================================
