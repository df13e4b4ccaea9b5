------------------------------- MODULE MainLoop -------------------------------
(***************************************************************************)
(* The loop of main.cpp as a schedule: what runs in every iteration (the   *)
(* buttons and the status LED), what a frame suspends (the power update,   *)
(* the handlers of the buttons), and what blocks all of it (typing).       *)
(*                                                                         *)
(* The finger, the contact and time go on while the loop is blocked.  A    *)
(* tick is a millisecond; otherwise the loop runs at least once per tick.  *)
(* Frames come as they like, and so does button B.                         *)
(***************************************************************************)
EXTENDS Button

CONSTANTS LED_SLOW_BLINK_PERIOD, LED_FAST_BLINK_PERIOD,  \* 1000 and 250 in the code
          TypingTime,  \* bound: what typing the password lasts
          MuteTime     \* what the two reports of button B last

ASSUME LoopAssumption ==
  /\ LED_SLOW_BLINK_PERIOD \in Nat \ {0} /\ LED_FAST_BLINK_PERIOD \in Nat \ {0}
  /\ TypingTime \in Nat /\ MuteTime \in Nat
  /\ LED_SLOW_BLINK_PERIOD + TypingTime + MuteTime < TimeModulus
  /\ LED_FAST_BLINK_PERIOD + TypingTime + MuteTime < TimeModulus

VARIABLES ledLightMode, ledState,
          sinceLed,   \* now - LastLedUpdate
          idle,       \* the loop has not run in this tick
          busy,       \* ticks the loop is still blocked
          rested,     \* history: ticks since the finger moved, up to SettleTime
          unanswered, \* history: button A was pressed and nothing was done yet
          disturbed   \* history: ... and a frame, a blocked loop or a hasty
                      \* finger came in between

ledVars == <<ledLightMode, ledState, sinceLed>>
loopVars == <<idle, busy>>
history == <<rested, unanswered, disturbed>>
vars == <<buttonVars, ledVars, loopVars, history>>

\* A finger that does not move for so long is seen to rest: the contact settles, the
\* pin is ignored for the debounce time, and the finger moved and the loop looked
\* some time within a tick.
SettleTime == MaxBounce + DEBOUNCE_MS + 2
Hasty == rested < SettleTime

Init ==
  /\ ButtonInit
  /\ ledLightMode = "off" /\ ledState = FALSE /\ sinceLed = 0
  /\ idle = FALSE /\ busy = 0
  /\ rested = 0 /\ unanswered = FALSE /\ disturbed = TRUE

(***************************************************************************)
(* The user, and time.                                                     *)
(***************************************************************************)
FingerDown ==
  /\ Press
  /\ rested' = 0 /\ unanswered' = TRUE /\ disturbed' = (Hasty \/ busy > 0)
  /\ UNCHANGED <<ledVars, loopVars>>

FingerUp ==
  /\ LetGo
  /\ rested' = 0 /\ disturbed' = (disturbed \/ Hasty)
  /\ UNCHANGED <<ledVars, loopVars, unanswered>>

Tick ==
  /\ busy > 0 \/ ~idle
  /\ Millisecond
  /\ sinceLed' = (sinceLed + 1) % TimeModulus
  /\ busy' = IF busy > 0 THEN busy - 1 ELSE 0
  /\ idle' = TRUE
  /\ rested' = IF Hasty THEN rested + 1 ELSE rested
  /\ UNCHANGED <<ledLightMode, ledState, unanswered, disturbed>>

(***************************************************************************)
(* An iteration of the loop.                                               *)
(***************************************************************************)
Period == IF ledLightMode = "slowBlink" THEN LED_SLOW_BLINK_PERIOD ELSE LED_FAST_BLINK_PERIOD

\* Mutant of LedUpdate: the time of the last change is renewed in every iteration.
MutLedUpdate ==
  /\ ledState' = CASE ledLightMode = "off" -> FALSE
                   [] ledLightMode = "on"  -> TRUE
                   [] OTHER -> IF sinceLed >= Period THEN ~ledState ELSE ledState
  /\ sinceLed' = 0
LedUpdate ==
  \/ /\ ledLightMode \in {"off", "on"}
     /\ ledState' = (ledLightMode = "on") /\ sinceLed' = 0
  \/ /\ ledLightMode \in {"slowBlink", "fastBlink"}
     /\ IF sinceLed >= Period THEN ledState' = ~ledState /\ sinceLed' = 0
                              ELSE UNCHANGED <<ledState, sinceLed>>

\* The part of every iteration: M5.update() and ledUpdate().
Begin == busy = 0 /\ idle' = FALSE /\ Read /\ LedUpdate

\* The code does nothing else while a frame is received.
LoopReceiving ==
  /\ Begin
  /\ disturbed' = TRUE
  /\ UNCHANGED <<ledLightMode, busy, rested, unanswered>>

\* What the power update makes of the PMU, if it is due.
LightMode(isEmpty, isCharging) ==
  IF isEmpty THEN "fastBlink" ELSE IF isCharging THEN "slowBlink" ELSE "off"
UpdatePower ==
  \/ UNCHANGED ledLightMode
  \/ \E isEmpty, isCharging \in BOOLEAN : ledLightMode' = LightMode(isEmpty, isCharging)

\* The one hold time that wasReleased() does not report: _hold_time itself.
HeldTooLong == state /\ ~state' /\ sincePress' = TimeModulus - 1

\* Button A types the password if a computer is connected, button B mutes it.
LoopIdle ==
  /\ Begin
  /\ UpdatePower
  /\ \E typing \in 0 .. TypingTime, muting \in {0, MuteTime} :
       /\ typing > 0 => WasReleased'
       /\ busy' = typing + muting
       /\ disturbed' = (disturbed \/ busy' > 0 \/ HeldTooLong)
  /\ unanswered' = (unanswered /\ ~WasReleased')
  /\ UNCHANGED rested

Next == FingerDown \/ FingerUp \/ Tick \/ LoopReceiving \/ LoopIdle

Spec == Init /\ [][Next]_vars

\* Time passes and the loop runs; a frame may last for ever.
FairSpec == Spec /\ WF_vars(Tick) /\ WF_vars(LoopReceiving \/ LoopIdle)

(***************************************************************************)
(* Properties                                                              *)
(***************************************************************************)
TypeOK ==
  /\ ButtonTypeOK
  /\ ledLightMode \in {"off", "on", "slowBlink", "fastBlink"} /\ ledState \in BOOLEAN
  /\ sinceLed \in 0 .. TimeModulus - 1
  /\ idle \in BOOLEAN /\ busy \in 0 .. TypingTime + MuteTime
  /\ rested \in 0 .. SettleTime /\ unanswered \in BOOLEAN /\ disturbed \in BOOLEAN

\* A press of button A that is not hasty is answered, even if the pin still
\* bounces when it is read and wherever millis() wraps, unless a frame or a
\* blocked loop comes in between: those lose it.
NoPressLost == ~held /\ ~Hasty /\ ~disturbed => ~unanswered

\* A LED that is to blink does blink: the loop runs many times per period, or
\* not at all for many periods while it types, and neither makes it stay lit or
\* dark.
Blinks ==
  <>[](ledLightMode \in {"slowBlink", "fastBlink"}) => []<>ledState /\ []<>~ledState
=============================================================================
