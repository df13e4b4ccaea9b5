-------------------------------- MODULE Button --------------------------------
(***************************************************************************)
(* A button of the device (Button.cpp of the M5StickC library): read()     *)
(* takes the level of the pin, and ignores it for DEBOUNCE_MS after each   *)
(* change it has taken.  The contact bounces for up to MaxBounce after the *)
(* finger moves, and the pin may then have either level.                   *)
(*                                                                         *)
(* Time is kept as the unsigned differences the code computes, which wrap: *)
(* sinceChange is millis() - _lastChange, sincePress millis() - _pressTime.*)
(***************************************************************************)
EXTENDS Integers

CONSTANTS DEBOUNCE_MS,  \* 10 in the code
          TimeModulus,  \* of millis(), 2^32
          MaxBounce     \* bound: how long the contact bounces

ASSUME ButtonAssumption ==
  /\ DEBOUNCE_MS \in Nat /\ TimeModulus \in Nat /\ MaxBounce \in Nat
  /\ MaxBounce <= DEBOUNCE_MS /\ DEBOUNCE_MS < TimeModulus

VARIABLES held,         \* the finger presses the button
          bounce,       \* for so long the pin is unsettled
          state, changed, sinceChange, sincePress,
          presses,      \* history: times the finger went down since the last
                        \* release was reported, or is down from before; up to two
          doubled       \* history: a release was reported without a press of its own

pressHistory == <<presses, doubled>>
buttonVars == <<held, bounce, state, changed, sinceChange, sincePress, pressHistory>>

\* The levels digitalRead may return, as a press.
Pin == IF bounce > 0 THEN BOOLEAN ELSE {held}

\* The constructor takes the level of the pin: a button may be down at boot.
ButtonInit ==
  /\ held \in BOOLEAN /\ bounce \in 0 .. MaxBounce
  /\ state \in Pin /\ changed = FALSE
  /\ sinceChange = 0 /\ sincePress = 0
  /\ presses = (IF held \/ state THEN 1 ELSE 0) /\ doubled = FALSE

Press ==
  /\ ~held /\ held' = TRUE
  /\ bounce' \in 0 .. MaxBounce
  /\ presses' = IF presses = 2 THEN 2 ELSE presses + 1
  /\ UNCHANGED <<state, changed, sinceChange, sincePress, doubled>>

LetGo ==
  /\ held /\ held' = FALSE
  /\ bounce' \in 0 .. MaxBounce
  /\ UNCHANGED <<state, changed, sinceChange, sincePress, pressHistory>>

\* Mutant of Millisecond: the differences are kept in a wider type and do not wrap.
MutMillisecond ==
  /\ bounce' = IF bounce > 0 THEN bounce - 1 ELSE 0
  /\ sinceChange' = sinceChange + 1
  /\ sincePress' = sincePress + 1
  /\ UNCHANGED <<held, state, changed, pressHistory>>
Millisecond ==
  /\ bounce' = IF bounce > 0 THEN bounce - 1 ELSE 0
  /\ sinceChange' = (sinceChange + 1) % TimeModulus
  /\ sincePress' = (sincePress + 1) % TimeModulus
  /\ UNCHANGED <<held, state, changed, pressHistory>>

\* Mutant of ReadDebouncing: the event of the last change is left.
MutReadDebouncing ==
  /\ sinceChange < DEBOUNCE_MS
  /\ UNCHANGED <<held, bounce, state, changed, sinceChange, sincePress>>
\* read() within DEBOUNCE_MS of a change.
ReadDebouncing ==
  /\ sinceChange < DEBOUNCE_MS
  /\ changed' = FALSE
  /\ UNCHANGED <<held, bounce, state, sinceChange, sincePress>>

ReadLevel(level) ==
  /\ sinceChange >= DEBOUNCE_MS
  /\ state' = level /\ changed' = (level # state)
  /\ sinceChange' = IF level # state THEN 0 ELSE sinceChange
  /\ sincePress' = IF level # state /\ level THEN 0 ELSE sincePress
  /\ UNCHANGED <<held, bounce>>

\* Mutant of WasReleased: _hold_time is the debounce time.
MutWasReleased == ~state /\ changed /\ sincePress < DEBOUNCE_MS

\* wasReleased(): _hold_time is -1, as an unsigned number.
WasReleased == ~state /\ changed /\ sincePress < TimeModulus - 1

\* A release that is reported takes the presses before it, of which there must be
\* one, and one more if the finger is down again.
CountReport ==
  /\ presses' = IF WasReleased' THEN (IF held THEN 1 ELSE 0) ELSE presses
  /\ doubled' = (doubled \/ (WasReleased' /\ presses < (IF held THEN 2 ELSE 1)))

Read == (ReadDebouncing \/ \E level \in Pin : ReadLevel(level)) /\ CountReport

ButtonNext == Press \/ LetGo \/ Millisecond \/ Read

ButtonSpec == ButtonInit /\ [][ButtonNext]_buttonVars

(***************************************************************************)
(* Properties                                                              *)
(***************************************************************************)
ButtonTypeOK ==
  /\ held \in BOOLEAN /\ state \in BOOLEAN /\ changed \in BOOLEAN
  /\ bounce \in 0 .. MaxBounce
  /\ sinceChange \in 0 .. TimeModulus - 1 /\ sincePress \in 0 .. TimeModulus - 1
  /\ presses \in 0 .. 2 /\ doubled \in BOOLEAN

\* A press of the finger is reported as a release at most once, however the
\* contact bounces, however often or seldom the loop reads the button, and when
\* millis() wraps.
OneReportPerPress == ~doubled
=============================================================================
