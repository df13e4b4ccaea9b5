---------------------- MODULE PasswordTyperConfigurator ----------------------
(***************************************************************************)
(* The host side (App/PasswordTyperConfigurator.ps1): the script sends a   *)
(* payload by toggling the lock keys, Num Lock as the clock and Scroll     *)
(* Lock as the data, Caps Lock as a progress signal.  The commands a run   *)
(* of the script still has to execute are a sequence; a lock key whose LED *)
(* already has the wanted state is not pressed.  The sleeps of 2 ms are    *)
(* less than a tick; the one of Send-StartFrame lasts at least SyncDelay.  *)
(***************************************************************************)
EXTENDS Integers, Sequences, SequencesExt

CONSTANTS BITS_PER_BYTE, MaxByte,
          ByteOf,    \* the byte that stands for a number, up to MaxByte
          SyncDelay, \* $SyncDelayMs, in ticks
          StartLeds  \* bound: the LEDs that may be lit at first

ASSUME ScriptAssumption ==
  /\ BITS_PER_BYTE \in Nat \ {0} /\ MaxByte \in Nat \ {0} /\ SyncDelay \in Nat
  /\ ByteOf \in [0 .. MaxByte -> [0 .. BITS_PER_BYTE - 1 -> BOOLEAN]]
  /\ StartLeds \subseteq SUBSET {"clock", "data", "info"}

VARIABLES hostLeds,  \* the lock LEDs that are lit, as Windows has them
          script,    \* the commands still to run
          slept      \* ticks of the sync delay that have passed

hostVars == <<hostLeds, script, slept>>

LEDs == {"clock", "data", "info"}

SetLed(led, on) == <<[op |-> IF on THEN "on" ELSE "off", led |-> led]>>
ToggleLed(led) == <<[op |-> "toggle", led |-> led]>>
SyncSleep == <<[op |-> "sleep", led |-> "clock"]>>

PulseClock == SetLed("clock", FALSE) \o SetLed("clock", TRUE)

SendBit(bit) == SetLed("data", bit) \o ToggleLed("clock")

SendByte(byte) == FlattenSeq([i \in 1 .. BITS_PER_BYTE |-> SendBit(byte[i - 1])])

\* Send-Byte $length: the parameter is a [byte], and a length that is none
\* fails the call; the script goes on with the next statement.
SendLength(length) == IF length <= MaxByte THEN SendByte(ByteOf[length]) ELSE <<>>

\* Mutant of SendStartFrame: no sync delay.
MutSendStartFrame == SetLed("clock", FALSE) \o SetLed("data", FALSE) \o PulseClock
SendStartFrame == SetLed("clock", FALSE) \o SetLed("data", FALSE) \o SyncSleep \o PulseClock

\* Mutant of SendStopFrame: the clock is pulsed instead of switched off.
MutSendStopFrame == SetLed("data", FALSE) \o PulseClock \o SetLed("info", FALSE)
SendStopFrame == SetLed("data", FALSE) \o SetLed("clock", FALSE) \o SetLed("info", FALSE)

SendStringPayload(bytes) ==
  SendStartFrame \o SendLength(Len(bytes))
  \o FlattenSeq([k \in 1 .. Len(bytes) |-> ToggleLed("info") \o SendByte(bytes[k])])
  \o SendStopFrame

HostInit == hostLeds \in StartLeds /\ script = <<>> /\ slept = 0

\* A run of the script begins.
RunScript(bytes) ==
  /\ script = <<>>
  /\ script' = SendStringPayload(bytes)
  /\ slept' = 0
  /\ UNCHANGED hostLeds

\* The LEDs after a lock key command.
Pressed(leds, command) ==
  CASE command.op = "on"     -> leds \cup {command.led}
    [] command.op = "off"    -> leds \ {command.led}
    [] command.op = "toggle" -> IF command.led \in leds THEN leds \ {command.led}
                                                        ELSE leds \cup {command.led}

Sleeping == script # <<>> /\ Head(script).op = "sleep"

RunCommand ==
  /\ script # <<>> /\ ~Sleeping
  /\ hostLeds' = Pressed(hostLeds, Head(script))
  /\ script' = Tail(script)
  /\ UNCHANGED slept

WakeUp ==
  /\ Sleeping /\ slept >= SyncDelay
  /\ script' = Tail(script)
  /\ slept' = 0
  /\ UNCHANGED hostLeds

\* The user presses a lock key on some keyboard.
PressLock(led) ==
  /\ hostLeds' = Pressed(hostLeds, [op |-> "toggle", led |-> led])
  /\ UNCHANGED <<script, slept>>

\* A tick of time passes; the script may oversleep.
SleepTick ==
  /\ slept' = IF Sleeping /\ slept < SyncDelay THEN slept + 1 ELSE slept
  /\ UNCHANGED <<hostLeds, script>>
=============================================================================
