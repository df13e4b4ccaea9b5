------------------------------- MODULE LedLink -------------------------------
(***************************************************************************)
(* The way of a password from the host to the flash of the device: the     *)
(* script toggles the lock keys, Windows sends an LED report for each      *)
(* change, BleKeyboard::onWrite queues it, and the loop of main.cpp takes  *)
(* one report per iteration, updates the decoder and stores a complete     *)
(* payload.  The host, the BLE host task, the loop and time interleave;    *)
(* the link breaks, the device reboots and the user presses lock keys.     *)
(***************************************************************************)
EXTENDS PasswordTyperConfigurator

CONSTANTS SizeOf, ClockTimeout,  \* of the decoder
          Capacity,              \* reports the LED buffer holds
          Payloads,              \* bound: payloads of the first run of the script, of
                                 \* the second, ...
          DefaultPassword,       \* the password in the flash at first
          Nul,                   \* the byte 0, which ends a C string
          BootLeds,              \* the LEDs lit in the initial keyboardLedState
          MaxFaults              \* bound: lock keys pressed, breaks, failed saves
                                 \* and reboots

VARIABLES queue, pushOk, ledState,
          state, lastClockLed, silence,
          bitIndex, currentByte, byteCount, payloadSize, receivedString,
          elapsed,             \* ticks since the last iteration of the loop
          connected,
          passwordSequence, passSeq,  \* the password in RAM, and in the flash
          sent,                \* history: the payload of the last run of the script
          clean,               \* history: nothing has disturbed that run
          reported,            \* history: an LED report arrived since the boot
          unsaved,             \* history: the last save of a password failed
          runs, faults

Queue == INSTANCE LedQueue WITH offered <- hostLeds, LedValues <- SUBSET LEDs, InitLed <- BootLeds
KLS == INSTANCE KeyboardLedSignaling WITH bits <- <<>>, gap <- 0  \* no history

ASSUME LinkAssumption ==
  /\ BITS_PER_BYTE \in Nat \ {0} /\ MaxByte \in Nat \ {0} /\ ClockTimeout \in Nat \ {0}
  /\ SizeOf \in [KLS!Byte -> 0 .. MaxByte]
  /\ \A n \in 0 .. MaxByte : SizeOf[ByteOf[n]] = n
  /\ ClockTimeout < SyncDelay  \* the script waits for the device's timeout
  /\ Capacity \in Nat \ {0} /\ BootLeds \in SUBSET LEDs
  /\ Payloads \in Seq(SUBSET Seq(KLS!Byte))
  /\ DefaultPassword \in Seq(KLS!Byte)  \* a C string
  /\ \A i \in 1 .. Len(DefaultPassword) : DefaultPassword[i] # Nul

queueVars == <<queue, pushOk, ledState>>
decoderVars == <<state, lastClockLed, silence, bitIndex, currentByte, byteCount,
                 payloadSize, receivedString>>
password == <<passwordSequence, passSeq>>
history == <<sent, clean, reported, unsaved>>
budget == <<runs, faults>>
vars == <<hostVars, queueVars, decoderVars, elapsed, connected, password, history, budget>>

\* preferences.putString and printf take a C string.
CString(bytes) ==
  LET ends == {i \in 1 .. Len(bytes) : bytes[i] = Nul}
  IN  IF ends = {} THEN bytes
      ELSE SubSeq(bytes, 1, (CHOOSE i \in ends : \A j \in ends : i <= j) - 1)

Init ==
  /\ HostInit /\ Queue!Init /\ KLS!Init
  /\ elapsed = 0 /\ connected = FALSE
  /\ passwordSequence = DefaultPassword /\ passSeq = DefaultPassword
  /\ sent = <<>> /\ clean = FALSE /\ reported = FALSE /\ unsaved = FALSE
  /\ runs = 0 /\ faults = 0

(***************************************************************************)
(* The reports: Windows sends the LEDs whenever they change, and onWrite   *)
(* queues or drops them.  Without a connection they are lost.              *)
(***************************************************************************)
OnWrite(leds) == Queue!Push(leds) \/ Queue!Refuse

Report(leds) ==
  \/ connected /\ OnWrite(leds) /\ reported' = TRUE
  \/ ~connected /\ UNCHANGED <<queueVars, reported>>

ReportChange ==
  IF hostLeds' = hostLeds THEN UNCHANGED <<queueVars, reported>> ELSE Report(hostLeds')

\* The clock LED as the device will have it once it has taken all reports.  It
\* is the host's unless a report was lost: the device knows of changes only.
ClockSeen == "clock" \in (IF queue = <<>> THEN ledState ELSE Last(queue))
ClockInSync == ClockSeen = ("clock" \in hostLeds)

\* The App notes ask for a connected device.
StartScript(bytes) ==
  /\ connected
  /\ runs < Len(Payloads) /\ bytes \in Payloads[runs + 1] /\ runs' = runs + 1
  /\ RunScript(bytes)
  /\ sent' = bytes /\ clean' = ClockInSync
  /\ UNCHANGED <<queueVars, decoderVars, elapsed, connected, password, reported,
                 unsaved, faults>>

ScriptCommand ==
  /\ RunCommand /\ ReportChange
  /\ clean' = (clean /\ (pushOk' \/ hostLeds' = hostLeds))
  /\ UNCHANGED <<decoderVars, elapsed, connected, password, sent, unsaved, budget>>

ScriptWakes ==
  /\ WakeUp
  /\ UNCHANGED <<queueVars, decoderVars, elapsed, connected, password, history, budget>>

UserPresses(led) ==
  /\ faults < MaxFaults /\ faults' = faults + 1
  /\ PressLock(led) /\ ReportChange
  /\ clean' = FALSE
  /\ UNCHANGED <<decoderVars, elapsed, connected, password, sent, unsaved, runs>>

LinkBreaks ==
  /\ connected /\ faults < MaxFaults /\ faults' = faults + 1
  /\ connected' = FALSE /\ clean' = FALSE
  /\ UNCHANGED <<hostVars, queueVars, decoderVars, elapsed, password, sent, reported,
                 unsaved, runs>>

\* A host that connects may send the LEDs it has lit.
LinkReturns ==
  /\ ~connected /\ connected' = TRUE
  /\ \/ OnWrite(hostLeds) /\ reported' = TRUE
     \/ UNCHANGED <<queueVars, reported>>
  /\ UNCHANGED <<hostVars, decoderVars, elapsed, password, sent, clean, unsaved, budget>>

(***************************************************************************)
(* The loop of main.cpp.                                                   *)
(***************************************************************************)
TakeReport == Queue!Pop \/ (queue = <<>> /\ UNCHANGED queueVars)

UpdateDecoder ==
  /\ state # "Complete"
  /\ TakeReport
  /\ KLS!Update("clock" \in ledState', "data" \in ledState', elapsed)
  /\ elapsed' = 0
  /\ UNCHANGED <<hostVars, connected, password, history, budget>>

\* Mutant of Save: the flash keeps the old password.
MutSave == UNCHANGED <<passSeq, unsaved, faults>>
\* preferences.putString, whose result is not looked at.
Save ==
  \/ passSeq' = CString(receivedString) /\ unsaved' = FALSE /\ UNCHANGED faults
  \/ /\ faults < MaxFaults /\ faults' = faults + 1
     /\ unsaved' = TRUE /\ UNCHANGED passSeq

StorePayload ==
  /\ state = "Complete"
  /\ Save
  /\ passwordSequence' = receivedString
  /\ KLS!Reset
  /\ UNCHANGED <<hostVars, queueVars, elapsed, connected, sent, clean, reported, runs>>

\* The device restarts: the globals have their initial values, and setup()
\* reads the password from the flash.
ClearQueue == queue' = <<>> /\ pushOk' = TRUE /\ ledState' = BootLeds
ClearDecoder ==
  /\ state' = "Idle" /\ lastClockLed' = FALSE /\ silence' = 0
  /\ bitIndex' = 0 /\ currentByte' = KLS!NoBits
  /\ byteCount' = 0 /\ payloadSize' = 0 /\ receivedString' = <<>>

Reboot ==
  /\ faults < MaxFaults /\ faults' = faults + 1
  /\ ClearQueue /\ ClearDecoder
  /\ elapsed' = 0 /\ connected' = FALSE
  /\ passwordSequence' = passSeq
  /\ clean' = FALSE /\ reported' = FALSE /\ unsaved' = FALSE
  /\ UNCHANGED <<hostVars, passSeq, sent, runs>>

(***************************************************************************)
(* Time.  A run of the script stays clean if the loop keeps up with it, to *)
(* the tick, and if the script does not rest too long within the frame.    *)
(***************************************************************************)
LoopKeepsUp == queue = <<>> /\ elapsed = 0 /\ state # "Complete"
ScriptKeepsOn == script = <<>> \/ Sleeping \/ silence + 1 < ClockTimeout

Tick ==
  /\ SleepTick
  /\ elapsed' = IF elapsed < ClockTimeout THEN elapsed + 1 ELSE elapsed
  /\ clean' = (clean /\ LoopKeepsUp /\ ScriptKeepsOn)
  /\ UNCHANGED <<queueVars, decoderVars, connected, password, sent, reported,
                 unsaved, budget>>

Next ==
  \/ \E bytes \in UNION Range(Payloads) : StartScript(bytes)
  \/ ScriptCommand \/ ScriptWakes
  \/ \E led \in LEDs : UserPresses(led)
  \/ LinkBreaks \/ LinkReturns
  \/ UpdateDecoder \/ StorePayload \/ Reboot
  \/ Tick

Spec == Init /\ [][Next]_vars

(***************************************************************************)
(* Properties                                                              *)
(***************************************************************************)
TypeOK ==
  /\ hostLeds \in SUBSET LEDs /\ slept \in 0 .. SyncDelay
  /\ queue \in Seq(SUBSET LEDs) /\ Len(queue) <= Capacity
  /\ ledState \in SUBSET LEDs
  /\ KLS!TypeOK
  /\ elapsed \in 0 .. ClockTimeout /\ connected \in BOOLEAN

\* The run of the script is over and the device has seen all its reports.
Arrived == clean /\ script = <<>> /\ queue = <<>> /\ state # "Complete"

\* A payload sent by an undisturbed run of the script is the password the
\* device then has, whatever happened before: a frame cut off, a report
\* dropped, a stray lock key, a lost connection or a reboot.
CleanRunStored == Arrived => passwordSequence = sent

\* The edges that end a run do not start another frame.
CleanRunEndsIdle == Arrived => state = "Idle"

\* The password the device types does not change over a restart: what is in
\* the flash is what printf makes of the password in RAM, unless it could not be
\* saved, and then a restart brings the last one that could.
RamMatchesFlash == unsaved \/ CString(passwordSequence) = passSeq

(***************************************************************************)
(* What the documents say and the code does not do.                        *)
(***************************************************************************)

\* lib/KeyboardLedSignaling/Readme.md: "Idle: Waiting for a start condition
\* (clock activity)".  The device receives only after an LED report arrived.
StartsOnClockActivity == state = "Receiving" => reported

\* Readme.md: "Byte 0: payload length".  The first byte of an undisturbed
\* frame is the length of the payload that was sent.
LengthFirst ==
  clean /\ state = "Receiving" /\ byteCount > 0 => payloadSize = Len(sent)
=============================================================================
