----------------------------- MODULE PowerManager -----------------------------
(***************************************************************************)
(* The power management of the main loop (main.cpp): the periodic update   *)
(* of the battery state, the gauge that measures the capacity of the       *)
(* battery between an empty and a full one and keeps it in NVS, and the    *)
(* ways the device is turned off.  A frame being received suspends all of  *)
(* it.  A loop is several steps: the computer or the charger can be        *)
(* plugged and unplugged between them, and the device can lose its power.  *)
(*                                                                         *)
(* Time is in ticks and kept as differences: sincePowerUpdate stands for   *)
(* now - lastPowerUpdate and sinceReset for now - lastPowerOffTimeoutReset.*)
(* The PMU (AXP192) and the battery are as AXP192.cpp reads them.  The     *)
(* charge is in whole units of the gauge, which is what is left of a       *)
(* reading of GetCoulombData() in the byte that keeps the capacity.        *)
(***************************************************************************)
EXTENDS Integers

CONSTANTS POWER_UPDATE_PERIOD,                 \* 1 s in the code
          POWER_OFF_TIMEOUT,                   \* 30 s
          FULL_CHARGE_TIME_BEFORE_GAUGE_RESET, \* 30 s
          DefaultCapacity,  \* 80 in the code
          FullCharge,       \* what the battery holds when the charger stops
          LoopTime,         \* bound: the ticks a loop lasts
          TypingTime        \* bound: the ticks a loop that types the password lasts

ASSUME PowerAssumption ==
  /\ POWER_UPDATE_PERIOD \in Nat \ {0} /\ POWER_OFF_TIMEOUT \in Nat \ {0}
  /\ FULL_CHARGE_TIME_BEFORE_GAUGE_RESET \in Nat \ {0}
  /\ DefaultCapacity \in 0 .. 255 /\ FullCharge \in 1 .. 255
  /\ LoopTime \in Nat \ {0} /\ TypingTime \in Nat
  /\ LoopTime < POWER_OFF_TIMEOUT /\ TypingTime < POWER_OFF_TIMEOUT

VARIABLES on, pc,  \* the device runs, and where its loop is
          sincePowerUpdate, sinceReset, typed,
          batteryState, batteryGaugeState, batteryCapacity, batterySoc,
          batteryFullChargeTime,
          isEmpty,                   \* what the update has read
          nvsCapacity, nvsGauge,     \* the two keys in NVS
          source,            \* what supplies the device: no input, VBUS, or the other one
          charge, clearedAt, \* of the battery, and what it was at the last clear
          irq,       \* the PMU's latched events of the power button
          away,      \* the user has left: no more plugs, buttons, frames and boots
          plugged,   \* history: ticks with VBUS or a charge, and a battery not low
          uncleared, \* history: the power was lost with the low boundary saved and the
                     \* counter not cleared, and no capacity was saved since
          unsaved    \* history: the keys in NVS whose last save since the boot failed

timers == <<sincePowerUpdate, sinceReset, typed>>
gauge == <<batteryGaugeState, batteryCapacity>>
battery == <<batteryState, batterySoc, batteryFullChargeTime>>
nvs == <<nvsCapacity, nvsGauge>>
world == <<source, charge, clearedAt, irq, away>>
history == <<plugged, uncleared, unsaved>>
vars == <<on, pc, timers, gauge, battery, isEmpty, nvs, world, history>>

Sources == {"none", "vbus", "acin"}
Least(a, b) == IF a < b THEN a ELSE b
Low == charge = 0
\* The bit of VBUS in GetInputPowerStatus(), and the one of GetBatteryChargingStatus(),
\* which either input sets.
isPowered == source = "vbus"
Charging == source # "none" /\ charge < FullCharge
CoulombData == charge - clearedAt

(***************************************************************************)
(* Boot: the globals are initialised, and setup() reads NVS.                 *)
(***************************************************************************)
Init ==
  /\ on = TRUE /\ pc = "loop"
  /\ sincePowerUpdate = 0 /\ sinceReset = 0 /\ typed = FALSE
  /\ batteryState = "empty" /\ batterySoc = 0 /\ batteryFullChargeTime = 0
  /\ batteryGaugeState = "idle" /\ batteryCapacity = DefaultCapacity
  /\ isEmpty = FALSE
  /\ nvsGauge = "idle" /\ nvsCapacity = DefaultCapacity
  /\ source \in Sources /\ charge \in 1 .. FullCharge /\ clearedAt = charge
  /\ irq = {} /\ away = FALSE
  /\ plugged = 0 /\ uncleared = FALSE /\ unsaved = {}

\* The globals as the program begins with them, and what setup() reads from NVS.
Setup ==
  /\ pc' = "loop" /\ isEmpty' = FALSE
  /\ sincePowerUpdate' = 0 /\ sinceReset' = 0 /\ typed' = FALSE
  /\ batteryState' = "empty" /\ batterySoc' = 0 /\ batteryFullChargeTime' = 0
  /\ batteryCapacity' = nvsCapacity /\ batteryGaugeState' = nvsGauge
  /\ plugged' = 0 /\ unsaved' = {}

\* The PMU's latch outlives a restart of the processor, and not a loss of power.
Boot ==
  /\ ~on /\ ~away /\ on' = TRUE
  /\ Setup
  /\ irq' \in {irq, {}}
  /\ UNCHANGED <<nvs, source, charge, clearedAt, away, uncleared>>

(***************************************************************************)
(* The world.                                                              *)
(***************************************************************************)
Plug ==
  /\ ~away
  /\ source' \in Sources \ {source} /\ plugged' = 0
  /\ UNCHANGED <<on, pc, timers, gauge, battery, isEmpty, nvs, charge, clearedAt, irq, away,
                 uncleared, unsaved>>

\* The battery of a device that is off charges, or loses its charge.
OffTime ==
  /\ ~on
  /\ charge' = IF source # "none" THEN Least(charge + 1, FullCharge)
                ELSE IF charge > 0 THEN charge - 1 ELSE 0
  /\ UNCHANGED <<on, pc, timers, gauge, battery, isEmpty, nvs, source, clearedAt, irq, away,
                 history>>

PressPower(event) ==
  /\ on /\ ~away /\ event \notin irq
  /\ irq' = irq \cup {event}
  /\ UNCHANGED <<on, pc, timers, gauge, battery, isEmpty, nvs, source, charge, clearedAt,
                 away, history>>

UserLeaves ==
  /\ ~away /\ source = "none"
  /\ away' = TRUE
  /\ UNCHANGED <<on, pc, timers, gauge, battery, isEmpty, nvs, source, charge, clearedAt, irq,
                 history>>

\* What was in memory is lost.  That of a device that is off means nothing: it is given
\* the values of the next start.
TurnOff == on /\ on' = FALSE /\ Setup

\* The power is lost, or the processor restarts, at any step of the loop.
Crash ==
  /\ TurnOff
  /\ uncleared' = (uncleared \/ (pc = "clear" /\ nvsGauge = "lowBoundary"))
  /\ UNCHANGED <<nvs, world>>

(***************************************************************************)
(* The loop.  A loop begins elapsed ticks after the previous one.          *)
(***************************************************************************)
Duration == 0 .. IF typed THEN TypingTime ELSE LoopTime

\* What happens to the battery meanwhile, as a nondeterministic step of charge.
TimePasses(elapsed) ==
  /\ \/ elapsed = 0 /\ UNCHANGED charge
     \/ /\ elapsed > 0
        /\ charge' \in IF source # "none" THEN {charge, Least(charge + 1, FullCharge)}
                       ELSE {charge, IF charge > 0 THEN charge - 1 ELSE 0}
  /\ plugged' = IF (isPowered \/ (source # "none" /\ charge' < FullCharge)) /\ charge' > 0
                THEN Least(plugged + elapsed, POWER_UPDATE_PERIOD + LoopTime + TypingTime)
                ELSE 0
  /\ sincePowerUpdate' = Least(sincePowerUpdate + elapsed, POWER_UPDATE_PERIOD)
  /\ typed' = FALSE

\* isCommunicating(): a frame keeps the device on and suspends the rest.
LoopReceiving(elapsed) ==
  /\ on /\ pc = "loop" /\ elapsed \in Duration /\ ~away
  /\ TimePasses(elapsed)
  /\ sinceReset' = 0
  /\ UNCHANGED <<on, pc, gauge, battery, isEmpty, nvs, source, clearedAt, irq, away, uncleared,
                 unsaved>>

\* The rest of the loop begins, with the power update if it is due.
LoopIdle(elapsed) ==
  /\ on /\ pc = "loop" /\ elapsed \in Duration
  /\ TimePasses(elapsed)
  /\ sinceReset' = Least(sinceReset + elapsed, POWER_OFF_TIMEOUT)
  /\ pc' = IF sincePowerUpdate' = POWER_UPDATE_PERIOD THEN "update" ELSE "buttons"
  /\ UNCHANGED <<on, gauge, battery, isEmpty, nvs, source, clearedAt, irq, away, uncleared,
                 unsaved>>

\* The time in standby after this update, and whether it is the high boundary.
Standby == isPowered /\ ~Charging
FullTime ==
  IF Standby
  THEN Least(FULL_CHARGE_TIME_BEFORE_GAUGE_RESET,
             batteryFullChargeTime
               + IF batteryState = "standby" THEN POWER_UPDATE_PERIOD ELSE 0)
  ELSE 0
HighBoundary == Standby /\ FullTime >= FULL_CHARGE_TIME_BEFORE_GAUGE_RESET

\* The PMU is read, and the battery state follows.  At the high boundary a gauge
\* that has seen the low one takes the counter for the capacity.
UpdatePower ==
  /\ on /\ pc = "update"
  /\ sincePowerUpdate' = 0
  /\ isEmpty' = Low
  /\ batteryState' = CASE HighBoundary -> "full"
                       [] Standby /\ ~HighBoundary -> "standby"
                       [] Charging -> "charging"
                       [] ~isPowered /\ ~Charging -> "discharging"
  /\ batteryFullChargeTime' = FullTime
  /\ \/ /\ HighBoundary /\ batteryGaugeState = "lowBoundary"
        /\ batteryGaugeState' = "idle" /\ batteryCapacity' = CoulombData
        /\ pc' = "saveCapacity"
     \/ /\ ~(HighBoundary /\ batteryGaugeState = "lowBoundary")
        /\ pc' = "lowBoundary" /\ UNCHANGED gauge
  /\ UNCHANGED <<on, sinceReset, typed, batterySoc, nvs, world, history>>

\* preferences.putUChar: the value is saved, or it is not (as when NVS is full, or begin()
\* could not open it), and nobody looks.
PutUChar(key, stored, value) ==
  \/ stored' = value /\ unsaved' = unsaved \ {key}
  \/ UNCHANGED stored /\ unsaved' = unsaved \cup {key}

\* putUChar("BatteryCapacity")
SaveCapacity ==
  /\ on /\ pc = "saveCapacity" /\ pc' = "saveGauge"
  /\ PutUChar("BatteryCapacity", nvsCapacity, batteryCapacity)
  /\ uncleared' = (uncleared /\ ~(clearedAt = 0 /\ nvsCapacity' = batteryCapacity))
  /\ UNCHANGED <<on, timers, gauge, battery, isEmpty, nvsGauge, world, plugged>>

\* Mutant of SaveGauge: the gauge state is not saved.
MutSaveGauge ==
  /\ on /\ pc = "saveGauge" /\ pc' = "lowBoundary"
  /\ UNCHANGED <<on, timers, gauge, battery, isEmpty, nvs, world, history>>
\* putUChar("GaugeState")
SaveGauge ==
  /\ on /\ pc = "saveGauge" /\ pc' = "lowBoundary"
  /\ PutUChar("GaugeState", nvsGauge, batteryGaugeState)
  /\ UNCHANGED <<on, timers, gauge, battery, isEmpty, nvsCapacity, world, plugged, uncleared>>

\* An empty battery: the low boundary is saved.
LowBoundary ==
  /\ on /\ pc = "lowBoundary"
  /\ \/ /\ isEmpty /\ pc' = "clear"
        /\ batteryGaugeState' = "lowBoundary"
        /\ PutUChar("GaugeState", nvsGauge, "lowBoundary")
     \/ /\ ~isEmpty /\ pc' = "soc"
        /\ UNCHANGED <<batteryGaugeState, nvsGauge, unsaved>>
  /\ UNCHANGED <<on, timers, batteryCapacity, battery, isEmpty, nvsCapacity, world, plugged,
                 uncleared>>

\* Mutant of ClearCoulomb: the counter is not cleared.
MutClearCoulomb ==
  /\ on /\ pc = "clear" /\ pc' = "soc"
  /\ batteryState' = "empty"
  /\ UNCHANGED <<on, timers, gauge, batterySoc, batteryFullChargeTime, isEmpty, nvs, world,
                 history>>
\* ClearCoulombcounter(), and the counter starts from here.
ClearCoulomb ==
  /\ on /\ pc = "clear" /\ pc' = "soc"
  /\ clearedAt' = charge
  /\ batteryState' = "empty"
  /\ UNCHANGED <<on, timers, gauge, batterySoc, batteryFullChargeTime, isEmpty, nvs, source,
                 charge, irq, away, history>>

\* Mutant of UpdateSoc: the state of charge is not limited.
MutUpdateSoc ==
  /\ on /\ pc = "soc" /\ pc' = "buttons"
  /\ batterySoc' = IF CoulombData <= 0 \/ batteryCapacity = 0 THEN 0
                   ELSE (CoulombData * 100) \div batteryCapacity
  /\ UNCHANGED <<on, timers, gauge, batteryState, batteryFullChargeTime, isEmpty, nvs, world,
                 history>>
\* The state of charge, and setBatteryLevel.
UpdateSoc ==
  /\ on /\ pc = "soc" /\ pc' = "buttons"
  /\ batterySoc' = IF CoulombData >= batteryCapacity \/ batteryState = "full" THEN 100
                   ELSE IF CoulombData <= 0 THEN 0
                   ELSE (CoulombData * 100) \div batteryCapacity
  /\ UNCHANGED <<on, timers, gauge, batteryState, batteryFullChargeTime, isEmpty, nvs, world,
                 history>>

\* Mutant of PressedOff: the long press is taken for the short one.
MutPressedOff == irq = {"long"}
\* GetBtnPress() == 0x02
PressedOff == irq = {"press"}
Expired == sinceReset >= POWER_OFF_TIMEOUT

\* M5.Axp.PowerOff(), for the timeout or for a press of the power button, whose
\* latch is read and cleared in both cases.
PowerOff ==
  /\ pc = "buttons" /\ TurnOff
  /\ Expired \/ PressedOff
  /\ irq' = {}
  /\ UNCHANGED <<nvs, source, charge, clearedAt, away, uncleared>>

\* The states that keep the device on.
KeptOn == batteryState \in {"charging", "full", "standby"}

\* Mutant of Buttons: external power does not keep the device on.
MutButtons(released) ==
  /\ on /\ pc = "buttons" /\ pc' = "loop" /\ ~Expired /\ ~PressedOff
  /\ released # {} => ~away
  /\ irq' = {}
  /\ typed' = ("A" \in released)
  /\ sinceReset' = IF released # {} THEN 0 ELSE sinceReset
  /\ UNCHANGED <<on, sincePowerUpdate, gauge, battery, isEmpty, nvs, source, charge, clearedAt,
                 away, history>>
\* Mutant of Buttons: every battery state keeps the device on.
MutButtonsKeepOn(released) ==
  /\ on /\ pc = "buttons" /\ pc' = "loop" /\ ~Expired /\ ~PressedOff
  /\ released # {} => ~away
  /\ irq' = {}
  /\ typed' = ("A" \in released)
  /\ sinceReset' = 0
  /\ UNCHANGED <<on, sincePowerUpdate, gauge, battery, isEmpty, nvs, source, charge, clearedAt,
                 away, history>>
\* The buttons A and B that were released, of which A may type the password,
\* and the battery state that keeps the device on.
Buttons(released) ==
  /\ on /\ pc = "buttons" /\ pc' = "loop" /\ ~Expired /\ ~PressedOff
  /\ released # {} => ~away
  /\ irq' = {}
  /\ typed' = ("A" \in released)
  /\ sinceReset' = IF released # {} \/ KeptOn THEN 0 ELSE sinceReset
  /\ UNCHANGED <<on, sincePowerUpdate, gauge, battery, isEmpty, nvs, source, charge, clearedAt,
                 away, history>>

Next ==
  \/ Boot \/ Crash \/ Plug \/ OffTime \/ UserLeaves
  \/ \E event \in {"press", "long"} : PressPower(event)
  \/ \E elapsed \in 0 .. LoopTime + TypingTime : LoopReceiving(elapsed) \/ LoopIdle(elapsed)
  \/ UpdatePower \/ SaveCapacity \/ SaveGauge \/ LowBoundary \/ ClearCoulomb
  \/ UpdateSoc \/ PowerOff
  \/ \E released \in SUBSET {"A", "B"} : Buttons(released)

Spec == Init /\ [][Next]_vars

\* The loop goes on, time passes, and a frame ends (a decoder without a clock
\* edge times out).
LoopSteps ==
  \/ UpdatePower \/ SaveCapacity \/ SaveGauge \/ LowBoundary \/ ClearCoulomb
  \/ UpdateSoc \/ PowerOff
  \/ \E released \in SUBSET {"A", "B"} : Buttons(released)
FairSpec ==
  /\ Spec
  /\ WF_vars(LoopSteps)
  /\ SF_vars(\E elapsed \in 1 .. LoopTime + TypingTime : LoopIdle(elapsed))

(***************************************************************************)
(* Properties                                                              *)
(***************************************************************************)
Gauges == {"idle", "lowBoundary"}
TypeOK ==
  /\ on \in BOOLEAN /\ typed \in BOOLEAN
  /\ pc \in {"loop", "update", "saveCapacity", "saveGauge", "lowBoundary", "clear",
             "soc", "buttons"}
  /\ sincePowerUpdate \in 0 .. POWER_UPDATE_PERIOD /\ sinceReset \in 0 .. POWER_OFF_TIMEOUT
  /\ batteryState \in {"empty", "discharging", "charging", "full", "standby"}
  /\ batteryGaugeState \in Gauges /\ nvsGauge \in Gauges
  /\ batteryCapacity \in 0 .. 255 /\ nvsCapacity \in 0 .. 255 /\ batterySoc \in 0 .. 100
  /\ batteryFullChargeTime \in 0 .. FULL_CHARGE_TIME_BEFORE_GAUGE_RESET
  /\ isEmpty \in BOOLEAN
  /\ source \in Sources /\ charge \in 0 .. FullCharge /\ clearedAt \in 0 .. FullCharge
  /\ irq \subseteq {"press", "long"} /\ away \in BOOLEAN
  /\ uncleared \in BOOLEAN /\ unsaved \subseteq {"BatteryCapacity", "GaugeState"}
  /\ plugged \in 0 .. POWER_UPDATE_PERIOD + LoopTime + TypingTime

\* What the gauge calls the capacity, in memory and in NVS, is the default or
\* what went into the battery between an empty and a full one, however often the
\* device restarted in between, wherever a restart hit the two saves and whichever of
\* them failed.  Only a restart between the save of the low boundary and the clear of
\* the counter is excepted.
CapacityMeasured ==
  ~uncleared => {batteryCapacity, nvsCapacity} \subseteq {DefaultCapacity, FullCharge}

\* A loop ends with in NVS what it has in memory, however many restarts and failed saves
\* came before, so that another restart loses nothing.  Only a key whose last save since
\* the boot failed is excepted: its result is not looked at, and the next save of the
\* key, or the restart, makes memory and NVS agree again.
NvsIsCurrent ==
  on /\ pc = "loop" =>
    /\ "BatteryCapacity" \notin unsaved => nvsCapacity = batteryCapacity
    /\ "GaugeState" \notin unsaved => nvsGauge = batteryGaugeState

\* The timeout does not turn off a device that has had VBUS, or a charge from the other
\* input, and a battery that is not low, for an update period and the loop that ends it.
NoTimeoutWhilePlugged ==
  on /\ pc = "buttons" /\ Expired => plugged < POWER_UPDATE_PERIOD + LoopTime

\* A device that is left alone without external power turns itself off; a press
\* of the power button turns it off even if a frame was being received, unless a
\* long press is latched with it.
LeftAloneTurnsOff == away ~> ~on
PressTurnsOff == on /\ "press" \in irq ~> ~on \/ "long" \in irq
=============================================================================
