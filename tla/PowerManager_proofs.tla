-------------------------- MODULE PowerManager_proofs --------------------------
(***************************************************************************)
(* The gauge keeps a measured capacity over any sequence of restarts, NVS  *)
(* and memory agree, and external power keeps the device on, for all       *)
(* periods, capacities and durations of a loop.                            *)
(***************************************************************************)
EXTENDS PowerManager, TLAPS

(***************************************************************************)
(* The inductive invariant                                                 *)
(***************************************************************************)

\* Which of the two values NVS has already, by the position in the loop, and unless it
\* was not saved.
NvsInv ==
  on => /\ pc # "saveCapacity" /\ "BatteryCapacity" \notin unsaved
             => nvsCapacity = batteryCapacity
        /\ pc \notin {"saveCapacity", "saveGauge"} /\ "GaugeState" \notin unsaved
             => nvsGauge = batteryGaugeState

\* What the update has read still holds in its later steps.
ReadInv ==
  on => /\ pc \in {"saveCapacity", "saveGauge"} => ~isEmpty
        /\ pc = "saveCapacity" => batteryCapacity = FullCharge - clearedAt
        /\ pc = "lowBoundary" /\ isEmpty => charge = 0
        /\ pc = "clear" => charge = 0

\* A gauge that has seen the low boundary, or will have after a restart, counts
\* from an empty battery.
CountedFromEmpty ==
  "lowBoundary" \in {batteryGaugeState, nvsGauge} =>
    clearedAt = 0 \/ uncleared \/ (on /\ pc = "clear")

\* The battery state is that of external power if VBUS or the charge was there already
\* at the last update, and the timeout begins with the loop if it was there in the loop
\* before.
PluggedInv ==
  on => /\ plugged > 0 => (isPowered \/ Charging) /\ charge > 0
        /\ plugged > sincePowerUpdate /\ sincePowerUpdate < POWER_UPDATE_PERIOD => KeptOn
        /\ pc \notin {"loop", "update"} => sincePowerUpdate < POWER_UPDATE_PERIOD
        /\ pc = "loop" /\ (typed \/ sincePowerUpdate = POWER_UPDATE_PERIOD
                             \/ plugged > sincePowerUpdate) => sinceReset = 0
        /\ pc # "loop" /\ Expired => plugged < POWER_UPDATE_PERIOD + LoopTime

IInv == TypeOK /\ NvsInv /\ ReadInv /\ CountedFromEmpty /\ CapacityMeasured /\ PluggedInv

(***************************************************************************)
(* Types                                                                   *)
(***************************************************************************)

LEMMA InitTypeOK == Init => TypeOK
<1> SUFFICES ASSUME Init PROVE TypeOK
  OBVIOUS
<1> USE PowerAssumption
<1>1. away \in BOOLEAN /\ uncleared \in BOOLEAN
      /\ on \in BOOLEAN /\ typed \in BOOLEAN /\ isEmpty \in BOOLEAN
  BY Zenon DEF Init
<1>2. sincePowerUpdate \in 0 .. POWER_UPDATE_PERIOD /\ sinceReset \in 0 .. POWER_OFF_TIMEOUT
  BY DEF Init
<1>3. batteryFullChargeTime \in 0 .. FULL_CHARGE_TIME_BEFORE_GAUGE_RESET
      /\ batterySoc \in 0 .. 100
  BY DEF Init
<1>4. charge \in 0 .. FullCharge /\ clearedAt \in 0 .. FullCharge
      /\ plugged \in 0 .. POWER_UPDATE_PERIOD + LoopTime + TypingTime
  BY DEF Init
<1> QED  BY <1>1, <1>2, <1>3, <1>4 DEF Init, TypeOK, Gauges

\* The charger stops at the charge that is called full.
LEMMA StandbyIsFull ==
  ASSUME TypeOK, Standby
  PROVE  isPowered /\ charge = FullCharge
  BY PowerAssumption DEF TypeOK, Standby, Charging, isPowered

LEMMA FullTimeType ==
  ASSUME TypeOK
  PROVE  FullTime \in 0 .. FULL_CHARGE_TIME_BEFORE_GAUGE_RESET
<1> USE PowerAssumption DEF TypeOK
<1>1. CASE batteryState = "standby"
  BY <1>1 DEF FullTime, Least
<1>2. CASE batteryState # "standby"
  BY <1>2 DEF FullTime, Least
<1> QED  BY <1>1, <1>2

\* A share of less than the whole is less than 100 percent.
LEMMA Percentage ==
  ASSUME NEW whole \in 1 .. 255, NEW part \in 1 .. whole
  PROVE  (part * 100) \div whole \in 0 .. 100
  OBVIOUS

\* What the time of a loop does to the charge and the timers.
LEMMA TimeTypes ==
  ASSUME TypeOK, NEW elapsed \in Nat, TimePasses(elapsed)
  PROVE  /\ charge' \in 0 .. FullCharge
         /\ plugged' \in 0 .. POWER_UPDATE_PERIOD + LoopTime + TypingTime
         /\ sincePowerUpdate' \in 0 .. POWER_UPDATE_PERIOD
         /\ typed' = FALSE
<1> USE PowerAssumption DEF TypeOK
<1>1. charge' \in 0 .. FullCharge
  BY DEF TimePasses, Least
<1>2. plugged' \in 0 .. POWER_UPDATE_PERIOD + LoopTime + TypingTime
  BY DEF TimePasses, Least
<1>3. sincePowerUpdate' \in 0 .. POWER_UPDATE_PERIOD
  BY DEF TimePasses, Least
<1> QED  BY <1>1, <1>2, <1>3 DEF TimePasses

\* The types of what the program begins with.
LEMMA SetupTypes ==
  ASSUME Setup
  PROVE  /\ pc' = "loop" /\ typed' \in BOOLEAN /\ isEmpty' \in BOOLEAN
         /\ batteryState' = "empty" /\ unsaved' = {}
         /\ batteryCapacity' = nvsCapacity /\ batteryGaugeState' = nvsGauge
         /\ sincePowerUpdate' \in 0 .. POWER_UPDATE_PERIOD
         /\ sinceReset' \in 0 .. POWER_OFF_TIMEOUT
         /\ batterySoc' \in 0 .. 100
         /\ batteryFullChargeTime' \in 0 .. FULL_CHARGE_TIME_BEFORE_GAUGE_RESET
         /\ plugged' \in 0 .. POWER_UPDATE_PERIOD + LoopTime + TypingTime
<1>1. typed' \in BOOLEAN /\ isEmpty' \in BOOLEAN
  BY Zenon DEF Setup
<1>2. sincePowerUpdate' = 0 /\ sinceReset' = 0 /\ batterySoc' = 0
      /\ batteryFullChargeTime' = 0 /\ plugged' = 0
  BY DEF Setup
<1> QED  BY <1>1, <1>2, PowerAssumption DEF Setup

LEMMA NextTypeOK == TypeOK /\ [Next]_vars => TypeOK'
<1> SUFFICES ASSUME TypeOK, [Next]_vars PROVE TypeOK'
  OBVIOUS
<1> USE PowerAssumption DEF Gauges, timers, gauge, battery, nvs, world, history
<1>1. CASE Boot
  <2>1. /\ on' = TRUE /\ irq' \subseteq {"press", "long"}
        /\ UNCHANGED <<nvs, source, charge, clearedAt, away, uncleared>>
    BY <1>1 DEF Boot, TypeOK
  <2>2. on' \in BOOLEAN /\ away' \in BOOLEAN /\ uncleared' \in BOOLEAN
    BY <2>1, Zenon DEF TypeOK
  <2>3. Setup
    BY <1>1 DEF Boot
  <2> QED  BY <2>1, <2>2, <2>3, SetupTypes DEF TypeOK
<1>2. CASE Crash
  <2>1. on' \in BOOLEAN /\ uncleared' \in BOOLEAN
    BY <1>2, Zenon DEF Crash, TurnOff
  <2>2. /\ Setup /\ UNCHANGED <<nvs, world>>
    BY <1>2 DEF Crash, TurnOff
  <2> QED  BY <2>1, <2>2, SetupTypes DEF TypeOK
<1>3. CASE Plug
  BY <1>3 DEF Plug, TypeOK
<1>4. CASE OffTime
  <2>1. charge' \in 0 .. FullCharge
    BY <1>4 DEF OffTime, TypeOK, Least
  <2> QED  BY <1>4, <2>1 DEF OffTime, TypeOK
<1>5. ASSUME NEW event \in {"press", "long"}, PressPower(event) PROVE TypeOK'
  BY <1>5 DEF PressPower, TypeOK
<1>6. CASE UserLeaves
  BY <1>6 DEF UserLeaves, TypeOK
<1>7. ASSUME NEW elapsed \in 0 .. LoopTime + TypingTime, LoopReceiving(elapsed) PROVE TypeOK'
  <2>1. elapsed \in Nat /\ TimePasses(elapsed) /\ sinceReset' \in 0 .. POWER_OFF_TIMEOUT
    BY <1>7 DEF LoopReceiving
  <2> QED  BY <1>7, <2>1, TimeTypes DEF LoopReceiving, TypeOK
<1>8. ASSUME NEW elapsed \in 0 .. LoopTime + TypingTime, LoopIdle(elapsed) PROVE TypeOK'
  <2>1. elapsed \in Nat /\ TimePasses(elapsed) /\ sinceReset' \in 0 .. POWER_OFF_TIMEOUT
    BY <1>8 DEF LoopIdle, TypeOK, Least
  <2> QED  BY <1>8, <2>1, TimeTypes DEF LoopIdle, TypeOK
<1>9. CASE UpdatePower
  <2>1. batteryFullChargeTime' \in 0 .. FULL_CHARGE_TIME_BEFORE_GAUGE_RESET
        /\ sincePowerUpdate' \in 0 .. POWER_UPDATE_PERIOD
    BY <1>9, FullTimeType DEF UpdatePower
  <2>2. batteryState' \in {"empty", "discharging", "charging", "full", "standby"}
    BY <1>9 DEF UpdatePower, Standby, HighBoundary
  <2>3. batteryCapacity' \in 0 .. 255 /\ batteryGaugeState' \in Gauges
        /\ pc' \in {"saveCapacity", "lowBoundary"}
    <3>1. HighBoundary => CoulombData \in 0 .. 255
      BY StandbyIsFull DEF HighBoundary, CoulombData, TypeOK
    <3> QED  BY <1>9, <3>1 DEF UpdatePower, TypeOK
  <2>4. isEmpty' \in BOOLEAN
    BY <1>9 DEF UpdatePower, Low
  <2> QED  BY <1>9, <2>1, <2>2, <2>3, <2>4 DEF UpdatePower, TypeOK
<1>10. CASE SaveCapacity
  <2>1. uncleared' \in BOOLEAN
    BY <1>10, Zenon DEF SaveCapacity
  <2>2. nvsCapacity' \in 0 .. 255 /\ unsaved' \subseteq {"BatteryCapacity", "GaugeState"}
    BY <1>10 DEF SaveCapacity, PutUChar, TypeOK
  <2> QED  BY <1>10, <2>1, <2>2 DEF SaveCapacity, TypeOK
<1>11. CASE SaveGauge
  BY <1>11 DEF SaveGauge, PutUChar, TypeOK
<1>12. CASE LowBoundary
  BY <1>12 DEF LowBoundary, PutUChar, TypeOK
<1>13. CASE ClearCoulomb
  BY <1>13 DEF ClearCoulomb, TypeOK
<1>14. CASE UpdateSoc
  <2>1. batterySoc' \in 0 .. 100
    <3>1. CoulombData \in Int /\ batteryCapacity \in 0 .. 255
      BY DEF CoulombData, TypeOK
    <3>2. ~(CoulombData >= batteryCapacity) /\ ~(CoulombData <= 0)
            => (CoulombData * 100) \div batteryCapacity \in 0 .. 100
      BY <3>1, Percentage
    <3> QED  BY <1>14, <3>1, <3>2 DEF UpdateSoc
  <2> QED  BY <1>14, <2>1 DEF UpdateSoc, TypeOK
<1>15. CASE PowerOff
  <2>1. on' \in BOOLEAN
    BY <1>15, Zenon DEF PowerOff, TurnOff
  <2>2. /\ Setup /\ UNCHANGED <<nvs, source, charge, clearedAt, away, uncleared>> /\ irq' = {}
    BY <1>15 DEF PowerOff, TurnOff
  <2> QED  BY <2>1, <2>2, SetupTypes DEF TypeOK
<1>16. ASSUME NEW released \in SUBSET {"A", "B"}, Buttons(released) PROVE TypeOK'
  <2>1. sinceReset' \in 0 .. POWER_OFF_TIMEOUT /\ typed' \in BOOLEAN
    BY <1>16 DEF Buttons, TypeOK
  <2> QED  BY <1>16, <2>1 DEF Buttons, TypeOK
<1>17. CASE UNCHANGED vars
  BY <1>17 DEF vars, TypeOK
<1> QED
  BY <1>1, <1>2, <1>3, <1>4, <1>5, <1>6, <1>7, <1>8, <1>9, <1>10, <1>11, <1>12, <1>13, <1>14,
     <1>15, <1>16, <1>17 DEF Next

(***************************************************************************)
(* Memory and NVS                                                          *)
(***************************************************************************)

LEMMA NextNvsInv == TypeOK /\ NvsInv /\ [Next]_vars => NvsInv'
<1> SUFFICES ASSUME TypeOK, NvsInv, [Next]_vars PROVE NvsInv'
  OBVIOUS
<1> USE DEF NvsInv, gauge, nvs, history
<1>1. CASE Boot
  BY <1>1 DEF Boot, Setup
<1>2. CASE on' = on /\ pc' = pc /\ UNCHANGED <<gauge, nvs, unsaved>>
  BY <1>2
<1>3. CASE ~on'
  BY <1>3
<1>4. ASSUME NEW elapsed \in 0 .. LoopTime + TypingTime, LoopIdle(elapsed) PROVE NvsInv'
  BY <1>4 DEF LoopIdle
<1>5. CASE UpdatePower
  BY <1>5 DEF UpdatePower
<1>6. CASE SaveCapacity
  BY <1>6 DEF SaveCapacity, PutUChar
<1>7. CASE SaveGauge
  BY <1>7 DEF SaveGauge, PutUChar
<1>8. CASE LowBoundary
  BY <1>8 DEF LowBoundary, PutUChar
<1>9. CASE ClearCoulomb \/ UpdateSoc
  BY <1>9 DEF ClearCoulomb, UpdateSoc
<1>10. ASSUME NEW released \in SUBSET {"A", "B"}, Buttons(released) PROVE NvsInv'
  BY <1>10 DEF Buttons
<1> QED
  BY <1>1, <1>2, <1>3, <1>4, <1>5, <1>6, <1>7, <1>8, <1>9, <1>10
     DEF Next, Crash, TurnOff, Plug, OffTime, UserLeaves, PressPower, LoopReceiving, PowerOff, vars

(***************************************************************************)
(* The gauge                                                               *)
(***************************************************************************)

LEMMA NextReadInv == TypeOK /\ ReadInv /\ [Next]_vars => ReadInv'
<1> SUFFICES ASSUME TypeOK, ReadInv, [Next]_vars PROVE ReadInv'
  OBVIOUS
<1> USE DEF ReadInv, gauge, world, battery
<1>1. CASE Boot
  BY <1>1 DEF Boot, Setup
<1>2. CASE on' = on /\ pc' = pc /\ (on => UNCHANGED <<isEmpty, batteryCapacity, clearedAt, charge>>)
  BY <1>2
<1>3. CASE on' /\ pc' \in {"loop", "update", "soc", "buttons"}
  BY <1>3
<1>4. CASE UpdatePower
  <2>1. HighBoundary => charge = FullCharge /\ ~Low /\ CoulombData = FullCharge - clearedAt
    BY StandbyIsFull, PowerAssumption DEF HighBoundary, Low, CoulombData
  <2>2. isEmpty' = Low /\ UNCHANGED <<charge, clearedAt>>
        /\ (pc' = "saveCapacity" => HighBoundary /\ batteryCapacity' = CoulombData)
        /\ pc' \in {"saveCapacity", "lowBoundary"}
    BY <1>4 DEF UpdatePower
  <2>3. Low => charge = 0
    BY DEF Low
  <2> QED  BY <2>1, <2>2, <2>3
<1>5. CASE SaveCapacity
  BY <1>5 DEF SaveCapacity
<1>6. CASE SaveGauge
  BY <1>6 DEF SaveGauge
<1>7. CASE LowBoundary
  BY <1>7 DEF LowBoundary
<1>8. CASE ~on'
  BY <1>8
<1> QED
  BY <1>1, <1>2, <1>3, <1>4, <1>5, <1>6, <1>7, <1>8
     DEF Next, Crash, TurnOff, Plug, OffTime, UserLeaves, PressPower, LoopReceiving, LoopIdle,
         PowerOff, ClearCoulomb, UpdateSoc, Buttons, vars

\* The restarts that spoil the counter are those between save and clear.
LEMMA NextCountedFromEmpty ==
  TypeOK /\ ReadInv /\ CountedFromEmpty /\ [Next]_vars => CountedFromEmpty'
<1> SUFFICES ASSUME TypeOK, ReadInv, CountedFromEmpty, [Next]_vars PROVE CountedFromEmpty'
  OBVIOUS
<1> USE DEF CountedFromEmpty, gauge, world, battery, nvs, history
<1>1. CASE Boot
  BY <1>1 DEF Boot, Setup
<1>2. CASE Crash
  BY <1>2 DEF Crash, TurnOff, Setup
<1>3. CASE UpdatePower
  BY <1>3 DEF UpdatePower
<1>4. CASE SaveCapacity
  BY <1>4 DEF SaveCapacity
<1>5. CASE SaveGauge
  BY <1>5 DEF SaveGauge, PutUChar
<1>6. CASE LowBoundary
  BY <1>6 DEF LowBoundary
<1>7. CASE ClearCoulomb
  BY <1>7 DEF ClearCoulomb, ReadInv
<1>8. CASE PowerOff \/ UpdateSoc
  BY <1>8 DEF PowerOff, TurnOff, Setup, UpdateSoc
<1>9. ASSUME NEW released \in SUBSET {"A", "B"}, Buttons(released) PROVE CountedFromEmpty'
  BY <1>9 DEF Buttons
<1>10. ASSUME NEW elapsed \in 0 .. LoopTime + TypingTime, LoopIdle(elapsed) PROVE CountedFromEmpty'
  BY <1>10 DEF LoopIdle
<1>11. CASE UNCHANGED <<on, pc, gauge, nvs, clearedAt, uncleared>>
  BY <1>11
<1> QED
  BY <1>1, <1>2, <1>3, <1>4, <1>5, <1>6, <1>7, <1>8, <1>9, <1>10, <1>11
     DEF Next, Plug, OffTime, UserLeaves, PressPower, LoopReceiving, vars

LEMMA NextCapacityMeasured ==
  TypeOK /\ ReadInv /\ CountedFromEmpty /\ CapacityMeasured /\ [Next]_vars => CapacityMeasured'
<1> SUFFICES ASSUME TypeOK, ReadInv, CountedFromEmpty, CapacityMeasured, [Next]_vars
             PROVE  CapacityMeasured'
  OBVIOUS
<1> USE DEF CapacityMeasured, gauge, nvs, history
<1>1. CASE Boot
  BY <1>1 DEF Boot, Setup
<1>2. CASE Crash \/ PowerOff
  BY <1>2 DEF Crash, PowerOff, TurnOff, Setup
<1>3. CASE UpdatePower
  <2>1. HighBoundary => charge = FullCharge
    BY StandbyIsFull DEF HighBoundary
  <2>2. CASE HighBoundary /\ batteryGaugeState = "lowBoundary"
    <3>1. batteryCapacity' = FullCharge - clearedAt /\ nvsCapacity' = nvsCapacity
          /\ uncleared' = uncleared /\ pc # "clear"
      BY <1>3, <2>1, <2>2 DEF UpdatePower, CoulombData
    <3>2. clearedAt = 0 \/ uncleared
      BY <2>2, <3>1 DEF CountedFromEmpty
    <3> QED  BY <3>1, <3>2, PowerAssumption
  <2>3. CASE ~(HighBoundary /\ batteryGaugeState = "lowBoundary")
    BY <1>3, <2>3 DEF UpdatePower
  <2> QED  BY <2>2, <2>3
<1>4. CASE SaveCapacity
  <2>1. batteryCapacity = FullCharge - clearedAt /\ nvsCapacity' \in {nvsCapacity, batteryCapacity}
        /\ batteryCapacity' = batteryCapacity
    BY <1>4 DEF SaveCapacity, PutUChar, ReadInv
  <2>2. CASE clearedAt = 0 /\ nvsCapacity' = batteryCapacity
    BY <2>1, <2>2, PowerAssumption
  <2>3. CASE ~(clearedAt = 0 /\ nvsCapacity' = batteryCapacity)
    <3>1. uncleared' = uncleared
      BY <1>4, <2>3, Zenon DEF SaveCapacity, TypeOK
    <3> QED  BY <2>1, <3>1
  <2> QED  BY <2>2, <2>3
<1>5. CASE UNCHANGED <<batteryCapacity, nvsCapacity, uncleared>>
  BY <1>5
<1> QED
  BY <1>1, <1>2, <1>3, <1>4, <1>5
     DEF Next, Plug, OffTime, UserLeaves, PressPower, LoopReceiving, LoopIdle,
         SaveGauge, LowBoundary, ClearCoulomb, UpdateSoc, Buttons, vars

(***************************************************************************)
(* External power                                                          *)
(***************************************************************************)

\* The two timers run alike, and the one of the power stops at no charge.
LEMMA TimeRuns ==
  ASSUME TypeOK, PluggedInv, on, NEW elapsed \in Nat, TimePasses(elapsed)
  PROVE  /\ plugged' > 0 => (isPowered \/ (source # "none" /\ charge' < FullCharge)) /\ charge' > 0
         /\ plugged' <= plugged + elapsed
         /\ sincePowerUpdate' < POWER_UPDATE_PERIOD => sincePowerUpdate' = sincePowerUpdate + elapsed
  BY PowerAssumption DEF TypeOK, TimePasses, Least

LEMMA NextPluggedInv == TypeOK /\ ReadInv /\ PluggedInv /\ [Next]_vars => PluggedInv'
<1> SUFFICES ASSUME TypeOK, ReadInv, PluggedInv, [Next]_vars, on' PROVE PluggedInv'
  BY DEF PluggedInv
<1> USE PowerAssumption DEF KeptOn, Expired, isPowered, Charging
<1>1. CASE Boot
  BY <1>1 DEF Boot, Setup, PluggedInv
<1>2. CASE Plug
  BY <1>2 DEF Plug, PluggedInv, TypeOK, timers, battery
<1>3. ASSUME NEW elapsed \in 0 .. LoopTime + TypingTime, LoopReceiving(elapsed) PROVE PluggedInv'
  <2>1. on /\ pc' = "loop" /\ sinceReset' = 0 /\ TimePasses(elapsed) /\ UNCHANGED <<battery, source>>
    BY <1>3 DEF LoopReceiving
  <2>2. elapsed \in Nat
    OBVIOUS
  <2>3. sincePowerUpdate \in Nat /\ plugged \in Nat /\ plugged' \in Nat /\ sincePowerUpdate' \in Nat
    <3>1. plugged' \in 0 .. POWER_UPDATE_PERIOD + LoopTime + TypingTime
          /\ sincePowerUpdate' \in 0 .. POWER_UPDATE_PERIOD
      BY <2>1, <2>2, TimeTypes
    <3> QED  BY <3>1 DEF TypeOK
  <2>4. plugged' > sincePowerUpdate' /\ sincePowerUpdate' < POWER_UPDATE_PERIOD => KeptOn'
    BY <2>1, <2>2, <2>3, TimeRuns DEF PluggedInv, battery
  <2> QED  BY <2>1, <2>2, <2>4, TimeRuns DEF PluggedInv
<1>4. ASSUME NEW elapsed \in 0 .. LoopTime + TypingTime, LoopIdle(elapsed) PROVE PluggedInv'
  <2>1. on /\ pc = "loop" /\ TimePasses(elapsed) /\ UNCHANGED <<battery, source>>
        /\ elapsed \in 0 .. IF typed THEN TypingTime ELSE LoopTime
    BY <1>4 DEF LoopIdle, Duration
  <2>2. elapsed \in Nat
    OBVIOUS
  <2>3. sincePowerUpdate \in 0 .. POWER_UPDATE_PERIOD /\ plugged \in Nat /\ plugged' \in Nat
        /\ sincePowerUpdate' \in 0 .. POWER_UPDATE_PERIOD /\ sinceReset \in Nat
    <3>1. plugged' \in 0 .. POWER_UPDATE_PERIOD + LoopTime + TypingTime
          /\ sincePowerUpdate' \in 0 .. POWER_UPDATE_PERIOD
      BY <2>1, <2>2, TimeTypes
    <3> QED  BY <3>1 DEF TypeOK
  <2>4. plugged' > sincePowerUpdate' /\ sincePowerUpdate' < POWER_UPDATE_PERIOD => KeptOn'
    BY <2>1, <2>2, <2>3, TimeRuns DEF PluggedInv, battery
  <2>5. pc' \in {"update", "buttons"} /\ (pc' = "buttons" => sincePowerUpdate' # POWER_UPDATE_PERIOD)
    BY <1>4 DEF LoopIdle
  <2>6. Expired' => plugged' < POWER_UPDATE_PERIOD + LoopTime
    <3>1. sinceReset' = Least(sinceReset + elapsed, POWER_OFF_TIMEOUT)
      BY <1>4 DEF LoopIdle
    <3>2. Expired' => sinceReset # 0
      BY <2>1, <2>2, <3>1 DEF Least
    <3>3. sinceReset # 0 => ~typed /\ sincePowerUpdate < POWER_UPDATE_PERIOD
                            /\ plugged <= sincePowerUpdate
      BY <2>1, <2>3 DEF PluggedInv
    <3>4. plugged' <= plugged + elapsed
      BY <2>1, <2>2, TimeRuns
    <3> QED  BY <2>1, <2>2, <2>3, <3>2, <3>3, <3>4
  <2> QED  BY <2>1, <2>2, <2>3, <2>4, <2>5, <2>6, TimeRuns DEF PluggedInv
<1>5. CASE UpdatePower
  <2>1. on /\ pc = "update" /\ sincePowerUpdate' = 0 /\ pc' \in {"saveCapacity", "lowBoundary"}
        /\ UNCHANGED <<sinceReset, typed, world, history>>
    BY <1>5 DEF UpdatePower
  <2>2. isPowered \/ Charging => KeptOn'
    BY <1>5 DEF UpdatePower, HighBoundary, Standby
  <2> QED  BY <2>1, <2>2 DEF PluggedInv, world, history
<1>6. CASE ClearCoulomb
  <2>1. charge = 0 /\ plugged = 0
    BY <1>6 DEF ClearCoulomb, ReadInv, PluggedInv, TypeOK
  <2> QED  BY <1>6, <2>1 DEF ClearCoulomb, PluggedInv, TypeOK, timers, history
<1>7. CASE SaveCapacity \/ SaveGauge \/ LowBoundary \/ UpdateSoc
  BY <1>7
     DEF SaveCapacity, SaveGauge, LowBoundary, UpdateSoc, PluggedInv, timers, battery, world, history
<1>8. ASSUME NEW released \in SUBSET {"A", "B"}, Buttons(released) PROVE PluggedInv'
  <2>1. on /\ pc = "buttons" /\ pc' = "loop"
        /\ UNCHANGED <<sincePowerUpdate, battery, source, charge, history>>
        /\ typed' = ("A" \in released)
        /\ sinceReset' = IF released # {} \/ KeptOn THEN 0 ELSE sinceReset
    BY <1>8 DEF Buttons
  <2>2. typed' => released # {}
    BY <2>1
  <2> QED  BY <2>1, <2>2 DEF PluggedInv, battery, history
<1>9. CASE UNCHANGED <<on, pc, timers, battery, source, charge, plugged>>
  BY <1>9 DEF PluggedInv, timers, battery
<1> QED
  BY <1>1, <1>2, <1>3, <1>4, <1>5, <1>6, <1>7, <1>8, <1>9
     DEF Next, Crash, TurnOff, OffTime, UserLeaves, PressPower, PowerOff, vars, world, history

(***************************************************************************)
(* The theorems                                                            *)
(***************************************************************************)

LEMMA InitIInv == Init => IInv
<1> SUFFICES ASSUME Init PROVE IInv
  OBVIOUS
<1>1. NvsInv /\ ReadInv /\ CountedFromEmpty /\ CapacityMeasured
  BY DEF Init, NvsInv, ReadInv, CountedFromEmpty, CapacityMeasured
<1>2. PluggedInv
  BY PowerAssumption DEF Init, PluggedInv
<1> QED  BY <1>1, <1>2, InitTypeOK DEF IInv

LEMMA NextIInv == IInv /\ [Next]_vars => IInv'
  BY NextTypeOK, NextNvsInv, NextReadInv, NextCountedFromEmpty, NextCapacityMeasured,
     NextPluggedInv DEF IInv

\* The timers, the capacity (a byte of NVS) and the percentage stay in range, whatever
\* the counter of the PMU says.
THEOREM TypeCorrect == Spec => []TypeOK
  BY InitIInv, NextIInv, PTL DEF Spec, IInv

\* A loop ends with memory and NVS alike, at whatever step an earlier one was cut off and
\* whichever of its saves failed, except for a key whose last save since the boot did.
THEOREM NothingToLose == Spec => []NvsIsCurrent
<1>1. IInv => NvsIsCurrent
  BY DEF IInv, NvsInv, NvsIsCurrent
<1> QED  BY <1>1, InitIInv, NextIInv, PTL DEF Spec

\* The capacity is the default or a measured one, whichever saves failed, unless a
\* restart falls between the save of the low boundary and the clear of the counter.
THEOREM MeasuredOrDefault == Spec => []CapacityMeasured
  BY InitIInv, NextIInv, PTL DEF Spec, IInv

\* No timeout for a device with VBUS, or a charge from the other input, and some charge,
\* whatever the periods are, as long as no loop lasts for the timeout.
THEOREM PowerKeepsOn == Spec => []NoTimeoutWhilePlugged
<1>1. IInv => NoTimeoutWhilePlugged
  BY DEF IInv, PluggedInv, NoTimeoutWhilePlugged
<1> QED  BY <1>1, InitIInv, NextIInv, PTL DEF Spec
=============================================================================
