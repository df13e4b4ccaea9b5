# Verification of BlePasswordTyper

TLA+ specifications of the firmware and of the script that configures it, the
TLC runs that check them on small instances, and the TLAPS proofs of what holds
for every size.

BlePasswordTyper is an M5StickC that acts as a Bluetooth keyboard and types a
stored password when a button is pressed. The password is sent to it over the
keyboard's own LED output reports: a PowerShell script toggles Num Lock (clock),
Scroll Lock (data) and Caps Lock (progress), and the device decodes the LED
reports that Windows sends.

    script -> lock LEDs -> LED output reports -> onWrite (host task)
           -> ring buffer -> loop() -> decoder -> password in RAM and NVS
    button A -> printf -> write -> key reports -> computer
    PMU -> power update, gauge, power-off timeout -> device off

## 1. Inventory

| Component | Code | State | Operations | Status |
|---|---|---|---|---|
| LED report buffer | `lib/BleKeyboard/BleKeyboard.cpp`, class `BleKeyboardLedStateBuffer` | `head`, `tail`, `count`, `buffer[100]`, shared by two tasks without a lock | `push`, `pop` | modelled |
| LED frame decoder | `lib/KeyboardLedSignaling` | state, bit accumulator, byte counter, payload, last clock edge | `Update`, `reset` | modelled |
| Configurator script | `App/PasswordTyperConfigurator.ps1` | the lock LEDs of the computer, its own position | the frame: start, length, bytes, stop | modelled |
| Configuration path | `src/main.cpp`, `setup()` and the first part of `loop()` | `passwordSequence`, key `PassSeq` in NVS, `keyboardLedState` | take a report, update the decoder, store a payload (which may fail), boot | modelled |
| BLE keyboard | `lib/BleKeyboard/BleKeyboard.cpp` | `_isConnected`, the two subscription flags, the reports under way | connection and subscription callbacks, `printf`/`write`, `mute`, each report down to its notification | partly: `typeKey`, `releaseAllKeys` and the setters have no caller |
| Keyboard layout | `lib/BleKeyboard/KeyLayouts.h`, `write`, `keycode_to_*` | none | a character to a key and modifiers | partly: the ASCII table of the French layout, which is what is built |
| Power management | `src/main.cpp`, the second part of `loop()` | battery and gauge state, two keys in NVS, the timers | power update, the saves (which may fail), power off, what keeps the device on | modelled |
| Main loop, buttons, status LED | `src/main.cpp`, `Button.cpp` of the M5StickC library | `_state`, `_changed`, `_lastChange`, `_pressTime`; LED mode, state and timer | `read`, `wasReleased`, `ledUpdate`, the order of an iteration | modelled |
| Screen | `src/main.cpp` | what was drawn, `klsCountSave`, `lastScreenUpdate` | draw the progress, draw the status | partly: the lines of the status screen are formatting |
| HID report descriptor | `lib/BleKeyboard/HidDescriptor.h` | constant | none | not modelled: data for the computer |
| NimBLE-Arduino | `lib/NimBLE-Arduino` | connections, subscriptions, advertising, whether the host is in step with its controller | callbacks, the start of the advertising, the reset of the host, `notify` and the mbuf it needs | partly, as the environment of `BleKeyboard` |
| M5StickC library | `lib/M5StickC` | PMU registers | readings, coulomb counter, button latch | partly, as the environment of `PowerManager`; its `Button` is a component above |
| M5GFX | `lib/M5GFX` | | | not modelled: third-party, output only |

**Interactions.** Two tasks share the device: the NimBLE host task runs the
callbacks (`onConnect`, `onDisconnect`, `onSubscribe`, `onWrite`), the Arduino
task runs `loop()`. They share the ring buffer and the three flags of
`BleKeyboard`. `loop()` takes at most one LED report per iteration, hands clock
and data LED to the decoder, stores a complete payload, and only if no frame is
being received goes on with power, buttons and screen. NVS survives restarts:
the password, the capacity of the battery and the state of the gauge.

**What is hard here.** The ring is lock-free, and an edge that is lost or taken twice
shifts every later bit of a frame that has no checksum. The device sees LED *changes*
only, so it can disagree with the computer about a LED. Timeout and sync delay race: a
second run of the script must find the decoder ready. A connection can break between a
press and its release. The Bluetooth host can reset itself while a connection breaks
or while the device advertises, and its events reach the callbacks for some reasons of
a reset and not for others. The battery gauge is a protocol of several NVS writes and
a hardware counter, with a restart possible between any two and no look at the result
of a write. A report passes four tests on its way, and the link may be another one at
each. The contact of a button bounces while the loop reads it every few microseconds,
or not for seconds while it types, and `millis()` wraps. The hazards in `PROJECT.json`
give the lines.

**What makes each component correct.**

- buffer: a FIFO of 99 reports, in order, each once, no slot used by both sides;
- decoder: what it holds is what the bits of the frame say; it completes at the
  announced length and always leaves a frame;
- configuration path: a run of the script that nothing disturbs ends with its
  payload stored, whatever happened before, and RAM and flash agree;
- buttons: a press is handled at most once, and once if nothing suspends the loop;
- LED: one that is to blink does;
- screen: during a frame it shows that frame, and after it the status again;
- keyboard: no key stays down, a ready link gets the whole text, the device can
  always be found again;
- layout: a character is typed as the computer shows it;
- power: the saved capacity is a measured one, and the device turns itself off
  exactly when it should.

## 2. Modules

| Module | Models | State and actions in terms of the code |
|---|---|---|
| `LedQueue` | what the ring promises | the report handed to `push` and a sequence; `Offer`, `Push`, `Refuse`, `Pop` |
| `LedStateBuffer` | `push` and `pop` | one action per access to shared memory: `PushFull`, `PushRoom`, `PushStore`, `PushPublish`, then the load and the store of `count++`; `PopFound` to `PopCountStore` likewise. `wpc` and `rpc` are the positions in the two functions |
| `KeyboardLedSignaling` | the decoder | `Update` is the whole function: `SampleClock`, the timeout, the handler of the state. `Reset` is `reset()` |
| `PasswordTyperConfigurator` | the script | a run is the sequence of its lock key commands (`SendStringPayload`, `SendByte`, ...); `RunCommand` executes one, `WakeUp` ends the sync delay |
| `Screen` | the two screens, in the loop around the decoder | EXTENDS the decoder: `Iterate` is an update of the decoder followed by `DrawProgress` or `DrawStatus`, `Stored` is `reset()` and what is drawn after it |
| `LedLink` | the whole way of a password | composes the script, `LedQueue`, the decoder and the flash; adds connection, restart, failed saves, stray lock keys and time |
| `Button` | `read()` and `wasReleased()` | the finger and the contact (`Press`, `LetGo`), `Millisecond`, and `Read`: `ReadDebouncing` or `ReadLevel`; times are the unsigned differences the code computes, which wrap |
| `MainLoop` | the schedule of `loop()` | EXTENDS `Button`; an iteration is `LoopReceiving` or `LoopIdle`, both of which read the button and call `LedUpdate`; `busy` is the time typing blocks it |
| `BleKeyboard` | callbacks and reports | `Connect`, `Subscribe`, ... are the host task; `StartAdvertising` is `NimBLEAdvertising::start`, whose result the events ignore, `stack` the state of the host and `synced` what `NimBLEDevice` knows of it; `ResetStack` and `Resync` are the two ends of `ble_hs_reset`, with the events of a broken link between them; `text` is what is left of the password, of which `WriteNext` takes a character and puts its reports into `outbox`, and `PushB` puts those of mute there; a report is `SkipReport`, or passes `SetReportValue` (the test of `isConnected()`), `FindSubscriber`, `CheckSecurity` and `SendNotification` or `NoBuffer`. The host task may step in between any two |
| `KeyLayout` | `printf`, `write`, table and masks | `Printf` formats, `Write` types one character on a French computer |
| `PowerManager` | the second part of `loop()` | `pc` is the position in `loop()`; `UpdatePower`, `SaveCapacity`, `SaveGauge`, `LowBoundary`, `ClearCoulomb`, `UpdateSoc` are the steps of a power update, `Buttons` and `PowerOff` the rest; `PutUChar` is a save, which may fail |
| `..._proofs` | | theorems and proofs |
| `MC...` | | the values TLC uses |

`LedLink` uses the abstract `LedQueue` in place of the ring: `LedStateBuffer` is
shown to implement it. Likewise `MainLoop` implements `Button!ButtonSpec`, what a
button does under a reader of which nothing is known. `Mut...` operators beside a
definition are deliberate faults; each shows that a property would notice a fault
of that kind.

**Abstractions.** Decoder: a byte is a function of its bits and `SizeOf` the number it
stands for; `millis() - _lastClockChange` is `silence`, cut off at the timeout, which
is all the code compares it with. `bits` and `gap` are history, recorded by `Record`
beside `Update`; `LedLink` instantiates the decoder without them. Script: the 2 ms
sleeps are shorter than a tick and are left out; the sync sleep is kept, and may last
longer than it says. Layout: characters and keys keep their numbers, keycodes their 16
bits, and the byte `write` reads its 8. Power: charge is counted in whole units of the
gauge and moves by at most one per loop, so that the fraction `GetCoulombData()` loses
in the `uint8_t` of the capacity is left out; the reads of the PMU in one update are
one step. The memory of a device that is off is given the values of its next start
(`TurnOff`). Keyboard: the radio link of a host that resets itself is taken to end
when the reset begins. Buttons: a tick is a millisecond, and a bouncing contact has
any level; the loop runs any number of times in a tick unless it is blocked, and
`presses`, `doubled`, `rested`, `unanswered` and `disturbed` are history. Main loop:
button B has the code of button A and is an input.

**Taken from the environment.** A disconnect event follows the unsubscribe events of
its connection (`NimBLEServer.cpp`, and the GAP code below it); `notify` drops a
report without a subscriber, without encryption or without an mbuf; the element of
`m_subscribedVec` it has found stays readable when the host task erases it, as the
vector never holds more than one; advertising stops with a connection, and whether the
controller starts it again is its choice (`StartAdvertising`); a reset of the host
ends a connection or the advertising with the reason of the reset, of which the
callbacks look for four (`"reset"`, as against `"error"`), and the controller answers
in the end; either input of the PMU charges the battery, and only one of them is the
VBUS that `main.cpp` takes for power; the PMU latches button presses until they are
read. Windows sends one LED report per change.

## 3. Runs

Passing runs (times with two workers):

| Run | Shows | States | Time |
|---|---|---|---|
| `led_buffer` | the ring interleaved step by step implements `LedQueue`; liveness of `pop` | 50 thousand | 5 s |
| `decoder` | all sequences of samples and delays, and what the screen shows of them; liveness of both | 8 thousand | 3 s |
| `led_link` | two runs of the script, with a disturbance anywhere: a stray lock key, a break, a failed save or a restart | 3.9 million | 105 s |
| `ble_keyboard` | typing against connection changes, resets of the host, refused advertising and missing mbufs | 203 thousand | 42 s |
| `key_layout` | all one-character passwords, all pairs of ASCII characters | 66 thousand | 4 s |
| `power_manager` | gauge, NVS and turning off, with restarts, failed saves and two kinds of external power anywhere | 654 thousand | 160 s |
| `main_loop` | a finger, a bouncing contact and a wrapping clock against a loop that frames suspend and typing blocks | 209 thousand | 35 s |

Violations, each a disagreement between the code and what the repository says:

| Run | What the counterexample shows |
|---|---|
| `boot_frame` | after a boot the initial `keyboardLedState = 0xFF` is a clock edge: the decoder enters Receiving although no report arrived, and the device shows "Configuration in Progress" until the timeout |
| `long_payload` | a payload of more than 255 bytes is sent without its length byte (`Send-Byte` takes a `[byte]`, the call fails, the script goes on) |
| `connected_is_safe` | a text typed as soon as `isConnected()` holds is lost until the computer has subscribed and encrypted |
| `types_table` | `<`, `>`, `` ` `` and `~` are not typed as the table says: `write` reads one byte of a 16-bit keycode |
| `percent` | the stored password is the format of `printf` |

**Properties.**

- `led_buffer`: `TypeOK`; `NoSlotRace` (push and pop never in one slot); `Fifo`
  (every step is one of `LedQueue` or a stutter); `FifoLive` (a report in the
  ring is taken).
- `decoder`: `DecodesFrame`, `CompletesExactly`, `ProgressInBar` (the progress
  bar stays in its frame), `NoStitchedFrame` (no rest of the timeout within a
  frame), `CompleteIsStable`, `ReceivingEnds`; `ScreenShowsFrame` (an abandoned
  frame leaves nothing on the screen of the next one), `StatusReturns`.
- `led_link`: `CleanRunStored`, `CleanRunEndsIdle`, `RamMatchesFlash`.
- `ble_keyboard`: `NoStuckKey`, `TypedWhole`, `AdvertisedOrConnected`,
  `ReachableAgain`, `TypingEnds`.
- `main_loop`: `NoPressLost`, `OneReportPerPress` (a press is one release, however
  the contact bounces), `Blinks`.
- `key_layout`: `TypedAsStored`, `NoStrayAccent`.
- `power_manager`: `CapacityMeasured`, `NvsIsCurrent`, `NoTimeoutWhilePlugged`,
  `LeftAloneTurnsOff`, `PressTurnsOff`.

What the preconditions exclude is part of the result. A run of the script is *clean*
if no lock key, break, restart or dropped report falls into it, the loop keeps up with
it, the script does not pause for the timeout within the frame, and at its start the
device and the computer agree about the clock LED (`ClockInSync`). The last one can
really fail, after a boot with Num Lock off or a dropped report: the start edge is
then none to the device, and the run is lost. `RamMatchesFlash` excepts a save that
failed, of which nobody is told, until the next save or restart. `NoStuckKey` excepts
a release that found no mbuf, until the next report. `NoPressLost` excepts a press
during which a frame was received or the loop was blocked, a finger that moves again
before the contact has settled, and the one hold time of `2^32 - 1` ms that
`wasReleased()` does not report: each does lose the press. `AdvertisedOrConnected` and
`ReachableAgain` except a device whose controller refused to start the advertising:
the result is ignored (`NimBLEServer.cpp:488` and `:541`), and nobody tries again
before the next reset of the host, so such a device does stay unreachable.
`CapacityMeasured` excepts one restart, that between saving the low boundary and
clearing the counter, which does spoil the next capacity; saves that fail do not.
`NvsIsCurrent` excepts a key whose last save since the boot failed (`main.cpp:201-204`
and `:218-220` do not look): a restart then loses what was measured, or that the
battery was empty, until the key is saved again. `NoTimeoutWhilePlugged` leaves out a
battery that reads as low: such a device does turn itself off on the charger; and a
battery that the other input than VBUS has charged, which is `discharging` to the
code. `LeftAloneTurnsOff` needs the device to be without external power, and
`PressTurnsOff` lets a long press latched together with a short one swallow it
(`GetBtnPress() == 0x02`).

**Bounds, and why they are enough.**

- Bytes of two bits instead of eight (`BITS_PER_BYTE`, `MaxByte` = 3): sizes 0
  to 3 occur, and so does the wrap of `_byteCount` (at a payload of 3, for 255).
- `led_link`: `ClockTimeout` 2 and `SyncDelay` 4 ticks, the code's ratio of 1 s to
  2 s: shorter than, as long as and longer than the timeout all occur. `decoder`
  has `ClockTimeout` 3 and `SCREEN_UPDATE_PERIOD` 2, so that the status can be
  drawn and not drawn between two frames. No other comparisons are made.
- Ring: `SIZE` 4 lets the indices wrap and three reports wait; `CountMod` 2 lets
  the counter wrap, which no property depends on. `Capacity` 2 in `LedLink` makes a
  full buffer common.
- `Payloads` lists the payloads of the first and of the second run of the script:
  one byte, then one byte or none. `MaxFaults` 1: a disturbance at every point of
  either run; several in one run only make it unclean once more. A dropped report,
  a slow loop and a slow script are not counted as disturbances and may happen any
  number of times. `StartLeds` lists the LEDs lit at first.
- `MaxLinks` 3 connections and `MaxPushes` 3 buttons: a text can begin on one
  connection, go through a second and end on a third. `MaxDrops` 2 reports without
  an mbuf: the press and the release, of one report or of both. The password has a
  double character and one that is not typed.
- Buttons: `DEBOUNCE_MS` and `MaxBounce` 2, `TimeModulus` 8: the contact may bounce
  for all of the debounce time, and the clock wraps within a press, and while the
  loop is blocked. The LED's periods are 3 and 2, the times the loop is blocked up
  to 4: longer and shorter than a period.
- Layout: passwords of one character (all 255) and of two (all ASCII pairs): an
  accent reaches over one character.
- Power: an update period of 2 and a timeout of 3 ticks, with loops of up to 1 tick and
  typing of up to 2: a loop that types lasts as long as a whole update period and not
  as long as the timeout, as in the code. A battery that holds 2 units is empty, half
  full and full; a wrong capacity (1), a measured one (2) and the default (3) can be
  told apart. Any number of saves may fail. Loops last at most `LoopTime`, or `TypingTime`
  after a typed password; 255 characters take about 10 s, less than the 30 s of
  the timeout (`PowerAssumption`). No other counter is bounded: the timers are
  cut off where the code stops to distinguish them.
- `CHECK_DEADLOCK FALSE` is used where the system may stop: a text that is
  typed, a keyboard with its bounds used up, a device that is off for good.

**Fairness.** The ring: both tasks are scheduled, and the loop calls `pop` in
every iteration. The decoder and the screen: the loop goes on, and `millis()`
advances between iterations, until the clock has rested for the timeout and the
status is shown, if there is no frame then (`IterateLater`); nobody has to send
another edge. The link has
none: that it comes to rest is what `ReceivingEnds` says of its decoder and
`FifoLive` of its ring. The keyboard: the loop sends the reports it began; the
stack delivers the events of a broken link, and a reset ends, as `ble_hs_sync` is
tried again by a timer until the controller answers; nothing makes a computer connect,
subscribe or encrypt, and nothing makes an mbuf free. The main loop: time passes
and the loop runs, but a frame may last for ever and no finger has to move.
Power: the steps of the loop that follow one another go on; an iteration without
a frame, with time passing, is strongly fair, as `ReceivingEnds` says that frames
end.

## 4. Proofs

| Module of proofs | Theorems |
|---|---|
| `LedStateBuffer_proofs` | `TypeCorrect`: `Spec => []TypeOK`; `SlotsDisjoint`: `[]NoSlotRace`; `RingIsFifo`: `Spec => Fifo` |
| `KeyboardLedSignaling_proofs` | `TypeCorrect`: `[]TypeOK`; `ProgressBounded`: `[]ProgressInBar`; `FramesAreContiguous`: `[]NoStitchedFrame`; `CompletePayloadKept`: `CompleteIsStable`; `FrameDecoded`: `[]DecodesFrame`; `CompletedInTime`: `[]CompletesExactly`; of the screens, `ImplementsDecoder`: `ScreenSpec => Spec` (of the decoder) and `FrameIsShown`: `[]ScreenShowsFrame` |
| `PasswordTyperConfigurator_proofs` | lemmas about the commands of the script, which `LedLink_proofs` cites |
| `LedLink_proofs` | `TypeCorrect`: `[]TypeOK`; `SavedIsTyped`: `[]RamMatchesFlash`; with `ShortPayloads`, `RunStored`: `[]CleanRunStored` and `RunEndsIdle`: `[]CleanRunEndsIdle` |
| `MainLoop_proofs` | of the button, `ButtonTypeCorrect`: `ButtonSpec => []ButtonTypeOK` and `ReportedOnce`: `[]OneReportPerPress`; of the loop, `LoopTypeCorrect`: `[]TypeOK`; `ImplementsButton`: `Spec => ButtonSpec`; `HandledOnce`: `[]OneReportPerPress`; `PressAnswered`: `[]NoPressLost` |
| `BleKeyboard_proofs` | `TypeCorrect`: `[]TypeOK`; `AdvertisedWhenAlone`: `[]AdvertisedOrConnected`; `KeysReleased`: `[]NoStuckKey`; `PasswordArrives`: `[]TypedWhole` |
| `KeyLayout_proofs` | `TypeCorrect`: `[]TypeOK`; `PasswordShown`: `[]TypedAsStored`; `NeighboursKept`: `[]NoStrayAccent` |
| `PowerManager_proofs` | `TypeCorrect`: `[]TypeOK`; `NothingToLose`: `[]NvsIsCurrent`; `MeasuredOrDefault`: `[]CapacityMeasured`; `PowerKeepsOn`: `[]NoTimeoutWhilePlugged` |

**Ring**, for every `SIZE >= 2`, every `CountMod` and every set of reports. The
invariant `IInv` is `TypeOK /\ WriterInv /\ ReaderInv`. `NoSlotRace` is not
inductive: that the slots differ when `push` stores follows from what each side
saw earlier, which must survive the steps of the other. `WriterInv` keeps that
the slot after `head` was free when `push` looked: only `pop` moves `tail`, away
from it. `ReaderInv` keeps that `pop` found a report, and that `push` has not
overwritten the slot it copied. For the refinement, lemmas say what the
sequence of reports from `tail` to `head` becomes when a slot outside it is
written, when `head` advances (append) and when `tail` advances (tail of the
sequence); all other steps stutter.

**Decoder**, for every width of a byte, every `SizeOf` and every timeout.
`TypeOK` with `Counting`, which relates the byte counter, the length of the
payload and the announced size while receiving: without it the counter may
exceed the size. `gap` stays below the timeout because every edge within a frame
was compared with the timeout in the same `Update`. `DecodesFrame` and
`CompletesExactly` speak of `\div` and `%` of the number of bits; their invariant
`FrameInv` names quotient and rest instead: `Holds(n)` says that `n` whole bytes and
`bitIndex` bits have been sampled, and what the decoder then has. A bit makes
`Holds(n)` of `Holds(n)`, or `Holds(n + 1)` if it is the last of its byte
(`BitAdded`, `ByteCompleted`), also where `byteCount` wraps.

**Screen.** A step of the loop is one of the decoder or leaves it alone, so the
decoder's theorems hold of the loop. `ScreenShowsFrame` needs `CountInv`: while
receiving, the count that was drawn is the decoder's, and at any other time it is
none. A count drawn for a frame that was given up would otherwise suppress the
first draw of the next one.

**Script.** A run of the script is a sequence of commands that `FlattenSeq` puts
together bit by bit and byte by byte. `FlattenSeq` is a recursive function over the
length: `Flattened` proves by induction that there is such a function, and by another
one what its values are. The library's theorems about induction take an operator, so
both use `SetInduction`, which is stated of a set of numbers and follows from the
well-foundedness of `<`. Then the progress of a run is one of finitely many marks:
before the frame, `<<k, j>>` for byte `k` (0 is the length byte) of which `j` bits have
been sent, and done. `HostAt` says what a host at a mark has lit and still to run, and
`HostSteps` that each command leaves the mark alone or, if it is an edge of the clock,
moves it to the next.

**Link**, for every payload, capacity, timeout and number of faults. `RamMatchesFlash`
needs that what is in the flash is a C string, as a restart takes the password from
there, and that a C string makes itself again (`CStringTwice`).

`CleanRunStored` and `CleanRunEndsIdle` say what is so when the last report of an
undisturbed run has been taken; `RunInv` says what is so at every point of that run. At
first (`Early`) the script switches the clock off and sleeps. An old frame may still be
under way in the decoder, whose silence grows with the sleep as long as the loop keeps
up, so that it is given up before the sleep ends: this is where `ClockTimeout < SyncDelay`
is needed. Afterwards (`InFrame`) every report has its mark: the decoder is at the mark
of the last report taken (`DecoderAt`), each report in the buffer follows the one before
it (`Follows`), and the host is at the mark of the last one. A command appends a report
with its mark, an iteration takes the first (`DecoderSteps`), and the loop that keeps
up leaves no silence long enough for a timeout. When the buffer is empty and the script
has ended, the decoder's mark is the last: it has completed, with the payload.

Both theorems have the hypothesis `ShortPayloads`: no payload is longer than its length
byte can say. The script does not see to it, which is the finding of `long_payload`;
without it they are false.

**Button**, for every debounce time, every width of the clock and every contact
that settles within the debounce time. `OneReportPerPress` needs `DownIsPressed`
(a button that is down, for the finger or for `_state`, has an unreported press)
and `BounceIsIgnored`: if `_state` has already taken the last movement of the
finger while the contact still bounces, it did so at most `DEBOUNCE_MS` less the
rest of the bouncing ago, so that the pin is settled when it is looked at again.
That holds although `millis()` wraps, as the debounce time is less than the modulus.

**Main loop.** Every step of `MainLoop` is a step of `Button` or a stutter: the
loop reads a button no more than `Button` allows any reader to. So the theorem
about the button is one about the loop, whatever its periods and typing times.
`NoPressLost` is proved of a press that is `Pending`: not answered, with no frame and
no blocked loop since. `LagIsShort` bounds for how long the debounced state can differ
from the finger: while the contact bounces, and then until `sinceChange` has grown to
the debounce time, one tick more if the loop has not run yet in this one. So a finger
that rests for `SettleTime` is seen, and a pending press that is let go still has its
state down. The proof corrected `SettleTime`: a contact that does not bounce at all,
pressed in the millisecond in which the clock wraps, needs a tick more.

**Keyboard**, for every password, layout and number of connections, breaks, resets and
missing mbufs. `AdvertisedOrConnected` needs `LinkInv`: a stack that is in step with
its controller is known to be, so that the advertising can start, and there is no link
over one that is not. Both hold because a reset always ends with `onReset`, also when
no event brought its reason, before `onSync` looks at what the callbacks knew.
`OutboxInv` is the shape of the reports under way: a press and its release, or the
release. `KeysInv` says of a key that is down that the computer still listens to its
report, and that its release is under way or found no mbuf. `TextInv` says that the
text left to write is the end of the password, and `SteadyInv` what a computer on a
ready link has at each point between two characters; the lemmas on `Place` count the
characters that have a key.

**Layout**, for every stored password, of any length, every text printf may make of a
conversion and everything that may lie behind the table. The prover evaluates the table
(`TableOfSigns`, `TableOfCapitals`, `TableOfLetters`) and the computer's layout
(`PlainKeys`, `ShiftedKeys`, `AltGrKeys`), and for every key the masks (`Parts`), so that
`TableShows` says of each faithful character that its keycode shows it and is no accent.
`Formats` is a recursive function from the end of the text: `FormatsFrom` proves by
induction that there is one, and `FormatsItself` that it leaves a text without a percent
sign alone. Then `FaithfulInv` says that what is on the screen and what is still to write
make the password, and `HarmlessInv` that no accent waits and that there is no more to
come than there was.

**Power.** `NvsInv` gives for each position in the loop which of the two values NVS
has already, if its save did not fail; `ReadInv` what the update read and its later
steps rely on. `CapacityMeasured` needs `CountedFromEmpty`: a gauge that is past the
low boundary, in memory or in NVS, began to count at an empty battery; a failed save
leaves an older state that did so too. `PluggedInv` relates the time since the last
update, the time since the timer was reset and the time VBUS or a charge has been
there; it needs that an iteration is shorter than the timeout.

The assumptions are the named `ASSUME`s of the modules; TLC evaluates them in the
runs.

They say what the code has: a byte has a bit and a length byte a value, the
default password is a C string, an iteration and the typing of a password are
shorter than the 30 s of the timeout, a contact settles within the debounce time, the
byte that is sent for a number is taken for that number, and the script sleeps (2 s)
for longer than the decoder waits for an edge (1 s).

**Model-checked only.** Every invariant of a passing run is a theorem, and so are the
action property `CompleteIsStable` and the refinements; in all of them the instance TLC
checks is one among those the proof covers. Liveness (`FifoLive`, `ReceivingEnds`,
`StatusReturns`, `ReachableAgain`, `TypingEnds`, `LeftAloneTurnsOff`, `PressTurnsOff`,
`Blinks`) is out of the prover's reach, as is `ENABLED`, and stays with TLC.

## 5. Not modelled

- HID descriptor, M5GFX and the vendored libraries beyond what is named above;
  these libraries, with their fonts, drivers and tables, are nearly all of the
  repository's lines. Of the status screen, its lines and numbers.
- A build that reorders the store to the non-volatile `buffer[]` after the
  publication of `head`.
- A reset of the host without a reason (a reply of the controller with a wrong length
  gives 0): `ble_hs_reset` then calls no `reset_cb`, and `onSync` returns at once
  because `NimBLEDevice` was never told.
- An NVS that cannot be read at a boot, when the capacity becomes 80 and the gauge idle.
- Wear of the flash; the first boot with an NVS that cannot store the default
  password; the password in an NVS of an earlier version.
- `NimBLEService`, pairing and bonding below the events the callbacks see, and
  more than one connection.
- Bits of the PMU's interrupt status beside those of the power button
  (`GetBtnPress`, `AXP192.cpp:376`, returns all of them).
- A battery that reads as low while it charges: the device turns itself off, and
  no document says what it should do.
- A sender other than the script: lock keys that a user presses can form a frame.
  They are in the runs of `led_link`; nothing is promised about them.
- Caps Lock on the computer, which inverts the case of what is typed.
- The other layouts, which are not compiled, and the ISO 8859-1 tables, which
  `write` does not read.

## 6. Plan

Done: `LedQueue`, `LedStateBuffer`, `KeyboardLedSignaling`, `Button` and `MainLoop`,
`Screen`, `PasswordTyperConfigurator`, `LedLink`, `BleKeyboard`, `KeyLayout` and
`PowerManager`, each with its proofs.

Left: that the link over the ring of `LedStateBuffer`, not over `LedQueue`, implements
`LedLink`; and an abstract specification of the keyboard, which takes a text and delivers
a prefix of it, that `BleKeyboard` implements.
