# Verification of the UHF radio head

The program in `src/` is the firmware of an AN/ARC-164 UHF radio head for
flight simulators: an ATmega reads the contacts of the radio's front panel,
plays its tones, drives its frequency display and works as a USB keyboard for
the simulator. This directory holds TLA+ models of the program, the TLC runs
that check them on small instances, and theorems about them whose proofs TLAPS
checks. Source paths below are relative to the repository.

## 1. The system

One main loop (`src/main.c:147`) runs for ever. Each pass resets the watchdog
(two seconds), serves USB (`usbPoll`), reports to the host that no key is down,
handles a byte of the serial line, looks at the channel selector
(`processChannel`), reads one row of the key matrix and handles at most one key
of it (`processInputData`), and, when the flag `resend` is set, sends channel
and frequency to the display. Interrupt handlers of TIMER1, TIMER2, the serial
line and the USB driver run in between. There are no locks: everything is shared
through global variables, bit fields and hardware registers.

| Component | State | Operations | Hard behaviour |
|---|---|---|---|
| timers and tones (`timer.c`, `timer.h`, `uhf.h`, parts of `uhfProcessor.c`) | timer registers, `upperByte`, bit fields of `uhfControl` | `setT1Delay`, `setT1Pwm`, `setT2Delay`, `playTone`, `isrTimer1`, `isrTimer2`, busy wait of `setUhfOn` | two handlers against the main loop at every register write; one timer with two uses; bit fields shared without protection; watchdog |
| key matrix (`key.c`, `key.h`, `uhfKeyReader.c`) | multiplexer, `currentKeyRow`, two-bit debounce counters, `key_state`, `key_press` | `readKeys`, `get_key_short`, `switchToNextKeyRow`, `forcedReadFreq`, `forcedReadUhfState` | handlers move the row counter the scan goes by; bounces; a key is handled only if it is reported alone |
| channel selector (`uhf.h`, `key.c`, `processChannel`) | five debounced contacts, last code reported, `radio.channel`, `channelMemory` | `readChannel`, `get_channel`, `sendKeyStroke`, modes of the function selector | contacts of one Gray code that debounce on their own; another row read in place of the selector's; a code reported only once; the host sets a channel of its own |
| radio functions (`uhfProcessor.c`, `uhfKeyReader.c`, `usb.c`, `uhfInit.c`) | `radio`, `uhfKeyState`, `uhfControl`, `channelMemory`, operating mode, words of day | one handler per key, `processChannel`, resend check, data from the host, the terminal's `o` | long legal key sequences; a flag set in twenty places; values changed before they are used |
| USB keyboard (`usbKeys.c`, `usb.c`) | `lastData`, `isUsbPresent`, the interrupt endpoint and its data token | `sendUsbMessage` and its callers | slow, absent or vanishing host; muting; duplicate suppression; busy wait |
| USB driver (`usbdrv/`) | two receive buffers, transmit buffer, message pointer and length, two addresses | `usbPoll`, `usbProcessRx`, `usbBuildTxBlock`, the handler's transactions | handler between any two statements of `usbPoll`; SETUP repeated; transfers given up; bus reset |
| presets in EEPROM (`util.c`, `uhfInit.c`, `eeprom.h`) | arrays of nets and presets, operating mode | reads and block writes by host, LOAD and start-up; power loss | interrupted writes; channels outside the array; a variable behind an array's end |
| data of the host (`util.c`, `usb.c`) | three bytes of a request | `decompressRadioData`, `transmitToDevice` | masks and shifts |
| serial line and debug terminal (`serial.c`, `debug.c`) | `rxValue`, `serialStatus`, transmit register, `keyPoll` | receive handler, `debug`, waits for the register | one byte and one register shared without protection |
| SPI to the display (`spi.c`) | | | output only |

How they interact:

- The main loop calls the radio functions with what the scan reports; they call
  back into the scan: `setManual` and `setUhfOn` read all frequency rows at once
  and leave the row counter elsewhere, where the next pass reads the selector's
  contacts from another row.
- The radio functions start tones and delays. The handlers answer by
  `uhfControl`: `isrTimer1` clears `test` and sets `resend`, `isrTimer2` counts
  the phases of a tone in `audioCycle`.
- Every handler of a key sends a key stroke to the host through the driver's
  interrupt endpoint.
- The host sends channel and frequency over the control endpoint: `usbPoll`
  calls `transmitToDevice`, which writes a preset to EEPROM or replaces the
  channel and frequency that are shown.
- A byte on the serial line makes the main loop print, play tones, move the
  multiplexer or turn the radio on.

What makes each component correct, in its users' words: a tone ends, a status
text gives way to the frequency, and the test pattern after power-up lasts a
second; a switch that is moved is followed, a key that is not touched is not
seen, and the display shows the selected frequency; the channel is the knob's
and the simulator follows it; the display is never out of date; a key stroke
reaches the simulator once, and the key does not stay down; a request of the
host is answered completely and not told of before it is carried out; a preset
that was stored is there after a power loss; a typed command is carried out
once.

`PROJECT.json` lists the hazards that threaten this, at the lines where they
bite, with the properties that are about them.

## 2. Modules

| Module | What it is | State against the code |
|---|---|---|
| `UhfTimers` | timers, tones, delays, watchdog | registers by name (`TCCR1A` is `wgm10`, `com1a0`); `byte0` and `byte1` are the two bytes of `uhfControl` that handlers write; `pc` is the next register write of the main loop; `lost` notes that a store to `byte1` undid a handler's `resend` |
| `DebouncedKeys` | abstract: a key changes when its row was read differently four times in a row; a press is reported once per release | `down`, `run`, `armed` |
| `KeyScan` | the scan bit by bit, implements `DebouncedKeys` | `ct0`, `ct1`, `key_state`, `key_press` as sets or functions on the wired positions; `latched` is what power, squelch and TEST have switched on; `digit` the position the radio has for each frequency selector; `Decoded` is what `forcedReadFreq` takes a contact for |
| `ChannelSelector` | the selector's contacts, its code, the channel and its stroke | the five contacts' `ct0`, `ct1`, `chan_state`; `prev_val`; `mux` is whether the next reading is of the selector's row; `pending` is host data that `processChannel` has not come to |
| `UhfRadio` | all handlers, `processChannel`, resend check, host data | the globals are the record `u`; C functions are operators from `u` to `u` |
| `KeyPipe` | abstract: reports reach the host in order and once each, but for one after the host's set-up | `last`, `flight`, `held`, `skew` |
| `UsbKeys` | `sendUsbMessage`, the places in a pass that call it, data token, host, cable, watchdog; implements `KeyPipe` | `lastData`, `endpoint`, `token`, `squelch`, `isUsbPresent`; `pc` is the stage of the pass |
| `UsbRequests` | requests of the control endpoint and the message that answers each | lengths of the descriptors; `Source` and `ReplyLen` are `usbMsgPtr` and `replyLen` |
| `RequestPipe` | abstract: requests are carried out one at a time, in order, and before their end is told | `stage`, `request`, `waiting`, `done` |
| `UsbDriver` | `usbPoll`, the handler, the host's control transfers; implements `RequestPipe` | the driver's variables by name; `pc` is the place in `usbPoll` |
| `RadioData` | packing of channel and frequency into three bytes, and back | operators |
| `RadioMemory` | nets, presets and operating mode in EEPROM; extends `RequestPipe`, so it is composed with the abstract driver | `eeprom` by slots of six bytes; `writing` is the block being written |
| `SerialLine` | receive handler, main loop, transmit register | `rxValue`, `rx`, `udr`; `todo` is the rest of a text |
| `MC...` | values for TLC | |
| `...Proofs` | theorems about the module of that name | |

Grain of the steps. In `UhfTimers` the main loop advances one register write at
a time and a write to a bit field takes two steps, a load and a store, because
`uhfControl`'s fields share bytes and the handlers write the same bytes.
Handlers run with interrupts off and are one step. In `UsbDriver` the same
holds of `usbPoll`: a step is what happens between two writes the handler looks
at, and the handler's step is one transaction with the host. In `SerialLine`
the test of the transmit register and the write to it are two steps, as are
clearing the flag and reading the byte. In `KeyScan` and `UhfRadio` nothing but
the main loop (and, between passes, the end of a delay) writes what is
modelled, so half a pass is a step: reading and handling in the one, channel
selector and keys in the other. In `ChannelSelector` a pass is a step, the
passes of a round that do not read the selector's row being any number
(`QuietPass`, `setPreset`, `setGuard`) before the one that ends the round, and
host data comes before any of them. In `UsbKeys` a step goes from one call of
`sendUsbMessage` to the next, and its busy wait is a place of its own. In
`RadioMemory` a block is begun and ended in two steps, with the host and power
loss in between.

What each module leaves to another. `UhfTimers` does not say which key is
pressed when: any caller of `playTone`, `display` and `setTest` may be next,
and `PressTone` stands for all callers of `playTone`. `KeyScan` only handles
the keys that act on the scan or that hold. In `UhfRadio` any key may be
reported in any pass, which is more than the scan allows, a preset read from
EEPROM is any frequency, and a timer is only the question whether a text's delay
is under way. `UhfRadio` notes key strokes in `sent` without muting; `UsbKeys`
lets any stroke come at any stage. `RadioMemory` has a display of its own that
`Dial` sets to any channel and frequency. `UsbKeys` knows of the control
endpoint only that a request waits, and that the host has configured the radio.

External parts. The AVR timers, the contacts, the USB host, the watchdog, the
UART and power are not in `src/`; they are modelled from how the code programs
them, and marked external in the map. Facts used: in CTC mode TIMER1 matches
`OCR1A` and sets `OCF1A`; in a PWM mode the compare flag is set again and again;
writing ones to `TIFR` clears flags, so that `TIFR |= flag`, which reads it
first, clears all of them; a watchdog reset sets registers and variables as at
power-up; a write to a full `UDR0` is ignored; a host repeats a SETUP whose
acknowledgement it misses, and takes a data packet with the wrong token for a
repetition.

## 3. Runs

All runs finish on two workers in a few seconds to about two and a half minutes.

| Run | Shows | Result |
|---|---|---|
| `timers` | tones, texts, TEST, squelch and power switch against both handlers | passes: `NoStuckTone`, `LateTestHasTone`, `ToneEnds`, `TextGivesWay` |
| `timers_init_test` | `uhfProcessor.c:156` "1 second init test" | violated |
| `scan` | moving MNL, power, squelch, TEST and frequency selectors, with resting positions next to open keys (222,403 states) | passes: `ImplementsDebouncedKeys`, `NoGhostKey`, `SwitchesFollowed`, `TestFollowsButton`, `SelectorShown`, `DialKept` |
| `selector` | the channel knob at all positions, with mode changes, power switch, terminal and host data (775,136 states) | passes: `ReportPassed`, `StrokesFollow`, `SelectorFollowed` |
| `radio` | all handlers in any order with host data and terminal (642,858 states) | passes: `DisplayCurrent`, `GuardShown`, `KnobKept` |
| `radio_store` | `uhfProcessor.c:255` "check for ch 20 - 5" | violated |
| `usb` | strokes through muting, slow host, unplugging, requests, watchdog (2,916 states) | passes: `NothingSwallowed`, `ImplementsKeyPipe`, `StrokeArrives`, `KeysReleased`, `LoopGoesOn` |
| `usb_stuck` | `main.c:153` "releases key press" | violated |
| `usb_hang` | `usbKeys.c:30` "detection if USB connected done in main loop" | violated |
| `driver` | control transfers with repeated SETUP, giving up, bus reset and restart (762,601 states) | passes: `AddressKept`, `ReplyInOrder`, `StatusMeansDone`, `ImplementsRequestPipe`, `TransferEnds` |
| `memory` | presets from host and LOAD, with power loss (612,146 states) | passes: `PresetKnown`, `NetsKept`, `ModeValid` |
| `serial` | receive handler against the main loop's texts (38,732 states) | passes: `NewestTaken`, `OncePerByte`, `TextComplete`, `Answered` |

### Bounds, and why they are enough

- `timers`: a half second is two ticks (`HalfSec = 1`), a second three, the
  longest times four, the watchdog period six. What matters is their order,
  that a tone's phase and a delay can end in either order, and that a tone can
  outlast the watchdog; all of that happens. All six tones are there. A pass of
  the main loop outside its busy wait takes less than a tick, so a tick falls
  at most once in it; a tick is at least tens of milliseconds.
- `scan`: sixteen rows become five. A row without a contact that moves only
  makes a round of the scan longer. The rows kept are those a jump starts from,
  ends at or reads wrongly: MNL's, which is also the one `forcedReadUhfState`
  ends at, TEST's, the last frequency row, the row behind it, and those of power
  and squelch. There are two frequency selectors with two positions each, the
  first and another one, because the program decodes these two differently.
  What moves together is one of four sets (`MCUses`): the switches that make the
  scan jump, with open keys beside them; TEST and MNL, each with a selector's
  position in its row; and a selector from one position to the other. Contacts
  move, and so bounce, between any two steps.
- `selector`: all twenty positions and all five contacts are there, so that what
  the run says of codes is complete. The knob turns by at most one position
  between two readings of its row; turned faster, codes of positions that were
  never there do come up (from 4 over 6 to 8: channel 11, or no channel).
  `MaxWrong = 3` readings of another row can follow each other: `setManual` and
  `setUhfOn` each cause one, an `o` typed at the terminal is a third. The row
  read instead shows one closed contact. The host sends channel 7 at any time
  and in any mode: with the knob at any of the twenty positions this is the
  radio's own channel, a neighbour's and a distant one. Two
  channels of the host take the run beyond five minutes, so that one that
  follows another is left to the theorems, which hold for every set of channels
  from 0 to 31.
- `radio`: one selector position, 20, or none, since 20 is the position
  with the most special cases (operating mode, word of day, FMT CHG); a first
  digit that is a frequency and one that is the net code A; last digits that
  select VEROP and FMT CHG; one channel from the host. The theorems of section 5
  hold for all digits and channels.
- `usb`: two channel strokes, a key stroke, MAIN and GUARD. `sendUsbMessage`
  compares strokes for equality only. Nothing is bounded in the state: the
  endpoint holds one report and the busy wait another.
- `driver`: five requests: a reply of 18 bytes, whose last packet is short; a
  report of 8 bytes for which 64 are asked, so that an empty packet must follow;
  SET_ADDRESS; SET_CONFIGURATION; and a SET_REPORT with data. Each of the host's
  three kinds of transfer and each way to end a reply is among them. The host's
  steps and its faults are not bounded.
- `memory`: one net and two presets (`MAX_FMT = 1`, `MAX_CHANNELS = 2`), two
  frequencies that differ in every kind of digit, five requests, among them two
  that store different frequencies in one preset. Channel 0, which the keys can
  reach, is the net's slot.
- `serial`: three commands: one that toggles `keyPoll`, one that clears it and
  prints a line, one that prints nothing. A text is cut to a byte and the end
  of a line: its other bytes are put in the same way. The clock is the board's
  16 MHz.

No run bounds a counter in a guard but `selector` (`MaxWrong`); every other
state space is finite as it stands.

### Fairness

The processor executes the program, takes interrupts that are enabled and
pending, time passes, and the watchdog bites: weak fairness of `Program`,
`IsrTimer1`, `IsrTimer2`, `Tick`, `WatchdogReset` in `UhfTimers`, of the two
halves of a pass in `KeyScan`, of `SelectorPass` and `NextRound` in
`ChannelSelector`, of `Loop`, `WatchdogReset` in `UsbKeys`, of `usbPoll` in
`UsbDriver`, of `Program` and `Transmitter` in `SerialLine`. A host that has
configured the radio polls its endpoint, which the USB standard demands, and it
does so between its requests too: strong fairness of `HostTakes`, because a
waiting request keeps the driver from answering. A host that has begun a control
transfer goes on with it, and a bus reset ends: weak fairness of `SetupAcked`,
`InData`, `InStatus`, `OutData`, `OutStatus`, `EndReset`.

No key has to be pressed, no contact has to move or to rest, no byte has to be
typed, no request to be made, and no cable is plugged or pulled of necessity:
liveness properties that need quiet say so in their premise (`<>[][~Keys]_vars`,
`<>[](h \in contact)`, `<>[](configured /\ ~squelch)`, `<>[][~Faults]_usbVars`,
`<>[][~Turn /\ ~Elsewhere]_vars`). `UhfRadio` and `RadioMemory` have no liveness
property and no fairness.

## 4. What the runs show of the code

### Violated

1. `timers_init_test`: a tone that is playing when the power switch is turned on
   reprograms TIMER1 at its next phase, which ends the delay `setUhfOn` waits
   for. The test lasts longer than its second, and unless a late compare
   interrupt happens to end it, until the watchdog restarts the radio.
2. `radio_store`: in manual mode with FMT CHG selected, TONE is to store the
   dialled frequency as the net of the selector's channel ("check for ch 20 -
   5", `uhfProcessor.c:255`), and in M-LOAD a word of day (the cases 1 and 14 to
   20 at `uhfProcessor.c:196`). It stores nothing: `processChannel` blanks the
   channel of manual mode in every pass before a key is handled
   (`uhfKeyReader.c:779`). By the theorem `NothingIsStored` this is so for every
   channel and every frequency: the code that stores is dead.
3. `usb_stuck`: the release of a key is muted like a stroke; closing the squelch
   in the pass after a stroke leaves the key down for the host.
4. `usb_hang`: `usbInterruptIsReady` is true from the start, host or no host,
   so the flag `isUsbPresent` is set in the first pass and without a host the
   second message waits until the watchdog restarts the radio. `LoopGoesOn`
   holds only because of it.

### What the passing properties leave room for

The passing properties are stated so that they hold with these and other
behaviours of the code, each by a premise of its own:

- `LateTestHasTone` says that a tone is the only way to a late test.
- `TextGivesWay` says that a text stays only if a tone took the timer, if TEST
  is on, or if the `resend` of `isrTimer1` was lost (`lost`). The last needs no
  tone: any write to a bit field of the same byte is a load, a change and a
  store, `gotTone = FALSE` in `setToneT` among them (`uhfProcessor.c:181`), and
  when the delay of the text ends between load and store, its `resend` is
  overwritten and the text stays until something else asks for the frequency.
- `KeysReleased` says that a key is released if the squelch stays open.
- `SwitchesFollowed` is about switches that move after the scan has seen them: a
  switch flipped within the first four rounds after power-up is not reported at
  all, whatever `key.c:118` says of flipped switches.
- `SelectorShown` and `DialKept` leave the first frequency selector out:
  `forcedReadFreq` takes its contacts in the rows 1, 2 and 3 for A, 3 and 2
  (`uhfKeyReader.c:801-820`), while `processInputData` takes those in the rows
  2, 3 and 4 for them (lines 131, 170 and 216). After MNL, power-on or the first
  run a resting first selector is therefore shown as its next position. No
  document says which of the two is meant, so that no run states it as a
  violation. The model decodes as the code does (`Decoded`).
- `ImplementsKeyPipe` lets the host discard one report after it has configured
  the radio: SET_CONFIGURATION leaves the interrupt endpoint's data token as it
  is, and a report with the token of the one before is taken for a repetition.
- `LoopGoesOn` and `StrokeArrives` allow the deadlock of the busy wait with a
  host whose request waits for `usbPoll`: the driver sends no report while it
  waits. The watchdog ends it.
- `ImplementsRequestPipe` lets a repeated SETUP be carried out twice, and one
  that was given up still be carried out, but never after a later one.
- `AddressKept` excepts a bus reset that came and went between two looks of
  `usbPoll`, and a SET_ADDRESS that was given up.
- `ReportPassed` excepts readings of another row: after `forcedReadFreq` the
  next reading takes a frequency row's contact for the selector's, and may
  report a channel nobody selected. `StrokesFollow` and `SelectorFollowed` say
  that this is corrected, with the right strokes. `StrokesFollow` is about a
  user who turns the knob in preset mode and lets the radio show each position;
  otherwise the blank channel makes every move a stroke down, and the simulator
  drifts.
- `StrokesFollow` and `SelectorFollowed` except a host that sets another channel
  than the radio's (`usb.c:143`): `sendKeyStroke` compares the knob's next code
  with the host's channel, so that the stroke may be wrong, and since
  `get_channel` reports a code once, nothing replaces the host's channel while
  the knob rests. `StrokesFollow` is about a host that only sends the channel
  the radio has (`careful`), `SelectorFollowed` lets the host's channel stay
  until the next code is heard (`hostLast`), and `KnobKept` does the same in
  `UhfRadio`.
- `NetsKept` and `ModeValid` except channels outside the array, which the code
  does not refuse: channel 0 is the slot of the last net, and channel 22, which
  a request of the host can carry, writes over the byte of the operating mode.
  So `NetsKept` does not say that LOAD or STATUS at channel 0 leave the last net
  alone: they do not. TONE's write of a net in FMT CHG (`uhfProcessor.c:259`) is
  no writer in `RadioMemory`, because it is never reached (`radio_store`).
- `TransferEnds` is about a host that takes any packet with the right token for
  the status. To SET_REPORT with one byte the driver answers with a status of
  one byte and not an empty one: `usbFunctionSetup` returns 0xFF
  (`usb.c:88-89`), which `usbProcessRx` limits to the length of the request
  (`usbdrv.c:468-475`).
- `TextComplete` excepts carriage returns: `sendUartNewline` writes its first
  byte without waiting for the register, which ignores it when it is full,
  although `serial.c:174` says that both are sent. `OncePerByte` and
  `TextComplete` are about a host that waits for each command to end; a host
  that does not may have a command carried out twice, or read a text with its
  own echo in it.

Where things are in EEPROM: nets at 0x00-0x5F, presets at 0x60-0xD7, and
`eeUhfState`, the operating mode, at 0xDE, which is the first byte of the slot
behind the one after the presets. It shares its byte with no net.

Seen while modelling, outside the properties: GET_PROTOCOL and SET_PROTOCOL are
swapped (`usb.c:103`); `initSerial` reports a clock that misses the baud rate,
on which `main` loops for ever, and its second error branch is never reached;
the terminal's `keyPoll` counts rows up to 16 and sets bit 4 of `PORTB`.

## 5. Proofs

TLAPS proves, for all values of the constants that satisfy the stated
assumptions (`TimesAssumption`, `MatrixAssumption`, `RadioAssumption`,
`ReportsAssumption`, `RequestsAssumption`, `PipeAssumption`, `MemoryAssumption`,
`DataAssumption`, `SerialAssumption`, `SelectorAssumption`; TLC evaluates them
in the runs):

| Theorem | States |
|---|---|
| `UhfTimersProofs!TypeCorrect` | `Spec => []TypeOK` |
| `UhfTimersProofs!SpeakerNeverStuck` | `Spec => []NoStuckTone` |
| `UhfTimersProofs!LateTestNeedsTone` | `Spec => []LateTestHasTone` |
| `KeyScanProofs!ScanTypeCorrect` | `Spec => []TypeOK` |
| `KeyScanProofs!ScanImplementsDebouncedKeys` | `Spec => ImplementsDebouncedKeys` |
| `KeyScanProofs!NoKeyFromNowhere` | `Spec => NoGhostKey` |
| `KeyScanProofs!RestingDialKept` | `Spec => DialKept` |
| `ChannelSelectorProofs!SelectorTypes` | `Spec => []TypeOK` |
| `ChannelSelectorProofs!CodesWereShown` | `Spec => ReportPassed` |
| `ChannelSelectorProofs!StrokesAlwaysFollow` | `Spec => StrokesFollow` |
| `UhfRadioProofs!NothingIsStored` | `Spec => []NothingStored` |
| `UhfRadioProofs!PresetFollowsKnob` | `Spec => []KnobKept` |
| `UhfRadioProofs!RadioTypes` | `Spec => []TypeOK` |
| `UhfRadioProofs!DisplayAlwaysCurrent` | `Spec => []DisplayCurrent` |
| `UhfRadioProofs!GuardAlwaysShown` | `Spec => []GuardShown` |
| `UsbKeysProofs!UsbTypeCorrect` | `Spec => []TypeOK` |
| `UsbKeysProofs!NoStrokeSwallowed` | `Spec => []NothingSwallowed` |
| `UsbKeysProofs!UsbImplementsKeyPipe` | `Spec => ImplementsKeyPipe` |
| `UsbDriverProofs!DriverTypes` | `UsbSpec => []UsbTypeOK` |
| `UsbDriverProofs!AddressAlwaysKept` | `UsbSpec => []AddressKept` |
| `UsbDriverProofs!RepliesInOrder` | `UsbSpec => ReplyInOrder` |
| `UsbDriverProofs!StatusTells` | `UsbSpec => StatusMeansDone` |
| `UsbDriverProofs!DriverImplementsPipe` | `UsbSpec => ImplementsRequestPipe` |
| `RadioMemoryProofs!PackingRoundTrip` | `decompressRadioData` inverts the host's packing |
| `RadioMemoryProofs!MemoryTypes` | `Spec => []MemoryTypeOK` |
| `RadioMemoryProofs!PresetsKnown` | `Spec => []PresetKnown` |
| `RadioMemoryProofs!NetsAlwaysKept` | `Spec => []NetsKept` |
| `RadioMemoryProofs!ModeAlwaysValid` | `Spec => []ModeValid` |
| `SerialLineProofs!SerialTypes` | `Spec => []TypeOK` |
| `SerialLineProofs!NewestAlwaysTaken` | `Spec => []NewestTaken` |
| `SerialLineProofs!OnceForEachByte` | `Spec => []OncePerByte` |
| `SerialLineProofs!TextAlwaysComplete` | `Spec => []TextComplete` |

The arguments:

- `UhfTimers`. `TypeOK` is inductive; with it goes the range of `audioCycle`,
  since a phase counts down only from the values it has a case for. For the
  speaker, `SpeakerInv` adds to `NoStuckTone` at which steps of `playTone`
  TIMER2 is not yet set up. For the test, `TestInv` relates the watchdog's
  count to the ticks TIMER1 still has to run, in four parts: when a first run
  may still be due (`BootPass`), that a pass has had at most one tick before
  the busy wait (`PassTime`), what each step of `setT1Delay` has set up unless
  a tone took TIMER1 (`DelaySetup`), and that in the wait TIMER1 counts down to
  the end of the second, or a tone is in a silent phase, or the test is over
  (`WaitInv`).
- `KeyScan`. The refinement mapping reads the two bits of a counter as the
  number of differing readings, `Readings`. The lemmas say what the bit
  operations do to that number; they need no invariant but the types, because
  the counter's unused values do not exist.
  That no untouched key is pressed needs to know how often another row is read
  in its place. Only row `FreqEnd` can be read wrongly more than once before it
  is read rightly: a jump skips the rows up to it and reads it with the row
  before still selected. `GhostInv` counts: the wrong readings made, plus the
  jumps that are still possible before the row's turn, are at most two, and
  four are needed. A jump is spent by a press (`Spent`); the key must be seen
  open and closed again, five readings of its own row (`Needs`), and row
  `FreqEnd` is read in each of those rounds (`Passed`, `Near`). The first run's
  jump and that of the power switch exclude each other (`FirstFar`,
  `TwoJumps`). The theorem is about the jumps the keys make; a jump made by an
  `o` from the terminal is not in `KeyScan`.
  `DialKept` needs no invariant but the types: the one contact of a selector at
  rest is what `forcedReadFreq` decodes (`RestingDecoded`), and no other of its
  positions can be reported (`RestingReported`).
- `ChannelSelector`. `Count` reads a contact's two bits as the number of
  readings that differ from the debounced contact; `CountStep` is
  `readChannel` for one contact.
  `StrokesFollow` holds by `FollowInv`: as long as the user waits for each
  position to be shown, the debounced code is either the knob's and reported
  (`AtKnob`), or that of the neighbour the knob came from, which is shown
  (`OnTheWay`). Neighbours differ in one contact (`GrayCode`), so a reading
  leads from one of the two codes to the other or leaves them, and the other
  four contacts have counted no further than the readings of other rows, at
  most three. This holds whatever the other rows show. The channel that is
  shown is the remembered one or blank, since the host sends no other.
  `ReportPassed` holds by `PassedInv`: while no other row was read, the code
  is that of some channel q, the counters are what the last three readings
  make them (`Streak`), and the knob has been near q (`Late`): the reading
  three ago was of q's neighbourhood, or the knob has come back to q, or it
  left to the one side where contacts count at different times. Without `Late`
  the rest is not inductive: from positions far from q contacts reach four
  together in combinations that are no channel's code. `CodeGoes` is the fact
  about the Gray code: from such a state one more reading leaves q or leads to
  the code of one of the last four positions. It is proved for all twenty
  channels and every walk of four readings at once.
- `UhfRadio`. `RadioInv` says that nothing was stored, that the channel is blank
  unless the mode is PRESET, and where preset mode's channel is while another
  mode is on (`channelMemory`). The `Keeps` lemmas say, function by function,
  which of four globals a function of the code leaves alone, and the steps of
  the invariant cite them. `ShownInv` adds `Good`: the globals have their
  types, the display is current and GUARD shows its frequency. Each function
  keeps that in one of four ways, one lemma each: it asks for the display to be
  sent again (`AskedGood`), shows a text (`TextGood`), turns the radio off or
  the test on (`OffGood`, `TestGood`), or changes nothing the display depends
  on (`QuietGood`); `ResendGood` is the resend check itself.
- `UsbKeys`. `UsbInv` adds that a channel stage that is reached through a wait
  is reached with `NOT_USED` as the last message. The refinement maps endpoint
  and busy wait to the sequence `InFlight`, and the two data tokens to `skew`.
- `UsbDriver`. `DriverInv` has `PollInv`, what waits and what is free at each
  place of `usbPoll`; `AnswerInv`, that between a SETUP's acknowledgement and
  the end of its transfer either that SETUP waits, or it was carried out and
  what is in the transmit buffer and behind the message pointer continues the
  answer the host has got so far (`Answering`), or is a status with the token
  the host expects (`StatusReady`); and `AddressInv`, where a new address may
  be. Replies are of any length, so the proof covers the empty
  packet at the end.
- `RadioMemory`. `MemoryInv` is the types and three parts: `SureInv`, that a
  preset the host knows of is in EEPROM, is not being written, and that no
  request to write it is on its way; `DoneInv`, that a block under way is what
  the waiting request asks for and that a request is done when it is in EEPROM;
  and `LayoutInv`, that only presets are written. `PackingRoundTrip` connects
  what the host meant with what is written. The composition with the driver
  rests on `DriverImplementsPipe`, which proves that the driver implements the
  request pipe that `RadioMemory` uses.
- `SerialLine`. `SerialInv` adds to the properties that, for a host that waits,
  the byte not yet acted on is the last one typed (`OnceInv`) and that the
  register is empty between the test and the write (`PutInv`).

Model-checked only. Liveness (`ToneEnds`, `TextGivesWay`, `SwitchesFollowed`,
`TestFollowsButton`, `SelectorShown`, `StrokeArrives`, `KeysReleased`,
`LoopGoesOn`, `TransferEnds`, `SelectorFollowed`, `Answered`) is beyond the
prover. Every other property of the passing runs is stated by a theorem.

## 6. Not modelled

- SPI and the display's formatting (`spi.c`): pure output. What is displayed is
  modelled. The terminal's `+`, which writes `SPDR`, goes with it.
- Of the debug terminal, reading and writing single registers for hardware
  tests, and the wording of its texts.
- Of `usbdrv/`, the assembly code's bit timing, bit stuffing and CRC; a
  transaction is one step. Variants of the driver that the configuration
  switches off.
- Key repeat, long presses and the additional keys in `key.c`: the first two are
  not used by this program, the last use the same counters as the matrix.
- Headers of constants (`usbconfig.h`, `usbKeyDefs.h`, `usbportability.h`)
  beyond the values the modules use.
- The word-of-day walk from channel 20 down to 15, which needs six positions in
  `UhfRadio`; its counter's range is in `TypeOK`.

## 7. Plan

Done, in this order: `UhfTimers`, the only component where handlers and main
loop share bit fields; `KeyScan` with `DebouncedKeys`; `UhfRadio`; `UsbKeys`
with `KeyPipe`; `UsbDriver` with `UsbRequests` and `RequestPipe`; `RadioMemory`
with `RadioData`; `ChannelSelector`; `SerialLine`; the theorems about each.

To come:

1. Compositions: `KeyScan` with `UhfRadio`, so that only keys that can be
   reported together meet (two keys of one row, both lost, and the word-of-day
   walk belong there); `ChannelSelector` with `UsbKeys`, so that a stroke that
   was muted or discarded counts against the simulator's channel.
2. In `KeyScan`, the jump made by the terminal's `o`, so that `NoGhostKey`
   covers it.
